---------------------------- MODULE TargetsProofs ----------------------------
(***************************************************************************)
(* Conversations stay with their work, for every value of the constants:   *)
(* any number of menus and console handlers, of requests being executed,   *)
(* of workspaces, threads and intents.                                     *)
(*                                                                         *)
(* The properties speak of one process at a time; they hold because of     *)
(* what the other processes may do meanwhile.  Effect states that once for *)
(* all actions, and each part of the invariant follows from it.            *)
(***************************************************************************)
EXTENDS Targets, TLAPS

-----------------------------------------------------------------------------
(* The inductive invariant *)

Selection == [known: BOOLEAN, ws: Workspaces, cur: [Workspaces -> Intents \cup {None}],
              intents: [Intents -> [ws: Workspaces \cup {None}, thread: Threads \cup {None}]]]

Local == [kind: {"none", "select", "create", "undone", "archive", "rename", "list", "work",
                 "resume", "late"},
          ws: Workspaces \cup {None}, thread: Threads \cup {None}, intent: Intents \cup {None},
          expected: [id: Intents \cup {None}, ws: Workspaces \cup {None},
                     thread: Threads \cup {None}, rev: Nat],
          scan: [Threads -> States], at: Nat]

Admission == [held: BOOLEAN, target: Intents \cup {None}, thread: Threads \cup {None}]

Labels == {"idle", "use", "commit", "start", "name", "unname", "rename", "undo", "forget", "trust",
           "archive", "clear", "scan", "fill", "begin", "open", "resume", "bind", "attach", "turn"}

Types ==
    /\ sel \in Selection /\ native \in [Threads -> [state: States, ws: Workspaces \cup {None}]]
    /\ rev \in Nat /\ catRev \in Nat /\ (cache = None \/ cache \in [Threads -> States])
    /\ pc \in [Procs -> Labels] /\ loc \in [Procs -> Local] /\ adm \in [Procs -> Admission]
    /\ moved \in [Procs -> BOOLEAN] /\ stray \subseteq Threads /\ unseen \subseteq Threads

\* The selection of a workspace is an intent of it; an intent that is not
\* used is empty; the thread of an intent exists; a thread has its directory.
Intent(i) == sel.intents[i]

SelOK ==
    /\ \A w \in Workspaces : sel.cur[w] # None => Intent(sel.cur[w]).ws = w
    /\ \A i \in Intents : /\ Intent(i).ws = None => Intent(i).thread = None
                          /\ Intent(i).thread # None => native[Intent(i).thread].state # "absent"
    /\ \A t \in Threads : native[t].state # "absent" => native[t].ws # None

\* A process that is executing a request.
Working(p) == loc[p].kind \in {"work", "resume", "late"}

\* Where a process may be in each operation.
KindOK(p) ==
    /\ \/ loc[p].kind = "none" /\ pc[p] = "idle"
       \/ loc[p].kind = "select" /\ pc[p] \in {"use", "commit"}
       \/ loc[p].kind = "create" /\ pc[p] \in {"start", "name", "unname", "forget", "commit", "undo"}
       \/ loc[p].kind = "undone" /\ pc[p] = "forget"
       \/ loc[p].kind = "archive" /\ pc[p] \in {"trust", "archive", "forget", "clear"}
       \/ loc[p].kind = "rename" /\ pc[p] \in {"trust", "rename", "forget"}
       \/ loc[p].kind = "list" /\ pc[p] \in {"scan", "fill"}
       \/ loc[p].kind = "work" /\ pc[p] \in {"begin", "open", "start", "name", "unname", "forget",
                                             "bind", "attach", "turn"}
       \/ loc[p].kind \in {"resume", "late"} /\ pc[p] \in {"resume", "turn"}
    /\ pc[p] # "idle" => (Working(p) <=> p \in Runners)

\* The thread a process has in hand exists; a create or a request without
\* one has yet to start it.
ThreadOK(p) ==
    /\ loc[p].thread # None => native[loc[p].thread].state # "absent"
    /\ pc[p] \in {"idle", "start", "scan", "fill"} => loc[p].thread = None
    /\ pc[p] \notin {"idle", "start", "scan", "fill", "begin", "open"} => loc[p].thread # None
    /\ loc[p].kind \in {"select", "create"} \/ Working(p) => loc[p].ws \in Workspaces

\* A request and the intent it was accepted for.  Until it binds the thread
\* it has started, nobody else gives the intent one.
WorkOK(p) ==
    Working(p) =>
        /\ loc[p].intent # None /\ Intent(loc[p].intent).ws = loc[p].ws
        /\ pc[p] \in {"begin", "open"} /\ loc[p].thread # None => Intent(loc[p].intent).thread = loc[p].thread
        /\ pc[p] \in {"start", "name", "unname", "forget", "bind"} => Intent(loc[p].intent).thread = None
        /\ pc[p] \in {"attach", "resume", "turn"} => Intent(loc[p].intent).thread = loc[p].thread
        /\ pc[p] \notin {"begin", "open", "start"} => native[loc[p].thread].ws = loc[p].ws

\* A request that was admitted with its thread known.
Pinned(p) == loc[p].kind = "resume" \/ (pc[p] = "open" /\ loc[p].thread # None)

\* What a process holds.
HoldOK(p) ==
    /\ Working(p) /\ pc[p] # "begin" => adm[p].held /\ adm[p].target = loc[p].intent
    /\ Pinned(p) => adm[p].thread = loc[p].thread
    /\ loc[p].kind = "archive" => adm[p] = [held |-> TRUE, target |-> None, thread |-> loc[p].thread]
    /\ loc[p].kind = "resume" => native[loc[p].thread].state # "archived"

\* A caller has seen every change of the selection the revision counts.
StaleOK(p) ==
    loc[p].kind \in {"select", "create"} =>
        loc[p].expected.rev <= rev /\ (moved[p] => loc[p].expected.rev < rev)

\* The process made thread t in Codex and has not handed it over yet.
Owns(p, t) == /\ loc[p].thread = t /\ loc[p].kind \in {"create", "work"}
              /\ pc[p] \in {"name", "unname", "forget", "commit", "undo", "bind"}

OwnedOK(t) ==
    \/ native[t].state \notin Listed \/ t \in stray
    \/ \E i \in Intents : Intent(i).thread = t
    \/ \E p \in Procs : Owns(p, t)

\* What a scan shows of a thread.
View(t) == IF native[t].state \in Listed THEN native[t].state ELSE "absent"

Changing(p, t) == loc[p].thread = t /\ pc[p] \in {"name", "forget"}

\* A scan or a cached directory that is up to date, but for changes to come.
Current(scan) == \A t \in Threads \ unseen : scan[t] = View(t) \/ \E p \in Procs : Changing(p, t)

CacheOK ==
    /\ cache # None => Current(cache)
    /\ \A p \in Procs : loc[p].kind = "list" =>
          loc[p].at <= catRev /\ (pc[p] = "fill" /\ loc[p].at = catRev => Current(loc[p].scan))

\* Admissions with a target exclude one another; so do an archive and a
\* request admitted with the thread.
Exclusive ==
    /\ \A p, q \in Procs : p # q /\ adm[p].held /\ adm[q].held /\ adm[p].target # None =>
          adm[p].target # adm[q].target
    /\ \A p, q \in Procs : Pinned(p) /\ loc[q].kind = "archive" => loc[p].thread # loc[q].thread

ProcOK(p) == KindOK(p) /\ ThreadOK(p) /\ WorkOK(p) /\ HoldOK(p) /\ StaleOK(p)

TInv == Types /\ SelOK /\ Exclusive /\ CacheOK /\ (\A p \in Procs : ProcOK(p)) /\ (\A t \in Threads : OwnedOK(t))

-----------------------------------------------------------------------------
(* What a step of process p may do *)

Others(p) == \A q \in Procs \ {p} : pc'[q] = pc[q] /\ loc'[q] = loc[q] /\ adm'[q] = adm[q]

\* Intents keep what they have; only Bind gives a used one a thread.
IntentMoves(p) ==
    \A i \in Intents :
        /\ Intent(i).ws # None => Intent(i)'.ws = Intent(i).ws
        /\ Intent(i).thread # None => Intent(i)'.thread = Intent(i).thread
        /\ Intent(i).ws # None /\ Intent(i)'.thread # Intent(i).thread =>
              pc[p] = "bind" /\ i = loc[p].intent

\* Threads stay where they are; what a process changes is the one it has in
\* hand, a new one or one it brings back.
NativeMoves(p) ==
    \A t \in Threads :
        /\ native[t].state # "absent" => native'[t].state # "absent" /\ native'[t].ws = native[t].ws
        /\ native'[t].state # "absent" => native'[t].ws # None
        /\ native'[t].state = "archived" /\ native[t].state # "archived" =>
              loc[p].kind = "archive" /\ loc[p].thread = t
        /\ native'[t].state \in Listed /\ native[t].state \notin Listed =>
              Owns(p, t)' \/ t \in stray' \/ \E i \in Intents : Intent(i)'.thread = t
        /\ View(t)' # View(t) => t \in unseen' \/ Changing(p, t)'

\* A new admission is of a target and of a thread nobody holds.
AdmissionMoves(p) ==
    /\ adm'[p].held /\ adm'[p].target # None =>
          \/ adm[p].held /\ adm[p].target = adm'[p].target
          \/ \A q \in Procs : adm[q].held => adm[q].target # adm'[p].target
    /\ Pinned(p)' => \/ Pinned(p) /\ loc'[p].thread = loc[p].thread
                     \/ \A q \in Procs : loc[q].kind = "archive" => loc[q].thread # loc'[p].thread
    /\ loc'[p].kind = "archive" => \/ loc[p].kind = "archive" /\ loc'[p].thread = loc[p].thread
                                   \/ \A q \in Procs : Pinned(q) => loc[q].thread # loc'[p].thread

\* What a process made and lets go of is an intent's, withdrawn or noted.
OwnerMoves(p) ==
    /\ stray \subseteq stray'
    /\ \A t \in Threads : Owns(p, t) =>
          \/ Owns(p, t)' \/ native'[t].state \notin Listed \/ t \in stray'
          \/ \E i \in Intents : Intent(i)'.thread = t

\* A process that lets go of a thread it was changing invalidates the cache.
CacheMoves(p) ==
    /\ unseen \subseteq unseen'
    /\ \/ catRev' = catRev /\ \A t \in Threads : Changing(p, t) => Changing(p, t)' \/ t \in unseen'
       \/ catRev' = catRev + 1 /\ cache' = None
    /\ \/ cache' = cache \/ cache' = None
       \/ loc[p].kind = "list" /\ pc[p] = "fill" /\ loc[p].at = catRev /\ cache' = loc[p].scan
    /\ loc'[p].kind = "list" =>
          /\ native' = native /\ unseen' = unseen /\ catRev' = catRev
          /\ loc'[p].at = IF loc[p].kind = "list" THEN loc[p].at ELSE catRev
          /\ pc'[p] = "fill" => \A t \in Threads : loc'[p].scan[t] = View(t)

\* The revision counts every change of the selection.
RevisionMoves(p) ==
    /\ \/ rev' = rev /\ \A q \in Procs : moved'[q] => moved[q]
       \/ rev' = rev + 1
    /\ loc'[p].kind \in {"select", "create"} =>
          \/ loc[p].kind \in {"select", "create"} /\ loc'[p].expected = loc[p].expected
          \/ rev' = rev /\ loc'[p].expected.rev = rev /\ ~ moved'[p]

\* Mine: process p is well after its own step.
Mine(p) == KindOK(p)' /\ ThreadOK(p)' /\ WorkOK(p)' /\ HoldOK(p)'

Effect(p) ==
    /\ Types' /\ SelOK' /\ Mine(p) /\ Others(p)
    /\ IntentMoves(p) /\ NativeMoves(p) /\ AdmissionMoves(p) /\ OwnerMoves(p) /\ CacheMoves(p)
    /\ RevisionMoves(p)

-----------------------------------------------------------------------------
(* The invariant follows from the effect of a step *)

\* The parts of a process's state that the proofs look at.
LEMMA ProcFacts ==
    ASSUME Types, NEW p \in Procs
    PROVE  /\ pc[p] \in Labels /\ loc[p] \in Local /\ adm[p] \in Admission
           /\ loc[p].thread \in Threads \cup {None} /\ loc[p].intent \in Intents \cup {None}
           /\ loc[p].at \in Nat /\ loc[p].expected.rev \in Nat
BY DEF Types, Local

\* Nobody else disturbs a process that is not the one that moves.
LEMMA OthersKept ==
    ASSUME TInv, NEW p \in Procs, Effect(p), NEW q \in Procs \ {p}
    PROVE  KindOK(q)' /\ ThreadOK(q)' /\ WorkOK(q)' /\ HoldOK(q)'
<1>1. /\ pc'[q] = pc[q] /\ loc'[q] = loc[q] /\ adm'[q] = adm[q]
      /\ KindOK(q) /\ ThreadOK(q) /\ WorkOK(q) /\ HoldOK(q)
  BY DEF TInv, ProcOK, Effect, Others
<1>2. /\ loc[q].thread \in Threads \cup {None} /\ loc[q].intent \in Intents \cup {None}
      /\ loc[p].thread \in Threads \cup {None} /\ loc[p].intent \in Intents \cup {None}
  BY ProcFacts DEF TInv
<1>3. Pinned(q)' <=> Pinned(q)
  BY <1>1 DEF Pinned
<1>4. Working(q)' <=> Working(q)
  BY <1>1 DEF Working
<1>5. KindOK(q)'
  BY <1>1, <1>4 DEF KindOK
<1>6. ThreadOK(q)'
  BY <1>1, <1>2, <1>4 DEF ThreadOK, Effect, NativeMoves
<1>7. WorkOK(q)'
  <2> SUFFICES ASSUME Working(q)
               PROVE  /\ loc[q].intent # None /\ Intent(loc[q].intent)'.ws = loc[q].ws
                      /\ pc[q] \in {"begin", "open"} /\ loc[q].thread # None =>
                            Intent(loc[q].intent)'.thread = loc[q].thread
                      /\ pc[q] \in {"start", "name", "unname", "forget", "bind"} =>
                            Intent(loc[q].intent)'.thread = None
                      /\ pc[q] \in {"attach", "resume", "turn"} =>
                            Intent(loc[q].intent)'.thread = loc[q].thread
                      /\ pc[q] \notin {"begin", "open", "start"} => native'[loc[q].thread].ws = loc[q].ws
    BY <1>1, <1>4 DEF WorkOK
  <2>a. loc[q].intent \in Intents
    BY <1>1, <1>2 DEF WorkOK
  <2>b. PICK i \in Intents : i = loc[q].intent
    BY <2>a
  <2>1. i = loc[q].intent /\ Intent(i).ws = loc[q].ws /\ loc[q].ws \in Workspaces /\ loc[q].ws # None
    BY <1>1, <2>b, TargetAssumption DEF WorkOK, ThreadOK
  <2>2. Intent(i)'.ws = Intent(i).ws /\ (Intent(i).thread # None => Intent(i)'.thread = Intent(i).thread)
    BY <2>1 DEF Effect, IntentMoves
  <2>3. ASSUME pc[q] # "begin", Intent(i)'.thread # Intent(i).thread PROVE FALSE
    <3>1. pc[p] = "bind" /\ i = loc[p].intent
      BY <2>1, <2>3 DEF Effect, IntentMoves
    <3>2. Working(p)
      BY <3>1 DEF TInv, ProcOK, KindOK, Working
    <3>3. adm[p].held /\ adm[p].target = i
      BY <3>1, <3>2 DEF TInv, ProcOK, HoldOK
    <3>4. adm[q].held /\ adm[q].target = i
      BY <1>1, <2>b, <2>3 DEF HoldOK
    <3>5. i # None
      BY <2>1, TargetAssumption
    <3> QED
      BY <3>3, <3>4, <3>5 DEF TInv, Exclusive
  <2>4. pc[q] \notin {"begin", "open", "start"} => native'[loc[q].thread].ws = loc[q].ws
    <3> SUFFICES ASSUME pc[q] \notin {"begin", "open", "start"} PROVE native'[loc[q].thread].ws = loc[q].ws
      OBVIOUS
    <3>1. native[loc[q].thread].ws = loc[q].ws
      BY <1>1 DEF WorkOK
    <3>2. loc[q].thread # None
      BY <1>1 DEF ThreadOK, KindOK, Working
    <3> QED
      BY <1>1, <1>2, <3>1, <3>2 DEF ThreadOK, Effect, NativeMoves
  <2> QED
    BY <1>1, <2>1, <2>2, <2>3, <2>4 DEF WorkOK
<1>8. HoldOK(q)'
  <2>1. ASSUME loc[q].kind = "resume" PROVE native'[loc[q].thread].state # "archived"
    <3>1. Pinned(q) /\ loc[q].thread \in Threads /\ native[loc[q].thread].state # "archived"
      BY <1>1, <1>2, <2>1 DEF Pinned, HoldOK, ThreadOK, KindOK
    <3>2. loc[p].kind = "archive" => loc[p].thread # loc[q].thread
      BY <3>1 DEF TInv, Exclusive
    <3> QED
      BY <3>1, <3>2 DEF Effect, NativeMoves
  <2> QED
    BY <1>1, <1>3, <1>4, <2>1 DEF HoldOK
<1> QED
  BY <1>5, <1>6, <1>7, <1>8

\* Snapshots stay older than the changes that came after them.
LEMMA StaleNext ==
    ASSUME TInv, NEW p \in Procs, Effect(p), NEW q \in Procs
    PROVE  StaleOK(q)'
<1>1. rev \in Nat /\ loc[q].expected.rev \in Nat /\ StaleOK(q)
  BY ProcFacts DEF TInv, Types, ProcOK
<1>2. (rev' = rev /\ (moved'[q] => moved[q])) \/ rev' = rev + 1
  BY DEF Effect, RevisionMoves
<1>3. CASE loc'[q].expected = loc[q].expected /\ loc[q].kind \in {"select", "create"}
  BY <1>1, <1>2, <1>3 DEF StaleOK
<1>4. CASE q = p /\ rev' = rev /\ loc'[p].expected.rev = rev /\ ~ moved'[p]
  BY <1>1, <1>4 DEF StaleOK
<1>5. CASE loc'[q].kind \notin {"select", "create"}
  BY <1>5 DEF StaleOK
<1>6. q # p => loc'[q] = loc[q]
  BY DEF Effect, Others
<1> QED
  BY <1>3, <1>4, <1>5, <1>6 DEF Effect, RevisionMoves

LEMMA ExclusiveNext ==
    ASSUME TInv, NEW p \in Procs, Effect(p)
    PROVE  Exclusive'
<1>1. \A q \in Procs \ {p} : pc'[q] = pc[q] /\ loc'[q] = loc[q] /\ adm'[q] = adm[q]
  BY DEF Effect, Others
<1>2. AdmissionMoves(p) /\ Exclusive
  BY DEF TInv, Effect
<1>3. ASSUME NEW a \in Procs, NEW b \in Procs, a # b, adm'[a].held, adm'[b].held, adm'[a].target # None
      PROVE  adm'[a].target # adm'[b].target
  BY <1>1, <1>2, <1>3 DEF AdmissionMoves, Exclusive
<1>4. ASSUME NEW a \in Procs, NEW b \in Procs, Pinned(a)', loc'[b].kind = "archive"
      PROVE  loc'[a].thread # loc'[b].thread
  <2>1. \A q \in Procs \ {p} : Pinned(q)' <=> Pinned(q)
    BY <1>1 DEF Pinned
  <2>2. CASE a = p /\ b = p
    BY <1>4, <2>2 DEF Effect, Mine, KindOK, Pinned
  <2>3. CASE a = p /\ b # p
    BY <1>1, <1>2, <1>4, <2>3 DEF AdmissionMoves, Exclusive
  <2>4. CASE a # p /\ b = p
    BY <1>1, <1>2, <1>4, <2>1, <2>4 DEF AdmissionMoves, Exclusive
  <2>5. CASE a # p /\ b # p
    BY <1>1, <1>2, <1>4, <2>1, <2>5 DEF Exclusive
  <2> QED
    BY <2>2, <2>3, <2>4, <2>5
<1> QED
  BY <1>3, <1>4 DEF Exclusive

\* A thread the service made keeps an owner.
LEMMA OwnedNext ==
    ASSUME TInv, NEW p \in Procs, Effect(p), NEW t \in Threads
    PROVE  OwnedOK(t)'
<1>1. /\ OwnedOK(t) /\ OwnerMoves(p) /\ NativeMoves(p) /\ IntentMoves(p)
  BY DEF TInv, Effect
<1>2. \A q \in Procs \ {p} : Owns(q, t)' <=> Owns(q, t)
  BY DEF Effect, Others, Owns
<1>3. CASE native[t].state \notin Listed
  BY <1>1, <1>3 DEF NativeMoves, OwnedOK
<1>4. CASE t \in stray
  BY <1>1, <1>4 DEF OwnerMoves, OwnedOK
<1>5. ASSUME NEW i \in Intents, Intent(i).thread = t PROVE OwnedOK(t)'
  <2>1. t # None
    BY TargetAssumption
  <2>2. Intent(i)'.thread = t
    BY <1>1, <1>5, <2>1 DEF IntentMoves
  <2> QED
    BY <2>2 DEF OwnedOK
<1>6. ASSUME NEW q \in Procs, Owns(q, t) PROVE OwnedOK(t)'
  <2>1. CASE q = p
    BY <1>1, <1>6, <2>1 DEF OwnerMoves, OwnedOK
  <2>2. CASE q # p
    <3>1. Owns(q, t)'
      BY <1>2, <1>6, <2>2
    <3> QED
      BY <3>1 DEF OwnedOK
  <2> QED
    BY <2>1, <2>2
<1> QED
  BY <1>1, <1>3, <1>4, <1>5, <1>6 DEF OwnedOK

\* A scan that was up to date is so after a step that invalidates nothing.
LEMMA CurrentStays ==
    ASSUME TInv, NEW p \in Procs, Effect(p), NEW scan, Current(scan), catRev' = catRev
    PROVE  \A t \in Threads \ unseen' : scan[t] = View(t)' \/ \E q \in Procs : Changing(q, t)'
<1> SUFFICES ASSUME NEW t \in Threads, t \notin unseen', ~ \E q \in Procs : Changing(q, t)'
             PROVE  scan[t] = View(t)'
  OBVIOUS
<1>1. NativeMoves(p) /\ CacheMoves(p) /\ catRev \in Nat
  BY DEF Effect, TInv, Types
<1>2. View(t)' = View(t)
  BY <1>1 DEF NativeMoves
<1>3. t \notin unseen
  BY <1>1 DEF CacheMoves
<1>4. ~ Changing(p, t)
  BY <1>1 DEF CacheMoves
<1>5. ASSUME NEW q \in Procs \ {p} PROVE ~ Changing(q, t)
  <2>1. Changing(q, t)' <=> Changing(q, t)
    BY DEF Effect, Others, Changing
  <2> QED
    BY <2>1
<1> QED
  BY <1>2, <1>3, <1>4, <1>5 DEF Current

LEMMA CacheNext ==
    ASSUME TInv, NEW p \in Procs, Effect(p)
    PROVE  CacheOK'
<1>1. CacheMoves(p) /\ catRev \in Nat /\ CacheOK
  BY DEF Effect, TInv, Types
<1>2. ASSUME cache' # None PROVE Current(cache)'
  <2>1. catRev' = catRev
    BY <1>1, <1>2 DEF CacheMoves
  <2>2. CASE cache' = cache
    <3>1. Current(cache)
      BY <1>1, <1>2, <2>2 DEF CacheOK
    <3>2. \A t \in Threads \ unseen' : cache[t] = View(t)' \/ \E q \in Procs : Changing(q, t)'
      BY <2>1, <3>1, CurrentStays
    <3> QED
      BY <2>2, <3>2 DEF Current
  <2>3. CASE loc[p].kind = "list" /\ pc[p] = "fill" /\ loc[p].at = catRev /\ cache' = loc[p].scan
    <3>1. Current(loc[p].scan)
      BY <1>1, <2>3 DEF CacheOK
    <3>2. \A t \in Threads \ unseen' : loc[p].scan[t] = View(t)' \/ \E q \in Procs : Changing(q, t)'
      BY <2>1, <3>1, CurrentStays
    <3> QED
      BY <2>3, <3>2 DEF Current
  <2> QED
    BY <1>1, <1>2, <2>2, <2>3 DEF CacheMoves
<1>3. ASSUME NEW q \in Procs, loc'[q].kind = "list"
      PROVE  loc'[q].at <= catRev' /\ (pc'[q] = "fill" /\ loc'[q].at = catRev' => Current(loc[q].scan)')
  <2>1. CASE q = p
    <3>1. /\ native' = native /\ unseen' = unseen /\ catRev' = catRev
          /\ loc'[p].at = IF loc[p].kind = "list" THEN loc[p].at ELSE catRev
          /\ pc'[p] = "fill" => \A t \in Threads : loc'[p].scan[t] = View(t)
      BY <1>1, <1>3, <2>1 DEF CacheMoves
    <3>2. loc'[p].at <= catRev'
      BY <1>1, <3>1 DEF CacheOK
    <3>3. \A t \in Threads : View(t)' = View(t)
      BY <3>1 DEF View
    <3> QED
      BY <2>1, <3>1, <3>2, <3>3 DEF Current
  <2>2. CASE q # p
    <3>1. pc'[q] = pc[q] /\ loc'[q] = loc[q] /\ loc[q].at \in Nat
      BY <2>2, ProcFacts DEF Effect, Others, TInv
    <3>2. loc[q].at <= catRev /\ (pc[q] = "fill" /\ loc[q].at = catRev => Current(loc[q].scan))
      BY <1>1, <1>3, <3>1 DEF CacheOK
    <3>3. CASE catRev' = catRev + 1
      BY <1>1, <3>1, <3>2, <3>3
    <3>4. CASE catRev' = catRev
      <4>1. ASSUME pc[q] = "fill", loc[q].at = catRev PROVE Current(loc[q].scan)'
        <5>1. \A t \in Threads \ unseen' : loc[q].scan[t] = View(t)' \/ \E r \in Procs : Changing(r, t)'
          BY <3>2, <3>4, <4>1, CurrentStays
        <5> QED
          BY <3>1, <5>1 DEF Current
      <4> QED
        BY <3>1, <3>2, <3>4, <4>1
    <3> QED
      BY <1>1, <3>3, <3>4 DEF CacheMoves
  <2> QED
    BY <2>1, <2>2
<1> QED
  BY <1>2, <1>3 DEF CacheOK

LEMMA InvariantFromEffect ==
    ASSUME TInv, NEW p \in Procs, Effect(p)
    PROVE  TInv'
<1>1. ASSUME NEW q \in Procs PROVE ProcOK(q)'
  <2>1. KindOK(q)' /\ ThreadOK(q)' /\ WorkOK(q)' /\ HoldOK(q)'
    BY OthersKept DEF Effect, Mine
  <2> QED
    BY <2>1, StaleNext DEF ProcOK
<1>2. \A t \in Threads : OwnedOK(t)'
  BY OwnedNext
<1> QED
  BY <1>1, <1>2, ExclusiveNext, CacheNext DEF TInv, Effect

-----------------------------------------------------------------------------
(* Parts of an effect that several actions share *)

LEMMA ConstantTypes ==
    /\ NoLocal \in Local /\ NoAdmission \in Admission /\ NoSelection.rev = 0
    /\ NoLocal.kind = "none" /\ NoLocal.ws = None /\ NoLocal.thread = None /\ NoLocal.intent = None
    /\ NoLocal.expected = NoSelection
    /\ ~ NoAdmission.held
BY DEF NoLocal, Local, NoAdmission, Admission, NoSelection, NoScan, States

LEMMA NativeIdle ==
    ASSUME TInv, NEW p \in Procs, native' = native
    PROVE  NativeMoves(p)
BY DEF NativeMoves, View, TInv, SelOK

LEMMA SelectionKept ==
    ASSUME TInv, NEW p \in Procs, sel' = sel, NativeMoves(p)
    PROVE  sel' \in Selection /\ SelOK' /\ IntentMoves(p)
<1>1. sel \in Selection /\ SelOK
  BY DEF TInv, Types
<1>2. \A i \in Intents : Intent(i)' = Intent(i) /\ Intent(i).thread \in Threads \cup {None}
  BY <1>1 DEF Intent, Selection
<1>3. IntentMoves(p)
  BY <1>2 DEF IntentMoves
<1>4. SelOK'
  BY <1>1, <1>2 DEF SelOK, NativeMoves, Intent
<1> QED
  BY <1>1, <1>3, <1>4

\* An intent that is not used exists while there is room.
LEMMA FreshIntent ==
    ASSUME TInv, Room
    PROVE  Fresh \in Intents /\ Intent(Fresh) = NoIntent
<1>1. Used \subseteq Intents
  BY DEF Used
<1>2. \E i \in Intents \ Used : TRUE
  BY <1>1 DEF Room
<1>3. Fresh \in Intents \ Used
  BY <1>2 DEF Fresh
<1> QED
  BY <1>3 DEF Used, Intent

\* What Commit does to the selection: one intent is made, kept or bound.
LEMMA CommitMoves ==
    ASSUME TInv, NEW p \in Procs, NEW s \in Selection, NEW i \in Intents, NEW w \in Workspaces,
           NEW t \in Threads \cup {None},
           s.intents = [sel.intents EXCEPT ![i] = [ws |-> w, thread |-> t]],
           s.cur = sel.cur \/ s.cur = [sel.cur EXCEPT ![w] = i],
           \/ Intent(i) = NoIntent
           \/ Intent(i) = [ws |-> w, thread |-> t]
           \/ Intent(i).ws = w /\ Intent(i).thread = None /\ pc[p] = "bind" /\ i = loc[p].intent,
           t # None => native[t].state # "absent",
           native' = native, Commit(s)
    PROVE  /\ sel' \in Selection /\ SelOK' /\ IntentMoves(p)
           /\ sel'.intents = s.intents /\ sel'.cur = s.cur /\ sel'.ws = s.ws
           /\ rev' \in Nat /\ ((rev' = rev /\ \A q \in Procs : moved'[q] => moved[q]) \/ rev' = rev + 1)
           /\ moved' \in [Procs -> BOOLEAN]
           /\ \A j \in Intents : Intent(j).thread # None => Intent(j)'.thread = Intent(j).thread
<1>1. sel \in Selection /\ SelOK /\ rev \in Nat /\ None \notin Workspaces /\ None \notin Intents
  BY TargetAssumption DEF TInv, Types
<1>2. /\ sel' \in Selection /\ sel'.intents = s.intents /\ sel'.cur = s.cur /\ sel'.ws = s.ws
  BY DEF Commit, Selection
<1>3. rev' \in Nat /\ ((rev' = rev /\ \A q \in Procs : moved'[q] => moved[q]) \/ rev' = rev + 1)
  <2> DEFINE changed == ~ sel.known \/ s.ws # sel.ws \/ s.cur # sel.cur
  <2>1. /\ rev' = IF changed THEN rev + 1 ELSE rev
        /\ moved' = [q \in Procs |-> moved[q] \/ changed]
    BY DEF Commit
  <2> HIDE DEF changed
  <2>2. ASSUME ~ changed, NEW q \in Procs, moved'[q] PROVE moved[q]
    BY <2>1, <2>2, Zenon
  <2>3. changed => rev' = rev + 1
    BY <2>1
  <2>4. ~ changed => rev' = rev
    BY <2>1
  <2> QED
    BY <1>1, <2>2, <2>3, <2>4
<1>4. Intent(i)' = [ws |-> w, thread |-> t] /\ \A j \in Intents \ {i} : Intent(j)' = Intent(j)
  <2>1. sel.intents \in [Intents -> [ws: Workspaces \cup {None}, thread: Threads \cup {None}]]
    BY <1>1 DEF Selection
  <2>2. sel'.intents = [sel.intents EXCEPT ![i] = [ws |-> w, thread |-> t]]
    BY <1>2
  <2> QED
    BY <2>1, <2>2 DEF Intent
<1>5. IntentMoves(p)
  <2> SUFFICES ASSUME NEW j \in Intents
               PROVE  /\ Intent(j).ws # None => Intent(j)'.ws = Intent(j).ws
                      /\ Intent(j).thread # None => Intent(j)'.thread = Intent(j).thread
                      /\ Intent(j).ws # None /\ Intent(j)'.thread # Intent(j).thread =>
                            pc[p] = "bind" /\ j = loc[p].intent
    BY DEF IntentMoves
  <2>1. CASE j # i
    BY <1>4, <2>1
  <2>2. CASE j = i
    BY <1>4, <2>2 DEF NoIntent
  <2> QED
    BY <2>1, <2>2
<1>6. ASSUME NEW v \in Workspaces, sel'.cur[v] # None PROVE sel'.intents[sel'.cur[v]].ws = v
  <2>1. CASE sel'.cur[v] = sel.cur[v]
    <3>1. PICK j \in Intents : j = sel.cur[v]
      BY <1>1, <1>6, <2>1 DEF Selection
    <3>2. Intent(j).ws = v
      BY <1>1, <1>6, <2>1, <3>1 DEF SelOK
    <3>3. Intent(j)'.ws = v
      BY <1>1, <1>5, <3>2 DEF IntentMoves
    <3> QED
      BY <2>1, <3>1, <3>3 DEF Intent
  <2>2. CASE sel'.cur[v] # sel.cur[v]
    <3>1. v = w /\ sel'.cur[v] = i
      BY <1>1, <1>2, <2>2 DEF Selection
    <3> QED
      BY <1>4, <3>1 DEF Intent
  <2> QED
    BY <2>1, <2>2
<1>7. SelOK'
  <2>1. ASSUME NEW j \in Intents
        PROVE  /\ Intent(j)'.ws = None => Intent(j)'.thread = None
               /\ Intent(j)'.thread # None => native'[Intent(j)'.thread].state # "absent"
    BY <1>1, <1>4, <2>1 DEF SelOK
  <2>2. \A v \in Threads : native'[v].state # "absent" => native'[v].ws # None
    BY <1>1 DEF SelOK
  <2> QED
    BY <1>6, <2>1, <2>2 DEF SelOK, Intent
<1>8. moved' \in [Procs -> BOOLEAN]
  BY DEF Commit
<1> QED
  BY <1>2, <1>3, <1>5, <1>7, <1>8 DEF IntentMoves

\* An operation that ends leaves nothing in hand.
LEMMA Ends ==
    ASSUME TInv, NEW p \in Procs, End(p), adm' = adm \/ Release(p)
    PROVE  /\ pc' \in [Procs -> Labels] /\ loc' \in [Procs -> Local] /\ adm' \in [Procs -> Admission]
           /\ pc'[p] = "idle" /\ loc'[p].kind = "none"
           /\ Mine(p) /\ Others(p) /\ AdmissionMoves(p)
<1>1. pc \in [Procs -> Labels] /\ loc \in [Procs -> Local] /\ adm \in [Procs -> Admission]
  BY DEF TInv, Types
<1>2. /\ pc' \in [Procs -> Labels] /\ loc' \in [Procs -> Local] /\ adm' \in [Procs -> Admission]
      /\ pc'[p] = "idle" /\ loc'[p] = NoLocal
  BY <1>1, ConstantTypes DEF End, Goto, Release, Labels
<1>3. adm'[p] = adm[p] \/ ~ adm'[p].held
  BY <1>1, ConstantTypes DEF Release
<1>4. Others(p)
  BY <1>1 DEF Others, End, Goto, Release
<1>5. Mine(p)
  BY <1>2, ConstantTypes DEF Mine, KindOK, ThreadOK, WorkOK, HoldOK, Working, Pinned
<1>6. AdmissionMoves(p)
  BY <1>2, <1>3, ConstantTypes DEF AdmissionMoves, Pinned
<1> QED
  BY <1>2, <1>4, <1>5, <1>6, ConstantTypes

-----------------------------------------------------------------------------
(* The operations of the target store *)

LEMMA PointFacts ==
    ASSUME NEW s \in Selection, NEW w \in Workspaces, NEW i \in Intents, NEW t \in Threads \cup {None}
    PROVE  /\ Point(s, w, i, t) \in Selection
           /\ [Point(s, w, i, t) EXCEPT !.ws = w] \in Selection
           /\ Point(s, w, i, t).intents = [s.intents EXCEPT ![i] = [ws |-> w, thread |-> t]]
           /\ Point(s, w, i, t).cur = [s.cur EXCEPT ![w] = i]
           /\ [Point(s, w, i, t) EXCEPT !.ws = w].intents = Point(s, w, i, t).intents
           /\ [Point(s, w, i, t) EXCEPT !.ws = w].cur = Point(s, w, i, t).cur
           /\ [Point(s, w, i, t) EXCEPT !.ws = w].ws = w
<1> DEFINE x == Point(s, w, i, t)
<1>1. /\ x.intents = [s.intents EXCEPT ![i] = [ws |-> w, thread |-> t]]
      /\ x.cur = [s.cur EXCEPT ![w] = i]
  BY DEF Point, Selection
<1>2. x \in Selection
  BY DEF Point, Selection
<1> HIDE DEF x
<1> QED
  BY <1>1, <1>2 DEF Selection, x

LEMMA FreshPoint ==
    ASSUME TInv, Room, NEW w \in Workspaces
    PROVE  /\ Point(sel, w, Fresh, None) \in Selection
           /\ Point(sel, w, Fresh, None).intents = [sel.intents EXCEPT ![Fresh] = [ws |-> w, thread |-> None]]
           /\ Point(sel, w, Fresh, None).cur = [sel.cur EXCEPT ![w] = Fresh]
<1> DEFINE s == Point(sel, w, Fresh, None)
<1>1. sel \in Selection /\ Fresh \in Intents
  BY FreshIntent DEF TInv, Types
<1>2. s.intents = [sel.intents EXCEPT ![Fresh] = [ws |-> w, thread |-> None]] /\ s.cur = [sel.cur EXCEPT ![w] = Fresh]
  BY <1>1 DEF Point, Selection
<1>3. s \in Selection
  BY <1>1 DEF Point, Selection
<1> QED
  BY <1>2, <1>3

\* What Selected chooses: an intent of the workspace that has the thread, or
\* an unused one.
LEMMA SelectedFacts ==
    ASSUME TInv, NEW w \in Workspaces, NEW t \in Threads \cup {None},
           IF t = None THEN sel.cur[w] = None => Room ELSE Holding(sel, w, t) = {} => Room,
           t # None => native[t].state # "absent"
    PROVE  \E i \in Intents, u \in Threads \cup {None} :
              /\ Selected(w, t) = [Point(sel, w, i, u) EXCEPT !.ws = w]
              /\ Intent(i) = NoIntent \/ Intent(i) = [ws |-> w, thread |-> u]
              /\ u # None => native[u].state # "absent"
              /\ t # None => u = t
<1> DEFINE i == sel.cur[w]
           kept == i # None /\ (t = None \/ sel.intents[i].thread = t)
           others == IF t = None THEN {} ELSE Holding(sel, w, t)
<1>1. sel \in Selection /\ SelOK /\ i \in Intents \cup {None}
  BY DEF TInv, Types, Selection
<1>2. CASE kept
  <2>1. i \in Intents /\ Intent(i).ws = w /\ Intent(i) \in [ws: Workspaces \cup {None}, thread: Threads \cup {None}]
    BY <1>1, <1>2 DEF SelOK, Intent, Selection
  <2>2. PICK u \in Threads \cup {None} : u = Intent(i).thread
    BY <2>1
  <2>3. Intent(i) = [ws |-> w, thread |-> u]
    BY <2>1, <2>2
  <2>4. u # None => native[u].state # "absent"
    BY <1>1, <2>1, <2>2 DEF SelOK
  <2>5. Selected(w, t) = [Point(sel, w, i, u) EXCEPT !.ws = w]
    BY <1>2, <2>2 DEF Selected, Intent
  <2>6. t # None => u = t
    BY <1>2, <2>2 DEF Intent
  <2> QED
    BY <2>1, <2>3, <2>4, <2>5, <2>6
<1>3. CASE ~ kept /\ others # {}
  <2>1. PICK j \in others : j = CHOOSE k \in others : TRUE
    BY <1>3
  <2>2. t # None /\ j \in Intents /\ Intent(j) = [ws |-> w, thread |-> t]
    BY <2>1 DEF Holding, Intent
  <2>3. Selected(w, t) = [Point(sel, w, j, t) EXCEPT !.ws = w]
    BY <1>3, <2>1 DEF Selected
  <2> QED
    BY <2>2, <2>3
<1>4. CASE ~ kept /\ others = {}
  <2>1. Room
    BY <1>4
  <2>2. Fresh \in Intents /\ Intent(Fresh) = NoIntent
    BY <2>1, FreshIntent
  <2>3. Selected(w, t) = [Point(sel, w, Fresh, t) EXCEPT !.ws = w]
    BY <1>4 DEF Selected
  <2> QED
    BY <2>2, <2>3
<1> QED
  BY <1>2, <1>3, <1>4

\* A call that only commits.
LEMMA StoreOnly ==
    ASSUME TInv, NEW p \in Procs, pc[p] = "idle",
           UNCHANGED <<native, catalogue, pc, loc, adm, stray, unseen>>,
           sel' \in Selection, SelOK', IntentMoves(p), rev' \in Nat, moved' \in [Procs -> BOOLEAN],
           (rev' = rev /\ \A q \in Procs : moved'[q] => moved[q]) \/ rev' = rev + 1
    PROVE  Effect(p)
<1>1. KindOK(p) /\ ThreadOK(p) /\ Types /\ loc[p].kind = "none" /\ loc[p].thread = None
  BY DEF TInv, ProcOK, KindOK, ThreadOK
<1>2. Types'
  BY <1>1 DEF Types, catalogue
<1>3. Mine(p)
  BY <1>1 DEF Mine, KindOK, ThreadOK, WorkOK, HoldOK, Working, Pinned
<1>4. Others(p)
  BY DEF Others
<1>5. NativeMoves(p)
  BY NativeIdle
<1>6. AdmissionMoves(p)
  BY <1>1 DEF AdmissionMoves, Pinned
<1>7. OwnerMoves(p)
  BY <1>1 DEF OwnerMoves, Owns
<1>8. CacheMoves(p)
  BY <1>1 DEF CacheMoves, catalogue, Changing
<1>9. RevisionMoves(p)
  BY <1>1 DEF RevisionMoves
<1> QED
  BY <1>2, <1>3, <1>4, <1>5, <1>6, <1>7, <1>8, <1>9 DEF Effect

LEMMA SelectWorkspaceEffect ==
    ASSUME TInv, NEW p \in Procs, NEW w \in Workspaces, SelectWorkspace(p, w)
    PROVE  Effect(p)
<1>1. /\ pc[p] = "idle" /\ (sel.cur[w] = None => Room) /\ Commit(Selected(w, None))
      /\ UNCHANGED <<native, catalogue, pc, loc, adm, stray, unseen>>
  BY DEF SelectWorkspace, Enter
<1>2. PICK i \in Intents, u \in Threads \cup {None} :
              /\ Selected(w, None) = [Point(sel, w, i, u) EXCEPT !.ws = w]
              /\ Intent(i) = NoIntent \/ Intent(i) = [ws |-> w, thread |-> u]
              /\ u # None => native[u].state # "absent"
  BY <1>1, SelectedFacts
<1>3. sel \in Selection
  BY DEF TInv, Types
<1> DEFINE s == Selected(w, None)
<1>4. /\ s \in Selection /\ s.intents = [sel.intents EXCEPT ![i] = [ws |-> w, thread |-> u]]
      /\ s.cur = [sel.cur EXCEPT ![w] = i]
  BY <1>2, <1>3, PointFacts
<1>a. Commit(s) /\ native' = native
  BY <1>1
<1> HIDE DEF s
<1>5. /\ sel' \in Selection /\ SelOK' /\ IntentMoves(p) /\ rev' \in Nat /\ moved' \in [Procs -> BOOLEAN]
      /\ (rev' = rev /\ \A q \in Procs : moved'[q] => moved[q]) \/ rev' = rev + 1
  BY <1>2, <1>4, <1>a, CommitMoves
<1> QED
  BY <1>1, <1>5, StoreOnly

LEMMA NewConversationEffect ==
    ASSUME TInv, NEW p \in Procs, NEW w \in Workspaces, NewConversation(p, w)
    PROVE  Effect(p)
<1> DEFINE s == [Point(sel, w, Fresh, None) EXCEPT !.ws = w]
<1>1. /\ pc[p] = "idle" /\ Room /\ Commit(s)
      /\ UNCHANGED <<native, catalogue, pc, loc, adm, stray, unseen>>
  BY DEF NewConversation, Enter
<1>2. sel \in Selection /\ Fresh \in Intents /\ Intent(Fresh) = NoIntent
  BY <1>1, FreshIntent DEF TInv, Types
<1>4. /\ s \in Selection /\ s.intents = [sel.intents EXCEPT ![Fresh] = [ws |-> w, thread |-> None]]
      /\ s.cur = [sel.cur EXCEPT ![w] = Fresh]
  BY <1>2, PointFacts
<1> HIDE DEF s
<1>5. /\ sel' \in Selection /\ SelOK' /\ IntentMoves(p) /\ rev' \in Nat /\ moved' \in [Procs -> BOOLEAN]
      /\ (rev' = rev /\ \A q \in Procs : moved'[q] => moved[q]) \/ rev' = rev + 1
  BY <1>1, <1>2, <1>4, CommitMoves
<1> QED
  BY <1>1, <1>5, StoreOnly

LEMMA RememberEffect ==
    ASSUME TInv, NEW p \in Procs, NEW t \in Threads, Remember(p, t)
    PROVE  Effect(p)
<1> DEFINE w == native[t].ws
           s == [sel EXCEPT !.intents[Fresh] = [ws |-> w, thread |-> t]]
<1>1. /\ pc[p] = "idle" /\ Room /\ Commit(s) /\ native[t].state \in Listed
      /\ UNCHANGED <<native, catalogue, pc, loc, adm, stray, unseen>>
  BY DEF Remember, Enter
<1>2. sel \in Selection /\ Fresh \in Intents /\ Intent(Fresh) = NoIntent
  BY <1>1, FreshIntent DEF TInv, Types
<1>3. w \in Workspaces /\ native[t].state # "absent"
  BY <1>1 DEF TInv, Types, SelOK, Listed
<1>4. /\ s \in Selection /\ s.intents = [sel.intents EXCEPT ![Fresh] = [ws |-> w, thread |-> t]]
      /\ s.cur = sel.cur
  BY <1>2, <1>3 DEF Selection
<1> HIDE DEF s
<1>5. /\ sel' \in Selection /\ SelOK' /\ IntentMoves(p) /\ rev' \in Nat /\ moved' \in [Procs -> BOOLEAN]
      /\ (rev' = rev /\ \A q \in Procs : moved'[q] => moved[q]) \/ rev' = rev + 1
  <2>1. Commit(s) /\ native' = native
    BY <1>1 DEF s
  <2>2. t \in Threads \cup {None} /\ (t # None => native[t].state # "absent")
    BY <1>3
  <2>3. PICK v \in Workspaces : v = w
    BY <1>3
  <2>4. s.intents = [sel.intents EXCEPT ![Fresh] = [ws |-> v, thread |-> t]] /\ s \in Selection /\ s.cur = sel.cur
    BY <1>4, <2>3
  <2> HIDE DEF w
  <2> QED
    BY <1>2, <2>1, <2>2, <2>4, CommitMoves
<1> QED
  BY <1>1, <1>5, StoreOnly

-----------------------------------------------------------------------------
(* Steps that change nothing but the state of the process *)

LEMMA Steps ==
    ASSUME TInv, NEW p \in Procs, NEW l \in Labels, NEW x \in Local, NEW a \in Admission,
           pc' = [pc EXCEPT ![p] = l],
           loc' = [loc EXCEPT ![p] = x] \/ (loc' = loc /\ x = loc[p]),
           adm' = [adm EXCEPT ![p] = a] \/ (adm' = adm /\ a = adm[p])
    PROVE  /\ pc' \in [Procs -> Labels] /\ loc' \in [Procs -> Local] /\ adm' \in [Procs -> Admission]
           /\ Others(p) /\ pc'[p] = l /\ loc'[p] = x /\ adm'[p] = a
<1>1. pc \in [Procs -> Labels] /\ loc \in [Procs -> Local] /\ adm \in [Procs -> Admission]
  BY DEF TInv, Types
<1> QED
  BY <1>1 DEF Others

\* A step that leaves the store, Codex and the cache alone.
LEMMA LocalOnly ==
    ASSUME TInv, NEW p \in Procs, UNCHANGED <<sel, rev, native, cache, catRev, unseen>>,
           stray' \subseteq Threads, moved' \in [Procs -> BOOLEAN],
           pc' \in [Procs -> Labels], loc' \in [Procs -> Local], adm' \in [Procs -> Admission],
           Mine(p), Others(p), AdmissionMoves(p), OwnerMoves(p), CacheMoves(p), RevisionMoves(p)
    PROVE  Effect(p)
<1>1. Types'
  BY DEF TInv, Types
<1>2. NativeMoves(p)
  BY NativeIdle
<1> QED
  BY <1>1, <1>2, SelectionKept DEF Effect

LEMMA SnapshotType ==
    ASSUME TInv
    PROVE  /\ Snapshot \in [id: Intents \cup {None}, ws: Workspaces \cup {None},
                            thread: Threads \cup {None}, rev: Nat]
           /\ Snapshot.rev = rev
<1>1. sel \in Selection /\ rev \in Nat
  BY DEF TInv, Types
<1> QED
  BY <1>1 DEF Snapshot, NoSelection, Selection

\* A caller that is idle has nothing in hand.
LEMMA IdleFacts ==
    ASSUME TInv, NEW p \in Procs, pc[p] = "idle"
    PROVE  /\ loc[p].kind = "none" /\ loc[p].thread = None /\ ~ Pinned(p)
           /\ \A t \in Threads : ~ Owns(p, t) /\ ~ Changing(p, t)
BY DEF TInv, ProcOK, KindOK, ThreadOK, Pinned, Owns, Changing

LEMMA CallerFacts ==
    ASSUME NEW p \in Procs, Enter(p)
    PROVE  p \notin Runners /\ pc[p] = "idle"
BY TargetAssumption DEF Enter

LEMMA BeginSelectEffect ==
    ASSUME TInv, NEW p \in Procs, NEW w \in Workspaces, NEW t \in Threads, BeginSelect(p, w, t)
    PROVE  Effect(p)
<1> DEFINE x == [NoLocal EXCEPT !.kind = "select", !.ws = w, !.thread = t, !.expected = Snapshot]
<1>1. x \in Local /\ x.kind = "select" /\ x.ws = w /\ x.thread = t /\ x.expected.rev = rev
  BY SnapshotType, ConstantTypes DEF Local
<1>2. /\ pc' = [pc EXCEPT ![p] = "use"] /\ loc' = [loc EXCEPT ![p] = x] /\ adm' = adm
      /\ moved' = [moved EXCEPT ![p] = FALSE]
      /\ UNCHANGED <<sel, rev, native, cache, catRev, stray, unseen>> /\ native[t].state # "absent"
  BY DEF BeginSelect, Goto, catalogue
<1> HIDE DEF x
<1>3. p \notin Runners /\ pc[p] = "idle" /\ adm[p] \in Admission
  BY CallerFacts, ProcFacts DEF BeginSelect, TInv
<1>4. /\ pc' \in [Procs -> Labels] /\ loc' \in [Procs -> Local] /\ adm' \in [Procs -> Admission]
      /\ Others(p) /\ pc'[p] = "use" /\ loc'[p] = x /\ adm'[p] = adm[p]
  <2>1. "use" \in Labels
    BY DEF Labels
  <2> QED
    BY <1>1, <1>2, <1>3, <2>1, Steps
<1>5. t # None
  BY TargetAssumption
<1>6. Mine(p)
  BY <1>1, <1>2, <1>3, <1>4, <1>5 DEF Mine, KindOK, ThreadOK, WorkOK, HoldOK, Working, Pinned
<1>7. AdmissionMoves(p)
  BY <1>1, <1>4 DEF AdmissionMoves, Pinned
<1>8. OwnerMoves(p) /\ CacheMoves(p)
  BY <1>1, <1>2, <1>3, <1>4, IdleFacts DEF OwnerMoves, CacheMoves
<1>9. RevisionMoves(p)
  <2>1. (\A q \in Procs : moved'[q] => moved[q]) /\ ~ moved'[p]
    BY <1>2 DEF TInv, Types
  <2> QED
    BY <1>1, <1>2, <1>4, <2>1 DEF RevisionMoves
<1>10. stray' \subseteq Threads /\ moved' \in [Procs -> BOOLEAN]
  BY <1>2 DEF TInv, Types
<1> QED
  BY <1>2, <1>4, <1>6, <1>7, <1>8, <1>9, <1>10, LocalOnly

LEMMA BeginCreateEffect ==
    ASSUME TInv, NEW p \in Procs, NEW w \in Workspaces, BeginCreate(p, w)
    PROVE  Effect(p)
<1> DEFINE x == [NoLocal EXCEPT !.kind = "create", !.ws = w, !.expected = Snapshot]
<1>1. x \in Local /\ x.kind = "create" /\ x.ws = w /\ x.thread = None /\ x.expected.rev = rev
  BY SnapshotType, ConstantTypes DEF Local
<1>2. /\ pc' = [pc EXCEPT ![p] = "start"] /\ loc' = [loc EXCEPT ![p] = x] /\ adm' = adm
      /\ moved' = [moved EXCEPT ![p] = FALSE]
      /\ UNCHANGED <<sel, rev, native, cache, catRev, stray, unseen>>
  BY DEF BeginCreate, Goto, catalogue
<1> HIDE DEF x
<1>3. p \notin Runners /\ pc[p] = "idle" /\ adm[p] \in Admission
  BY CallerFacts, ProcFacts DEF BeginCreate, TInv
<1>4. /\ pc' \in [Procs -> Labels] /\ loc' \in [Procs -> Local] /\ adm' \in [Procs -> Admission]
      /\ Others(p) /\ pc'[p] = "start" /\ loc'[p] = x /\ adm'[p] = adm[p]
  <2>1. "start" \in Labels
    BY DEF Labels
  <2> QED
    BY <1>1, <1>2, <1>3, <2>1, Steps
<1>6. Mine(p)
  BY <1>1, <1>2, <1>3, <1>4 DEF Mine, KindOK, ThreadOK, WorkOK, HoldOK, Working, Pinned
<1>7. AdmissionMoves(p)
  BY <1>1, <1>4 DEF AdmissionMoves, Pinned
<1>8. OwnerMoves(p) /\ CacheMoves(p)
  BY <1>1, <1>2, <1>3, <1>4, IdleFacts DEF OwnerMoves, CacheMoves
<1>9. RevisionMoves(p)
  <2>1. (\A q \in Procs : moved'[q] => moved[q]) /\ ~ moved'[p]
    BY <1>2 DEF TInv, Types
  <2> QED
    BY <1>1, <1>2, <1>4, <2>1 DEF RevisionMoves
<1>10. stray' \subseteq Threads /\ moved' \in [Procs -> BOOLEAN]
  BY <1>2 DEF TInv, Types
<1> QED
  BY <1>2, <1>4, <1>6, <1>7, <1>8, <1>9, <1>10, LocalOnly

\* The console's and the menu's other operations take no snapshot.
LEMMA BeginsPlain ==
    ASSUME TInv, NEW p \in Procs, Enter(p), NEW l \in Labels, NEW x \in Local, NEW a \in Admission,
           pc' = [pc EXCEPT ![p] = l], loc' = [loc EXCEPT ![p] = x],
           adm' = [adm EXCEPT ![p] = a] \/ (adm' = adm /\ a = adm[p]),
           UNCHANGED <<sel, rev, moved, native, cache, catRev, stray, unseen>>,
           \/ /\ l = "trust" /\ x.kind = "rename" /\ adm' = adm
              /\ x.thread \in Threads /\ native[x.thread].state # "absent"
           \/ /\ l = "trust" /\ x.kind = "archive"
              /\ x.thread \in Threads /\ native[x.thread].state # "absent"
              /\ a = [held |-> TRUE, target |-> None, thread |-> x.thread]
              /\ \A q \in Procs : Pinned(q) => loc[q].thread # x.thread
           \/ l = "scan" /\ x.kind = "list" /\ x.at = catRev /\ x.thread = None /\ adm' = adm
    PROVE  Effect(p)
<1>3. p \notin Runners /\ pc[p] = "idle" /\ None \notin Threads
  BY CallerFacts, TargetAssumption
<1>4. /\ pc' \in [Procs -> Labels] /\ loc' \in [Procs -> Local] /\ adm' \in [Procs -> Admission]
      /\ Others(p) /\ pc'[p] = l /\ loc'[p] = x /\ adm'[p] = a
  BY Steps
<1>6. Mine(p)
  BY <1>3, <1>4 DEF Mine, KindOK, ThreadOK, WorkOK, HoldOK, Working, Pinned
<1>7. AdmissionMoves(p)
  BY <1>4 DEF AdmissionMoves, Pinned
<1>8. OwnerMoves(p) /\ CacheMoves(p)
  BY <1>3, <1>4, IdleFacts DEF OwnerMoves, CacheMoves
<1>9. RevisionMoves(p)
  BY <1>4 DEF RevisionMoves
<1>10. stray' \subseteq Threads /\ moved' \in [Procs -> BOOLEAN]
  BY DEF TInv, Types
<1> QED
  BY <1>4, <1>6, <1>7, <1>8, <1>9, <1>10, LocalOnly

\* A request that was admitted with its thread makes the thread busy.
LEMMA PinnedIsBusy ==
    ASSUME TInv, NEW q \in Procs, Pinned(q)
    PROVE  /\ adm[q].held /\ adm[q].thread = loc[q].thread /\ loc[q].thread \in Threads
           /\ Busy(None, loc[q].thread)
<1>1. Working(q) /\ pc[q] # "begin"
  BY DEF TInv, ProcOK, KindOK, Pinned, Working
<1>2. loc[q].thread # None
  BY <1>1 DEF TInv, ProcOK, KindOK, ThreadOK, Pinned, Working
<1>3. adm[q].held /\ adm[q].thread = loc[q].thread
  BY <1>1 DEF TInv, ProcOK, HoldOK
<1>4. loc[q].thread \in Threads
  BY <1>2, ProcFacts DEF TInv
<1> QED
  BY <1>2, <1>3, <1>4 DEF Busy

LEMMA BeginArchiveEffect ==
    ASSUME TInv, NEW p \in Procs, NEW t \in Threads, BeginArchive(p, t)
    PROVE  Effect(p)
<1> DEFINE x == [NoLocal EXCEPT !.kind = "archive", !.thread = t]
           a == [held |-> TRUE, target |-> None, thread |-> t]
<1>1. x \in Local /\ x.kind = "archive" /\ x.thread = t /\ a \in Admission /\ "trust" \in Labels
  BY ConstantTypes DEF Local, Admission, Labels
<1>2. /\ pc' = [pc EXCEPT ![p] = "trust"] /\ loc' = [loc EXCEPT ![p] = x] /\ adm' = [adm EXCEPT ![p] = a]
      /\ UNCHANGED <<sel, rev, moved, native, cache, catRev, stray, unseen>>
      /\ Enter(p) /\ native[t].state # "absent" /\ ~ Busy(None, t)
  BY DEF BeginArchive, Goto, catalogue, store
<1> HIDE DEF x
<1>3. \A q \in Procs : Pinned(q) => loc[q].thread # t
  BY <1>2, PinnedIsBusy
<1>4. a = [held |-> TRUE, target |-> None, thread |-> x.thread]
  BY <1>1
<1> HIDE DEF a
<1> QED
  BY <1>1, <1>2, <1>3, <1>4, BeginsPlain

LEMMA BeginRenameEffect ==
    ASSUME TInv, NEW p \in Procs, NEW t \in Threads, BeginRename(p, t)
    PROVE  Effect(p)
<1> DEFINE x == [NoLocal EXCEPT !.kind = "rename", !.thread = t]
<1>1. x \in Local /\ x.kind = "rename" /\ x.thread = t /\ "trust" \in Labels
  BY ConstantTypes DEF Local, Labels
<1>2. /\ pc' = [pc EXCEPT ![p] = "trust"] /\ loc' = [loc EXCEPT ![p] = x] /\ adm' = adm
      /\ UNCHANGED <<sel, rev, moved, native, cache, catRev, stray, unseen>>
      /\ Enter(p) /\ native[t].state # "absent"
  BY DEF BeginRename, Goto, catalogue, store
<1> HIDE DEF x
<1>3. adm[p] \in Admission
  BY ProcFacts DEF TInv
<1> QED
  BY <1>1, <1>2, <1>3, BeginsPlain

LEMMA BeginListEffect ==
    ASSUME TInv, NEW p \in Procs, BeginList(p)
    PROVE  Effect(p)
<1> DEFINE x == [NoLocal EXCEPT !.kind = "list", !.at = catRev]
<1>1. x \in Local /\ x.kind = "list" /\ x.at = catRev /\ x.thread = None /\ "scan" \in Labels
  BY ConstantTypes DEF Local, Labels, TInv, Types
<1>2. /\ pc' = [pc EXCEPT ![p] = "scan"] /\ loc' = [loc EXCEPT ![p] = x] /\ adm' = adm
      /\ UNCHANGED <<sel, rev, moved, native, cache, catRev, stray, unseen>>
      /\ Enter(p)
  BY DEF BeginList, Goto, catalogue, store
<1> HIDE DEF x
<1>3. adm[p] \in Admission
  BY ProcFacts DEF TInv
<1> QED
  BY <1>1, <1>2, <1>3, BeginsPlain

-----------------------------------------------------------------------------
(* An operation ends, or goes on with what it has *)

\* It ends: what it was making must be taken care of.
LEMMA EndsOnly ==
    ASSUME TInv, NEW p \in Procs, End(p), adm' = adm \/ Release(p),
           UNCHANGED <<sel, rev, moved, native, cache, catRev, unseen>>,
           stray \subseteq stray', stray' \subseteq Threads,
           pc[p] \notin {"name", "forget"},
           \A t \in Threads : Owns(p, t) => t \in stray' \/ \E i \in Intents : Intent(i).thread = t
    PROVE  Effect(p)
<1>1. /\ pc' \in [Procs -> Labels] /\ loc' \in [Procs -> Local] /\ adm' \in [Procs -> Admission]
      /\ pc'[p] = "idle" /\ loc'[p].kind = "none"
      /\ Mine(p) /\ Others(p) /\ AdmissionMoves(p)
  BY Ends
<1>2. \A i \in Intents : Intent(i)' = Intent(i)
  BY DEF Intent
<1>3. OwnerMoves(p)
  BY <1>2 DEF OwnerMoves
<1>4. CacheMoves(p)
  BY <1>1 DEF CacheMoves, Changing
<1>5. RevisionMoves(p)
  BY <1>1 DEF RevisionMoves
<1>6. moved' \in [Procs -> BOOLEAN]
  BY DEF TInv, Types
<1> QED
  BY <1>1, <1>3, <1>4, <1>5, <1>6, LocalOnly

\* It goes on, with the same thread, intent and admission.
LEMMA GoesOn ==
    ASSUME TInv, NEW p \in Procs, NEW l \in Labels, pc' = [pc EXCEPT ![p] = l], loc' = loc, adm' = adm,
           UNCHANGED <<sel, rev, moved, native, cache, catRev, stray, unseen>>,
           loc[p].kind # "list", Mine(p), Pinned(p)' => Pinned(p),
           \A t \in Threads : /\ Owns(p, t) => Owns(p, t)'
                              /\ Changing(p, t) => Changing(p, t)'
    PROVE  Effect(p)
<1>1. loc[p] \in Local /\ adm[p] \in Admission
  BY ProcFacts DEF TInv
<1>2. /\ pc' \in [Procs -> Labels] /\ loc' \in [Procs -> Local] /\ adm' \in [Procs -> Admission]
      /\ Others(p)
  BY <1>1, Steps
<1>3. AdmissionMoves(p)
  BY DEF AdmissionMoves
<1>4. OwnerMoves(p) /\ CacheMoves(p)
  BY DEF OwnerMoves, CacheMoves
<1>5. RevisionMoves(p)
  BY DEF RevisionMoves
<1>6. stray' \subseteq Threads /\ moved' \in [Procs -> BOOLEAN]
  BY DEF TInv, Types
<1> QED
  BY <1>2, <1>3, <1>4, <1>5, <1>6, LocalOnly

LEMMA UseGlobalThreadEffect ==
    ASSUME TInv, NEW p \in Procs, UseGlobalThread(p)
    PROVE  Effect(p)
<1>1. /\ pc[p] = "use" /\ UNCHANGED <<sel, rev, moved, native, cache, catRev, stray, unseen>>
      /\ adm' = adm /\ (End(p) \/ (pc' = [pc EXCEPT ![p] = "commit"] /\ loc' = loc))
  BY DEF UseGlobalThread, Goto, store, catalogue
<1>2. loc[p].kind = "select" /\ p \notin Runners /\ ThreadOK(p) /\ stray \subseteq Threads
  BY <1>1 DEF TInv, Types, ProcOK, KindOK, Working
<1>3. CASE End(p)
  BY <1>1, <1>2, <1>3, EndsOnly DEF Owns
<1>4. CASE pc' = [pc EXCEPT ![p] = "commit"] /\ loc' = loc
  <2>1. pc'[p] = "commit" /\ "commit" \in Labels
    BY <1>4 DEF TInv, Types, Labels
  <2>2. Mine(p)
    BY <1>1, <1>2, <1>4, <2>1 DEF Mine, KindOK, ThreadOK, WorkOK, HoldOK, Working, Pinned
  <2>3. ~ Pinned(p)' /\ \A t \in Threads : ~ Owns(p, t) /\ ~ Changing(p, t)
    BY <1>1, <1>2, <1>4, <2>1 DEF Pinned, Owns, Changing
  <2> QED
    BY <1>1, <1>2, <1>4, <2>1, <2>2, <2>3, GoesOn
<1> QED
  BY <1>1, <1>3, <1>4

LEMMA StartFailsEffect ==
    ASSUME TInv, NEW p \in Procs, StartFails(p)
    PROVE  Effect(p)
<1>1. /\ pc[p] = "start" /\ UNCHANGED <<sel, rev, moved, native, cache, catRev, stray, unseen>>
      /\ End(p) /\ Release(p)
  BY DEF StartFails, Fails, store, catalogue
<1>2. stray \subseteq Threads
  BY DEF TInv, Types
<1> QED
  BY <1>1, <1>2, EndsOnly DEF Owns

LEMMA TrustedEffect ==
    ASSUME TInv, NEW p \in Procs, Trusted(p)
    PROVE  Effect(p)
<1>1. /\ pc[p] = "trust" /\ UNCHANGED <<sel, rev, moved, native, cache, catRev, stray, unseen>>
      /\ \/ End(p) /\ Release(p)
         \/ pc' = [pc EXCEPT ![p] = loc[p].kind] /\ loc' = loc /\ adm' = adm
  BY DEF Trusted, Fails, Goto, store, catalogue
<1>2. /\ loc[p].kind \in {"archive", "rename"} /\ p \notin Runners /\ ThreadOK(p) /\ HoldOK(p)
      /\ stray \subseteq Threads
  BY <1>1 DEF TInv, Types, ProcOK, KindOK, Working
<1>3. CASE End(p) /\ Release(p)
  BY <1>1, <1>2, <1>3, EndsOnly DEF Owns
<1>4. CASE pc' = [pc EXCEPT ![p] = loc[p].kind] /\ loc' = loc /\ adm' = adm
  <2>1. pc'[p] = loc[p].kind /\ loc[p].kind \in Labels
    BY <1>2, <1>4 DEF TInv, Types, Labels
  <2>2. Mine(p)
    BY <1>1, <1>2, <1>4, <2>1 DEF Mine, KindOK, ThreadOK, WorkOK, HoldOK, Working, Pinned
  <2>3. ~ Pinned(p)' /\ \A t \in Threads : ~ Owns(p, t) /\ ~ Changing(p, t)
    BY <1>1, <1>2, <1>4, <2>1 DEF Pinned, Owns, Changing
  <2> QED
    BY <1>1, <1>2, <1>4, <2>1, <2>2, <2>3, GoesOn
<1> QED
  BY <1>1, <1>3, <1>4

LEMMA ScanEffect ==
    ASSUME TInv, NEW p \in Procs, Scan(p)
    PROVE  Effect(p)
<1> DEFINE x == [loc[p] EXCEPT !.scan = [t \in Threads |-> View(t)]]
<1>1. /\ pc[p] = "scan" /\ UNCHANGED <<sel, rev, moved, native, cache, catRev, stray, unseen>>
      /\ adm' = adm /\ (End(p) \/ (pc' = [pc EXCEPT ![p] = "fill"] /\ loc' = [loc EXCEPT ![p] = x]))
  BY DEF Scan, Goto, store, catalogue, View
<1>2. /\ loc[p].kind = "list" /\ p \notin Runners /\ ThreadOK(p) /\ stray \subseteq Threads
      /\ loc[p] \in Local /\ adm[p] \in Admission
  BY <1>1, ProcFacts DEF TInv, Types, ProcOK, KindOK, Working
<1>3. CASE End(p)
  BY <1>1, <1>2, <1>3, EndsOnly DEF Owns
<1>4. CASE pc' = [pc EXCEPT ![p] = "fill"] /\ loc' = [loc EXCEPT ![p] = x]
  <2>1. \A t \in Threads : View(t) \in States
    BY DEF View, TInv, Types, States
  <2>2. /\ x \in Local /\ x.kind = "list" /\ x.thread = loc[p].thread /\ x.at = loc[p].at
        /\ x.scan = [t \in Threads |-> View(t)] /\ "fill" \in Labels
    BY <1>2, <2>1 DEF Local, Labels
  <2> HIDE DEF x
  <2>3. /\ pc' \in [Procs -> Labels] /\ loc' \in [Procs -> Local] /\ adm' \in [Procs -> Admission]
        /\ Others(p) /\ pc'[p] = "fill" /\ loc'[p] = x
    BY <1>1, <1>2, <1>4, <2>2, Steps
  <2>4. Mine(p)
    BY <1>1, <1>2, <2>2, <2>3 DEF Mine, KindOK, ThreadOK, WorkOK, HoldOK, Working, Pinned
  <2>5. AdmissionMoves(p)
    BY <1>1, <2>2, <2>3 DEF AdmissionMoves, Pinned
  <2>6. OwnerMoves(p)
    BY <1>1, <1>2 DEF OwnerMoves, Owns
  <2>7. CacheMoves(p)
    BY <1>1, <1>2, <2>2, <2>3 DEF CacheMoves, Changing
  <2>8. RevisionMoves(p)
    BY <1>1, <2>2, <2>3 DEF RevisionMoves
  <2>9. stray' \subseteq Threads /\ moved' \in [Procs -> BOOLEAN]
    BY <1>1 DEF TInv, Types
  <2> QED
    BY <1>1, <2>3, <2>4, <2>5, <2>6, <2>7, <2>8, <2>9, LocalOnly
<1> QED
  BY <1>1, <1>3, <1>4

LEMMA FillEffect ==
    ASSUME TInv, NEW p \in Procs, Fill(p)
    PROVE  Effect(p)
<1>1. /\ pc[p] = "fill" /\ UNCHANGED <<sel, rev, moved, native, catRev, stray, unseen>>
      /\ adm' = adm /\ End(p) /\ cache' = IF loc[p].at = catRev THEN loc[p].scan ELSE cache
  BY DEF Fill, store
<1>2. loc[p].kind = "list" /\ loc[p] \in Local /\ Types
  BY <1>1, ProcFacts DEF TInv, ProcOK, KindOK, Working
<1>3. /\ pc' \in [Procs -> Labels] /\ loc' \in [Procs -> Local] /\ adm' \in [Procs -> Admission]
      /\ pc'[p] = "idle" /\ loc'[p].kind = "none"
      /\ Mine(p) /\ Others(p) /\ AdmissionMoves(p)
  BY <1>1, Ends
<1>4. cache' = None \/ cache' \in [Threads -> States]
  BY <1>1, <1>2 DEF Types, Local
<1>5. Types'
  BY <1>1, <1>2, <1>3, <1>4 DEF Types
<1>6. NativeMoves(p)
  BY <1>1, NativeIdle
<1>7. OwnerMoves(p) /\ RevisionMoves(p)
  BY <1>1, <1>2, <1>3 DEF OwnerMoves, Owns, RevisionMoves
<1>8. CacheMoves(p)
  BY <1>1, <1>2, <1>3 DEF CacheMoves, Changing
<1> QED
  BY <1>1, <1>3, <1>5, <1>6, <1>7, <1>8, SelectionKept DEF Effect

LEMMA FinishEffect ==
    ASSUME TInv, NEW p \in Procs, Finish(p)
    PROVE  Effect(p)
<1>1. /\ pc[p] = "turn" /\ UNCHANGED <<sel, rev, moved, native, cache, catRev, stray, unseen>>
      /\ End(p) /\ Release(p)
  BY DEF Finish, Fails, store, catalogue
<1>2. stray \subseteq Threads
  BY DEF TInv, Types
<1> QED
  BY <1>1, <1>2, EndsOnly DEF Owns

-----------------------------------------------------------------------------
(* A request: admission, opening, attaching *)

\* What a request that is under way has in hand.
LEMMA WorkFacts ==
    ASSUME TInv, NEW p \in Procs, Working(p)
    PROVE  /\ p \in Runners /\ loc[p].intent \in Intents /\ loc[p].intent # None
           /\ loc[p].ws \in Workspaces /\ loc[p].ws # None /\ Intent(loc[p].intent).ws = loc[p].ws
           /\ KindOK(p) /\ ThreadOK(p) /\ WorkOK(p) /\ HoldOK(p)
           /\ loc[p] \in Local /\ adm[p] \in Admission /\ loc[p].thread \in Threads \cup {None}
<1>1. KindOK(p) /\ ThreadOK(p) /\ WorkOK(p) /\ HoldOK(p)
  BY DEF TInv, ProcOK
<1>2. pc[p] # "idle"
  BY <1>1 DEF KindOK, Working
<1>3. loc[p] \in Local /\ adm[p] \in Admission /\ loc[p].thread \in Threads \cup {None}
      /\ loc[p].intent \in Intents \cup {None}
  BY ProcFacts DEF TInv
<1>4. p \in Runners
  BY <1>1, <1>2 DEF KindOK
<1>5. loc[p].ws \in Workspaces /\ loc[p].intent # None /\ Intent(loc[p].intent).ws = loc[p].ws
  BY <1>1 DEF ThreadOK, WorkOK
<1> QED
  BY <1>1, <1>3, <1>4, <1>5, TargetAssumption

LEMMA BeginEffect ==
    ASSUME TInv, NEW p \in Procs, Begin(p)
    PROVE  Effect(p)
<1> DEFINE a == [held |-> TRUE, target |-> loc[p].intent, thread |-> loc[p].thread]
<1>1. /\ pc[p] = "begin" /\ UNCHANGED <<sel, rev, moved, native, cache, catRev, stray, unseen>>
      /\ \/ End(p) /\ adm' = adm
         \/ /\ ~ Busy(loc[p].intent, loc[p].thread)
            /\ pc' = [pc EXCEPT ![p] = "open"] /\ loc' = loc /\ adm' = [adm EXCEPT ![p] = a]
  BY DEF Begin, Goto, store, catalogue
<1>2. loc[p].kind = "work" /\ Working(p) /\ stray \subseteq Threads
  BY <1>1 DEF TInv, Types, ProcOK, KindOK, Working
<1>3. CASE End(p) /\ adm' = adm
  BY <1>1, <1>2, <1>3, EndsOnly DEF Owns
<1>4. CASE /\ ~ Busy(loc[p].intent, loc[p].thread)
           /\ pc' = [pc EXCEPT ![p] = "open"] /\ loc' = loc /\ adm' = [adm EXCEPT ![p] = a]
  <2>1. /\ p \in Runners /\ loc[p].intent \in Intents /\ loc[p].intent # None
        /\ ThreadOK(p) /\ WorkOK(p)
        /\ loc[p] \in Local /\ adm[p] \in Admission /\ loc[p].thread \in Threads \cup {None}
    BY <1>2, WorkFacts
  <2>2. a \in Admission /\ "open" \in Labels
    BY <2>1 DEF Admission, Labels
  <2>3. a.held /\ a.target = loc[p].intent /\ a.thread = loc[p].thread
    OBVIOUS
  <2> HIDE DEF a
  <2>4. /\ pc' \in [Procs -> Labels] /\ loc' \in [Procs -> Local] /\ adm' \in [Procs -> Admission]
        /\ Others(p) /\ pc'[p] = "open" /\ loc'[p] = loc[p] /\ adm'[p] = a
    BY <1>4, <2>1, <2>2, Steps
  <2>5. KindOK(p)' /\ ThreadOK(p)' /\ HoldOK(p)'
    BY <1>1, <1>2, <2>1, <2>3, <2>4 DEF KindOK, ThreadOK, HoldOK, Working, Pinned
  <2>6. WorkOK(p)'
    BY <1>1, <1>2, <2>1, <2>4 DEF WorkOK, Working, Intent
  <2>7. \A q \in Procs : adm[q].held => adm[q].target # loc[p].intent
    BY <1>4, <2>1 DEF Busy
  <2>8. ASSUME loc[p].thread # None, NEW q \in Procs, loc[q].kind = "archive"
        PROVE  loc[q].thread # loc[p].thread
    <3>1. adm[q] = [held |-> TRUE, target |-> None, thread |-> loc[q].thread]
      BY <2>8 DEF TInv, ProcOK, HoldOK
    <3> QED
      BY <1>4, <2>8, <3>1 DEF Busy
  <2>9. AdmissionMoves(p)
    BY <1>2, <2>3, <2>4, <2>7, <2>8 DEF AdmissionMoves, Pinned
  <2>10. OwnerMoves(p) /\ RevisionMoves(p)
    BY <1>1, <1>2, <2>4 DEF OwnerMoves, Owns, RevisionMoves
  <2>11. CacheMoves(p)
    BY <1>1, <1>2, <2>4 DEF CacheMoves, Changing
  <2>12. stray' \subseteq Threads /\ moved' \in [Procs -> BOOLEAN]
    BY <1>1 DEF TInv, Types
  <2> QED
    BY <1>1, <2>4, <2>5, <2>6, <2>9, <2>10, <2>11, <2>12, LocalOnly DEF Mine
<1> QED
  BY <1>1, <1>3, <1>4

LEMMA OpenEffect ==
    ASSUME TInv, NEW p \in Procs, Open(p)
    PROVE  Effect(p)
<1> DEFINE t == IF loc[p].thread # None THEN loc[p].thread ELSE sel.intents[loc[p].intent].thread
           x == [loc[p] EXCEPT !.thread = t, !.kind = IF loc[p].thread # None THEN "resume" ELSE "late"]
<1>1. pc[p] = "open" /\ UNCHANGED <<sel, rev, moved, native, cache, catRev, stray, unseen>>
  BY DEF Open, store, catalogue
<1>2. loc[p].kind = "work" /\ Working(p) /\ stray \subseteq Threads
  BY <1>1 DEF TInv, Types, ProcOK, KindOK, Working
<1>3. /\ p \in Runners /\ loc[p].intent \in Intents /\ loc[p].ws \in Workspaces
      /\ ThreadOK(p) /\ WorkOK(p) /\ HoldOK(p)
      /\ loc[p] \in Local /\ adm[p] \in Admission /\ loc[p].thread \in Threads \cup {None}
  BY <1>2, WorkFacts
<1>4. /\ t = Intent(loc[p].intent).thread /\ t \in Threads \cup {None}
  BY <1>1, <1>2, <1>3 DEF WorkOK, Intent, TInv, Types, Selection
<1>5. CASE End(p) /\ Release(p)
  BY <1>1, <1>2, <1>5, EndsOnly DEF Owns
<1>6. CASE t = None /\ pc' = [pc EXCEPT ![p] = "start"] /\ loc' = loc /\ adm' = adm
  <2>1. pc'[p] = "start" /\ "start" \in Labels /\ loc[p].thread = None
    BY <1>6 DEF TInv, Types, Labels
  <2>2. KindOK(p)' /\ ThreadOK(p)' /\ HoldOK(p)'
    BY <1>1, <1>2, <1>3, <1>6, <2>1 DEF KindOK, ThreadOK, HoldOK, Working, Pinned
  <2>3. WorkOK(p)'
    BY <1>1, <1>2, <1>3, <1>4, <1>6, <2>1 DEF WorkOK, Working, Intent
  <2>4. ~ Pinned(p)' /\ \A u \in Threads : ~ Owns(p, u) /\ ~ Changing(p, u)
    BY <1>1, <1>2, <1>6, <2>1 DEF Pinned, Owns, Changing
  <2> QED
    BY <1>1, <1>2, <1>6, <2>1, <2>2, <2>3, <2>4, GoesOn DEF Mine
<1>7. CASE /\ t # None /\ Available(t, loc[p].ws)
           /\ pc' = [pc EXCEPT ![p] = "resume"] /\ loc' = [loc EXCEPT ![p] = x] /\ adm' = adm
  <2>1. /\ x \in Local /\ x.thread = t /\ x.ws = loc[p].ws /\ x.intent = loc[p].intent
        /\ x.kind = (IF loc[p].thread # None THEN "resume" ELSE "late") /\ "resume" \in Labels
    BY <1>3, <1>4 DEF Local, Labels
  <2>2. /\ t \in Threads /\ native[t].state \in Listed /\ native[t].ws = loc[p].ws
        /\ loc[p].thread # None => t = loc[p].thread
    BY <1>4, <1>7 DEF Available
  <2> HIDE DEF x, t
  <2>3. /\ pc' \in [Procs -> Labels] /\ loc' \in [Procs -> Local] /\ adm' \in [Procs -> Admission]
        /\ Others(p) /\ pc'[p] = "resume" /\ loc'[p] = x /\ adm'[p] = adm[p]
    BY <1>3, <1>7, <2>1, Steps
  <2>4. KindOK(p)'
    BY <1>3, <2>1, <2>3 DEF KindOK, Working
  <2>5. ThreadOK(p)'
    BY <1>1, <1>3, <1>7, <2>1, <2>2, <2>3 DEF ThreadOK, Working, Listed
  <2>6. WorkOK(p)'
    <3>1. WorkOK(p) /\ Intent(loc[p].intent).ws = loc[p].ws /\ loc[p].intent # None
      BY <1>2, WorkFacts
    <3> QED
      BY <1>1, <1>4, <2>1, <2>2, <2>3, <3>1 DEF WorkOK, Working, Intent
  <2>7. HoldOK(p)'
    BY <1>1, <1>2, <1>3, <2>1, <2>2, <2>3 DEF HoldOK, Working, Pinned, Listed
  <2>8. AdmissionMoves(p)
    BY <1>1, <1>2, <1>7, <2>1, <2>2, <2>3 DEF AdmissionMoves, Pinned
  <2>9. OwnerMoves(p) /\ RevisionMoves(p)
    BY <1>1, <1>2, <2>1, <2>3 DEF OwnerMoves, Owns, RevisionMoves
  <2>10. CacheMoves(p)
    BY <1>1, <1>2, <2>1, <2>3 DEF CacheMoves, Changing
  <2>11. stray' \subseteq Threads /\ moved' \in [Procs -> BOOLEAN]
    BY <1>1 DEF TInv, Types
  <2> QED
    BY <1>1, <2>3, <2>4, <2>5, <2>6, <2>7, <2>8, <2>9, <2>10, <2>11, LocalOnly DEF Mine
<1>8. loc \in [Procs -> Local]
  BY DEF TInv, Types
<1> QED
  BY <1>5, <1>6, <1>7, <1>8 DEF Open, Fails, Goto

LEMMA AttachEffect ==
    ASSUME TInv, NEW p \in Procs, Attach(p)
    PROVE  Effect(p)
<1> DEFINE a == [adm[p] EXCEPT !.thread = loc[p].thread]
<1>1. /\ pc[p] = "attach" /\ UNCHANGED <<sel, rev, moved, native, cache, catRev, stray, unseen>>
      /\ \/ End(p) /\ Release(p)
         \/ pc' = [pc EXCEPT ![p] = "turn"] /\ loc' = loc /\ adm' = [adm EXCEPT ![p] = a]
  BY DEF Attach, Fails, Goto, store, catalogue
<1>2. loc[p].kind = "work" /\ Working(p) /\ stray \subseteq Threads
  BY <1>1 DEF TInv, Types, ProcOK, KindOK, Working
<1>3. CASE End(p) /\ Release(p)
  BY <1>1, <1>2, <1>3, EndsOnly DEF Owns
<1>4. CASE pc' = [pc EXCEPT ![p] = "turn"] /\ loc' = loc /\ adm' = [adm EXCEPT ![p] = a]
  <2>1. /\ p \in Runners /\ ThreadOK(p) /\ WorkOK(p) /\ HoldOK(p)
        /\ loc[p] \in Local /\ adm[p] \in Admission /\ loc[p].thread \in Threads \cup {None}
    BY <1>2, WorkFacts
  <2>2. a \in Admission /\ a.held = adm[p].held /\ a.target = adm[p].target /\ "turn" \in Labels
    BY <2>1 DEF Admission, Labels
  <2> HIDE DEF a
  <2>3. /\ pc' \in [Procs -> Labels] /\ loc' \in [Procs -> Local] /\ adm' \in [Procs -> Admission]
        /\ Others(p) /\ pc'[p] = "turn" /\ loc'[p] = loc[p] /\ adm'[p] = a
    BY <1>4, <2>1, <2>2, Steps
  <2>4. KindOK(p)' /\ ThreadOK(p)' /\ HoldOK(p)'
    BY <1>1, <1>2, <2>1, <2>2, <2>3 DEF KindOK, ThreadOK, HoldOK, Working, Pinned
  <2>5. WorkOK(p)'
    BY <1>1, <1>2, <2>1, <2>3 DEF WorkOK, Working, Intent
  <2>6. AdmissionMoves(p)
    BY <1>2, <2>2, <2>3 DEF AdmissionMoves, Pinned
  <2>7. OwnerMoves(p) /\ RevisionMoves(p)
    BY <1>1, <1>2, <2>3 DEF OwnerMoves, Owns, RevisionMoves
  <2>8. CacheMoves(p)
    BY <1>1, <1>2, <2>3 DEF CacheMoves, Changing
  <2>9. stray' \subseteq Threads /\ moved' \in [Procs -> BOOLEAN]
    BY <1>1 DEF TInv, Types
  <2> QED
    BY <1>1, <2>3, <2>4, <2>5, <2>6, <2>7, <2>8, <2>9, LocalOnly DEF Mine
<1> QED
  BY <1>1, <1>3, <1>4

\* Capture takes the current intent of the current workspace, made if need be.
LEMMA CaptureEffect ==
    ASSUME TInv, NEW p \in Procs, Capture(p)
    PROVE  Effect(p)
<1> DEFINE i == sel.cur[sel.ws]
           g == IF i # None THEN i ELSE Fresh
           w == sel.ws
           s == Point(sel, w, Fresh, None)
           x == [NoLocal EXCEPT !.kind = "work", !.ws = w, !.intent = g, !.thread = sel.intents[g].thread]
<1>1. /\ p \in Runners /\ pc[p] = "idle" /\ UNCHANGED <<native, cache, catRev, adm, stray, unseen>>
      /\ (i # None /\ UNCHANGED <<sel, rev, moved>>) \/ (i = None /\ Room /\ Commit(s))
      /\ pc' = [pc EXCEPT ![p] = "begin"] /\ loc' = [loc EXCEPT ![p] = x]
  BY DEF Capture, Goto, store, catalogue
<1>2. /\ sel \in Selection /\ SelOK /\ w \in Workspaces /\ adm[p] \in Admission
      /\ i \in Intents \cup {None} /\ None \notin Workspaces /\ None \notin Intents
  BY ProcFacts, TargetAssumption DEF TInv, Types, Selection
<1>3. /\ g \in Intents /\ (i # None => Intent(g).ws = w) /\ (i = None => Intent(g) = NoIntent)
  BY <1>1, <1>2, FreshIntent DEF SelOK
<1>4. /\ sel' \in Selection /\ SelOK' /\ IntentMoves(p) /\ rev' \in Nat /\ moved' \in [Procs -> BOOLEAN]
      /\ (rev' = rev /\ \A q \in Procs : moved'[q] => moved[q]) \/ rev' = rev + 1
      /\ Intent(g).thread # None => sel'.intents[g].thread = Intent(g).thread
      /\ sel'.intents[g].ws = w
  <2>1. CASE i # None /\ UNCHANGED <<sel, rev, moved>>
    <3>1. NativeMoves(p)
      BY <1>1, NativeIdle
    <3>2. sel' \in Selection /\ SelOK' /\ IntentMoves(p)
      BY <2>1, <3>1, SelectionKept
    <3>3. rev' \in Nat /\ moved' \in [Procs -> BOOLEAN]
      BY <2>1 DEF TInv, Types
    <3> QED
      BY <1>3, <2>1, <3>2, <3>3 DEF Intent
  <2>2. CASE i = None /\ Room /\ Commit(s)
    <3>1. g = Fresh
      BY <2>2
    <3>2. /\ s \in Selection /\ s.intents = [sel.intents EXCEPT ![g] = [ws |-> w, thread |-> None]]
          /\ s.cur = [sel.cur EXCEPT ![w] = g]
      <4>1. sel.ws \in Workspaces /\ Room
        BY <1>2, <2>2
      <4>3. /\ s \in Selection /\ s.intents = [sel.intents EXCEPT ![Fresh] = [ws |-> w, thread |-> None]]
            /\ s.cur = [sel.cur EXCEPT ![w] = Fresh]
        BY <4>1, FreshPoint
      <4> HIDE DEF g, s
      <4> QED
        BY <3>1, <4>3
    <3>3. Commit(s) /\ native' = native /\ Intent(g) = NoIntent
      BY <1>1, <1>3, <2>2
    <3> HIDE DEF s
    <3>4. /\ sel' \in Selection /\ SelOK' /\ IntentMoves(p) /\ rev' \in Nat /\ moved' \in [Procs -> BOOLEAN]
          /\ (rev' = rev /\ \A q \in Procs : moved'[q] => moved[q]) \/ rev' = rev + 1
          /\ sel'.intents = s.intents
      <4> HIDE DEF g, w
      <4> QED
        BY <1>2, <1>3, <3>2, <3>3, CommitMoves
    <3>5. sel'.intents[g] = [ws |-> w, thread |-> None]
      BY <1>2, <1>3, <3>2, <3>4 DEF Selection
    <3> QED
      BY <3>3, <3>4, <3>5 DEF NoIntent
  <2> QED
    BY <1>1, <2>1, <2>2
<1>5. /\ x \in Local /\ x.kind = "work" /\ x.ws = w /\ x.intent = g /\ x.thread = Intent(g).thread
      /\ "begin" \in Labels
  BY <1>2, <1>3, ConstantTypes DEF Local, Labels, Intent, Selection
<1>6. x.thread # None => native[x.thread].state # "absent"
  BY <1>2, <1>3, <1>5 DEF SelOK
<1> HIDE DEF x, g, w, s, i
<1>7. /\ pc' \in [Procs -> Labels] /\ loc' \in [Procs -> Local] /\ adm' \in [Procs -> Admission]
      /\ Others(p) /\ pc'[p] = "begin" /\ loc'[p] = x /\ adm'[p] = adm[p]
  BY <1>1, <1>2, <1>5, Steps
<1>8. KindOK(p)' /\ ThreadOK(p)' /\ HoldOK(p)'
  BY <1>1, <1>2, <1>5, <1>6, <1>7 DEF KindOK, ThreadOK, HoldOK, Working, Pinned
<1>9. WorkOK(p)'
  BY <1>2, <1>3, <1>4, <1>5, <1>7 DEF WorkOK, Intent
<1>10. AdmissionMoves(p)
  BY <1>5, <1>7 DEF AdmissionMoves, Pinned
<1>11. OwnerMoves(p) /\ CacheMoves(p)
  BY <1>1, <1>5, <1>7, IdleFacts DEF OwnerMoves, CacheMoves
<1>12. RevisionMoves(p)
  BY <1>4, <1>5, <1>7 DEF RevisionMoves
<1>13. Types'
  BY <1>1, <1>4, <1>7 DEF TInv, Types
<1>14. NativeMoves(p)
  BY <1>1, NativeIdle
<1> QED
  BY <1>4, <1>7, <1>8, <1>9, <1>10, <1>11, <1>12, <1>13, <1>14 DEF Effect, Mine

LEMMA ResumeEffect ==
    ASSUME TInv, NEW p \in Procs, Resume(p)
    PROVE  Effect(p)
<1> DEFINE t == loc[p].thread
           a == [adm[p] EXCEPT !.thread = t]
           n == [native EXCEPT ![t].state = IF @ \in Listed THEN @ ELSE "open"]
<1>1. /\ pc[p] = "resume" /\ UNCHANGED <<sel, rev, moved, cache, catRev, stray>>
      /\ \/ End(p) /\ Release(p) /\ UNCHANGED <<native, unseen>>
         \/ /\ pc' = [pc EXCEPT ![p] = "turn"] /\ loc' = loc /\ adm' = [adm EXCEPT ![p] = a]
            /\ native' = n /\ unseen' = IF native' = native THEN unseen ELSE unseen \cup {t}
  BY DEF Resume, Fails, Goto, store, catalogue
<1>2. loc[p].kind \in {"resume", "late"} /\ Working(p) /\ stray \subseteq Threads /\ unseen \subseteq Threads
  BY <1>1 DEF TInv, Types, ProcOK, KindOK, Working
<1>3. CASE End(p) /\ Release(p) /\ UNCHANGED <<native, unseen>>
  BY <1>1, <1>2, <1>3, EndsOnly DEF Owns
<1>4. CASE /\ pc' = [pc EXCEPT ![p] = "turn"] /\ loc' = loc /\ adm' = [adm EXCEPT ![p] = a]
           /\ native' = n /\ unseen' = IF native' = native THEN unseen ELSE unseen \cup {t}
  <2>1. /\ p \in Runners /\ loc[p].intent \in Intents /\ ThreadOK(p) /\ WorkOK(p) /\ HoldOK(p)
        /\ loc[p] \in Local /\ adm[p] \in Admission /\ t \in Threads \cup {None}
    BY <1>2, WorkFacts
  <2>2. t \in Threads /\ native[t].state # "absent" /\ Intent(loc[p].intent).thread = t
    BY <1>1, <1>2, <2>1 DEF ThreadOK, WorkOK
  <2>3. /\ a \in Admission /\ a.held = adm[p].held /\ a.target = adm[p].target /\ a.thread = t
        /\ "turn" \in Labels
    BY <2>1, <2>2 DEF Admission, Labels
  <2>4. native \in [Threads -> [state: States, ws: Workspaces \cup {None}]]
    BY DEF TInv, Types
  <2>5. /\ n \in [Threads -> [state: States, ws: Workspaces \cup {None}]]
        /\ n[t].state = (IF native[t].state \in Listed THEN native[t].state ELSE "open")
        /\ n[t].ws = native[t].ws /\ \A u \in Threads \ {t} : n[u] = native[u]
    BY <2>2, <2>4 DEF States, Listed
  <2> HIDE DEF n, a
  <2>6. /\ pc' \in [Procs -> Labels] /\ loc' \in [Procs -> Local] /\ adm' \in [Procs -> Admission]
        /\ Others(p) /\ pc'[p] = "turn" /\ loc'[p] = loc[p] /\ adm'[p] = a
    BY <1>4, <2>1, <2>3, Steps
  <2>7. KindOK(p)' /\ ThreadOK(p)' /\ HoldOK(p)'
    BY <1>1, <1>2, <1>4, <2>1, <2>2, <2>3, <2>5, <2>6 DEF KindOK, ThreadOK, HoldOK, Working, Pinned, Listed
  <2>8. WorkOK(p)'
    BY <1>1, <1>2, <1>4, <2>1, <2>2, <2>5, <2>6 DEF WorkOK, Working, Intent
  <2>9. NativeMoves(p)
    <3> SUFFICES ASSUME NEW u \in Threads
                 PROVE  /\ native[u].state # "absent" => native'[u].state # "absent" /\ native'[u].ws = native[u].ws
                        /\ native'[u].state # "absent" => native'[u].ws # None
                        /\ native'[u].state = "archived" => native[u].state = "archived"
                        /\ native'[u].state \in Listed /\ native[u].state \notin Listed =>
                              \E i \in Intents : Intent(i)'.thread = u
                        /\ View(u)' # View(u) => u \in unseen'
      BY DEF NativeMoves
    <3>1. CASE u # t
      BY <1>4, <2>5, <3>1 DEF View, TInv, SelOK
    <3>2. CASE u = t
      <4>1. Intent(loc[p].intent)'.thread = u
        BY <1>1, <1>4, <2>2, <3>2 DEF Intent
      <4>2. native[t].ws # None /\ native'[t].ws = native[t].ws
        BY <1>4, <2>2, <2>5 DEF TInv, SelOK
      <4>3. View(u)' # View(u) => u \in unseen'
        BY <1>4, <3>2 DEF View
      <4>4. /\ native'[t].state # "absent" /\ native'[t].state # "archived"
        BY <1>4, <2>5 DEF Listed
      <4>5. \E i \in Intents : Intent(i)'.thread = u
        BY <1>4, <2>1, <4>1
      <4> QED
        BY <3>2, <4>2, <4>3, <4>4, <4>5
    <3> QED
      BY <3>1, <3>2
  <2>10. AdmissionMoves(p)
    BY <1>1, <1>2, <1>4, <2>3, <2>6 DEF AdmissionMoves, Pinned
  <2>11. OwnerMoves(p) /\ RevisionMoves(p)
    BY <1>1, <1>2, <2>6 DEF OwnerMoves, Owns, RevisionMoves
  <2>12. CacheMoves(p)
    BY <1>1, <1>2, <1>4, <2>6 DEF CacheMoves, Changing
  <2>13. Types'
    BY <1>1, <1>2, <1>4, <2>2, <2>5, <2>6 DEF TInv, Types
  <2> QED
    BY <1>1, <2>6, <2>7, <2>8, <2>9, <2>10, <2>11, <2>12, <2>13, SelectionKept DEF Mine, Effect
<1> QED
  BY <1>1, <1>3, <1>4

\* Bind gives the request's intent the thread that was made for it.
LEMMA BindEffect ==
    ASSUME TInv, NEW p \in Procs, Bind(p)
    PROVE  Effect(p)
<1> DEFINE s == [sel EXCEPT !.intents[loc[p].intent].thread = loc[p].thread]
<1>1. pc[p] = "bind" /\ UNCHANGED <<native, cache, catRev, unseen>>
  BY DEF Bind, catalogue
<1>2. loc[p].kind = "work" /\ Working(p) /\ stray \subseteq Threads /\ sel \in Selection
  BY <1>1 DEF TInv, Types, ProcOK, KindOK, Working
<1>3. /\ p \in Runners /\ loc[p].intent \in Intents /\ loc[p].intent # None /\ loc[p].ws \in Workspaces
      /\ Intent(loc[p].intent).ws = loc[p].ws
      /\ ThreadOK(p) /\ WorkOK(p) /\ HoldOK(p)
      /\ loc[p] \in Local /\ adm[p] \in Admission /\ loc[p].thread \in Threads \cup {None}
  BY <1>2, WorkFacts
<1>4. loc[p].thread \in Threads /\ native[loc[p].thread].state # "absent"
  BY <1>1, <1>3 DEF ThreadOK
<1>5. PICK i \in Intents : i = loc[p].intent
  BY <1>3
<1>6. PICK w \in Workspaces : w = loc[p].ws
  BY <1>3
<1>7. PICK t \in Threads : t = loc[p].thread
  BY <1>4
<1>8. Intent(i).thread = None /\ Intent(i).ws = w /\ native[t].ws = w
  BY <1>1, <1>2, <1>3, <1>5, <1>6, <1>7 DEF WorkOK
<1>9. CASE End(p) /\ Release(p) /\ UNCHANGED <<sel, rev, moved>> /\ stray' = stray \cup {loc[p].thread}
  BY <1>1, <1>2, <1>4, <1>9, EndsOnly DEF Owns
<1>10. CASE Commit(s) /\ pc' = [pc EXCEPT ![p] = "attach"] /\ loc' = loc /\ adm' = adm /\ stray' = stray
  <2>1. s \in Selection /\ s.cur = sel.cur /\ s.intents = [sel.intents EXCEPT ![i].thread = t]
    BY <1>2, <1>5, <1>7 DEF Selection
  <2>2. [sel.intents EXCEPT ![i].thread = t] = [sel.intents EXCEPT ![i] = [ws |-> w, thread |-> t]]
    BY <1>2, <1>8 DEF Selection, Intent
  <2>3. Commit(s) /\ native' = native
    BY <1>1, <1>10
  <2> HIDE DEF s
  <2>4. /\ sel' \in Selection /\ SelOK' /\ IntentMoves(p) /\ sel'.intents = s.intents
        /\ rev' \in Nat /\ ((rev' = rev /\ \A q \in Procs : moved'[q] => moved[q]) \/ rev' = rev + 1)
        /\ moved' \in [Procs -> BOOLEAN]
    <3>1. t \in Threads \cup {None} /\ (t # None => native[t].state # "absent")
      BY <1>4, <1>7
    <3>2. s.intents = [sel.intents EXCEPT ![i] = [ws |-> w, thread |-> t]]
      BY <2>1, <2>2
    <3>3. \/ Intent(i) = NoIntent
          \/ Intent(i) = [ws |-> w, thread |-> t]
          \/ Intent(i).ws = w /\ Intent(i).thread = None /\ pc[p] = "bind" /\ i = loc[p].intent
      BY <1>1, <1>5, <1>8
    <3>4. s.cur = sel.cur \/ s.cur = [sel.cur EXCEPT ![w] = i]
      BY <2>1
    <3>5. s \in Selection
      BY <2>1
    <3> QED
      BY <2>3, <3>1, <3>2, <3>3, <3>4, <3>5, CommitMoves
  <2>5. sel'.intents[i] = [ws |-> w, thread |-> t]
    BY <1>2, <2>1, <2>2, <2>4 DEF Selection
  <2>6. /\ pc' \in [Procs -> Labels] /\ loc' \in [Procs -> Local] /\ adm' \in [Procs -> Admission]
        /\ Others(p) /\ pc'[p] = "attach" /\ loc'[p] = loc[p] /\ adm'[p] = adm[p]
    <3>1. "attach" \in Labels
      BY DEF Labels
    <3> QED
      BY <1>3, <1>10, <3>1, Steps
  <2>7. KindOK(p)' /\ ThreadOK(p)' /\ HoldOK(p)'
    BY <1>1, <1>2, <1>3, <2>6 DEF KindOK, ThreadOK, HoldOK, Working, Pinned
  <2>8. WorkOK(p)'
    BY <1>1, <1>3, <1>5, <1>6, <1>7, <1>8, <2>5, <2>6 DEF WorkOK, Intent
  <2>9. AdmissionMoves(p)
    BY <1>2, <2>6 DEF AdmissionMoves, Pinned
  <2>10. OwnerMoves(p)
    <3>1. Intent(i)'.thread = t
      BY <2>5 DEF Intent
    <3> QED
      BY <1>7, <1>10, <3>1 DEF OwnerMoves, Owns
  <2>11. RevisionMoves(p)
    BY <1>2, <2>4, <2>6 DEF RevisionMoves
  <2>12. CacheMoves(p)
    BY <1>1, <1>2, <2>6 DEF CacheMoves, Changing
  <2>13. Types'
    BY <1>1, <1>2, <1>10, <2>4, <2>6 DEF TInv, Types
  <2>14. NativeMoves(p)
    BY <1>1, NativeIdle
  <2> QED
    BY <2>4, <2>6, <2>7, <2>8, <2>9, <2>10, <2>11, <2>12, <2>13, <2>14 DEF Mine, Effect
<1>11. sel.intents[loc[p].intent].thread \in {None, loc[p].thread}
  BY <1>5, <1>8 DEF Intent
<1> QED
  BY <1>9, <1>10, <1>11 DEF Bind, Fails, Goto, store

-----------------------------------------------------------------------------
(* Threads made, named, withdrawn and archived *)

\* A process gives one thread a new state and keeps its directory.
LEMMA OneThreadMoves ==
    ASSUME TInv, NEW p \in Procs, NEW t \in Threads, NEW st \in States \ {"absent"},
           native[t].state # "absent",
           native' = [native EXCEPT ![t].state = st],
           st = "archived" => loc[p].kind = "archive" /\ loc[p].thread = t,
           st \in Listed => native[t].state \in Listed,
           t \in unseen' \/ Changing(p, t)'
    PROVE  /\ native' \in [Threads -> [state: States, ws: Workspaces \cup {None}]]
           /\ native'[t].state = st /\ native'[t].ws = native[t].ws
           /\ NativeMoves(p)
<1>1. native \in [Threads -> [state: States, ws: Workspaces \cup {None}]] /\ SelOK
  BY DEF TInv, Types
<1>2. /\ native' \in [Threads -> [state: States, ws: Workspaces \cup {None}]]
      /\ native'[t].state = st /\ native'[t].ws = native[t].ws
      /\ \A u \in Threads \ {t} : native'[u] = native[u]
  BY <1>1
<1>3. ASSUME NEW u \in Threads
      PROVE  /\ native[u].state # "absent" => native'[u].state # "absent" /\ native'[u].ws = native[u].ws
             /\ native'[u].state # "absent" => native'[u].ws # None
             /\ native'[u].state = "archived" /\ native[u].state # "archived" =>
                   loc[p].kind = "archive" /\ loc[p].thread = u
             /\ native'[u].state \in Listed => native[u].state \in Listed
             /\ View(u)' # View(u) => u \in unseen' \/ Changing(p, u)'
  <2>1. CASE u = t
    BY <1>1, <1>2, <2>1 DEF SelOK
  <2>2. CASE u # t
    BY <1>1, <1>2, <2>2 DEF SelOK, View
  <2> QED
    BY <2>1, <2>2
<1>4. NativeMoves(p)
  BY <1>3 DEF NativeMoves
<1> QED
  BY <1>2, <1>4

\* Who is opening a thread: a create, or a request whose intent has none.
LEMMA OpeningFacts ==
    ASSUME TInv, NEW p \in Procs, pc[p] \in {"start", "name", "unname"}
    PROVE  /\ loc[p].kind \in {"create", "work"} /\ (loc[p].kind = "work" <=> Working(p))
           /\ (Working(p) <=> p \in Runners)
           /\ loc[p] \in Local /\ adm[p] \in Admission /\ loc[p].ws \in Workspaces /\ loc[p].ws # None
           /\ KindOK(p) /\ ThreadOK(p) /\ WorkOK(p) /\ HoldOK(p) /\ loc[p].thread \in Threads \cup {None}
<1>1. KindOK(p) /\ ThreadOK(p) /\ WorkOK(p) /\ HoldOK(p)
  BY DEF TInv, ProcOK
<1>2. loc[p] \in Local /\ adm[p] \in Admission /\ loc[p].thread \in Threads \cup {None}
  BY ProcFacts DEF TInv
<1>3. loc[p].kind \in {"create", "work"} /\ (Working(p) <=> p \in Runners)
  BY <1>1 DEF KindOK
<1>4. loc[p].ws \in Workspaces /\ loc[p].ws # None
  BY <1>1, <1>3, TargetAssumption DEF ThreadOK, Working
<1> QED
  BY <1>1, <1>2, <1>3, <1>4 DEF Working

LEMMA StartThreadEffect ==
    ASSUME TInv, NEW p \in Procs, NEW t \in Threads, StartThread(p, t)
    PROVE  Effect(p)
<1> DEFINE x == [loc[p] EXCEPT !.thread = t]
<1>1. /\ pc[p] = "start" /\ native[t].state = "absent"
      /\ native' = [native EXCEPT ![t] = [state |-> "open", ws |-> loc[p].ws]]
      /\ UNCHANGED <<sel, rev, moved, cache, catRev>>
      /\ \/ /\ loc' = [loc EXCEPT ![p] = x] /\ UNCHANGED <<adm, stray, unseen>>
            /\ \E l \in {"name", "forget"} : pc' = [pc EXCEPT ![p] = l]
         \/ End(p) /\ Release(p) /\ stray' = stray \cup {t} /\ unseen' = unseen \cup {t}
  BY DEF StartThread, Goto, Fails, store, catalogue
<1>2. /\ loc[p].kind \in {"create", "work"} /\ (loc[p].kind = "work" <=> Working(p))
      /\ (Working(p) <=> p \in Runners)
      /\ loc[p] \in Local /\ adm[p] \in Admission /\ loc[p].ws \in Workspaces /\ loc[p].ws # None
      /\ ThreadOK(p) /\ WorkOK(p) /\ HoldOK(p)
  BY <1>1, OpeningFacts
<1>3. native \in [Threads -> [state: States, ws: Workspaces \cup {None}]] /\ SelOK /\ t # None
  BY TargetAssumption DEF TInv, Types
<1>4. /\ native' \in [Threads -> [state: States, ws: Workspaces \cup {None}]]
      /\ native'[t].state = "open" /\ native'[t].ws = loc[p].ws
      /\ \A u \in Threads \ {t} : native'[u] = native[u]
  BY <1>1, <1>2, <1>3 DEF States
<1>5. ASSUME Owns(p, t)' \/ t \in stray', t \in unseen' \/ Changing(p, t)'
      PROVE  NativeMoves(p)
  <2> SUFFICES ASSUME NEW u \in Threads
               PROVE  /\ native[u].state # "absent" => native'[u].state # "absent" /\ native'[u].ws = native[u].ws
                      /\ native'[u].state # "absent" => native'[u].ws # None
                      /\ native'[u].state = "archived" => native[u].state = "archived"
                      /\ native'[u].state \in Listed /\ native[u].state \notin Listed =>
                            Owns(p, u)' \/ u \in stray'
                      /\ View(u)' # View(u) => u \in unseen' \/ Changing(p, u)'
    BY DEF NativeMoves
  <2>1. CASE u = t
    BY <1>1, <1>2, <1>4, <1>5, <2>1
  <2>2. CASE u # t
    BY <1>3, <1>4, <2>2 DEF View, SelOK
  <2> QED
    BY <2>1, <2>2
<1>6. CASE /\ loc' = [loc EXCEPT ![p] = x] /\ UNCHANGED <<adm, stray, unseen>>
           /\ \E l \in {"name", "forget"} : pc' = [pc EXCEPT ![p] = l]
  <2>1. PICK l \in {"name", "forget"} : pc' = [pc EXCEPT ![p] = l]
    BY <1>6
  <2>2. /\ x \in Local /\ x.kind = loc[p].kind /\ x.ws = loc[p].ws /\ x.intent = loc[p].intent
        /\ x.thread = t /\ x.expected = loc[p].expected /\ l \in Labels
    BY <1>2 DEF Local, Labels
  <2> HIDE DEF x
  <2>3. /\ pc' \in [Procs -> Labels] /\ loc' \in [Procs -> Local] /\ adm' \in [Procs -> Admission]
        /\ Others(p) /\ pc'[p] = l /\ loc'[p] = x /\ adm'[p] = adm[p]
    BY <1>2, <1>6, <2>1, <2>2, Steps
  <2>4. KindOK(p)' /\ ThreadOK(p)' /\ HoldOK(p)'
    BY <1>1, <1>2, <1>3, <1>4, <2>2, <2>3 DEF KindOK, ThreadOK, HoldOK, Working, Pinned
  <2>5. WorkOK(p)'
    BY <1>1, <1>2, <1>4, <2>2, <2>3 DEF WorkOK, Working, Intent
  <2>6. Owns(p, t)' /\ Changing(p, t)'
    BY <1>2, <2>2, <2>3 DEF Owns, Changing
  <2>7. NativeMoves(p)
    BY <1>5, <2>6
  <2>8. AdmissionMoves(p)
    BY <1>2, <2>2, <2>3 DEF AdmissionMoves, Pinned
  <2>9. OwnerMoves(p) /\ RevisionMoves(p)
    BY <1>1, <1>2, <1>6, <2>2, <2>3 DEF OwnerMoves, Owns, RevisionMoves
  <2>10. CacheMoves(p)
    BY <1>1, <1>2, <1>6, <2>2, <2>3 DEF CacheMoves, Changing
  <2>11. Types'
    BY <1>1, <1>4, <1>6, <2>3 DEF TInv, Types
  <2> QED
    BY <1>1, <2>3, <2>4, <2>5, <2>7, <2>8, <2>9, <2>10, <2>11, SelectionKept DEF Mine, Effect
<1>7. CASE End(p) /\ Release(p) /\ stray' = stray \cup {t} /\ unseen' = unseen \cup {t}
  <2>1. /\ pc' \in [Procs -> Labels] /\ loc' \in [Procs -> Local] /\ adm' \in [Procs -> Admission]
        /\ pc'[p] = "idle" /\ loc'[p].kind = "none"
        /\ Mine(p) /\ Others(p) /\ AdmissionMoves(p)
    BY <1>7, Ends
  <2>2. NativeMoves(p)
    BY <1>5, <1>7
  <2>3. OwnerMoves(p) /\ RevisionMoves(p)
    BY <1>1, <1>7, <2>1 DEF OwnerMoves, Owns, RevisionMoves
  <2>4. CacheMoves(p)
    BY <1>1, <1>7, <2>1 DEF CacheMoves, Changing
  <2>5. Types'
    BY <1>1, <1>4, <1>7, <2>1 DEF TInv, Types
  <2> QED
    BY <1>1, <2>1, <2>2, <2>3, <2>4, <2>5, SelectionKept DEF Effect
<1> QED
  BY <1>1, <1>6, <1>7

\* An operation that changes its thread and ends, with an error or not.
LEMMA EndsWithThread ==
    ASSUME TInv, NEW p \in Procs, NEW t \in Threads, t = loc[p].thread, End(p), adm' = adm \/ Release(p),
           UNCHANGED <<sel, rev, moved, cache, catRev>>, unseen' = unseen \cup {t},
           stray \subseteq stray', stray' \subseteq Threads,
           NativeMoves(p), native' \in [Threads -> [state: States, ws: Workspaces \cup {None}]],
           Owns(p, t) => t \in stray' \/ native'[t].state \notin Listed
    PROVE  Effect(p)
<1>1. /\ pc' \in [Procs -> Labels] /\ loc' \in [Procs -> Local] /\ adm' \in [Procs -> Admission]
      /\ pc'[p] = "idle" /\ loc'[p].kind = "none"
      /\ Mine(p) /\ Others(p) /\ AdmissionMoves(p)
  BY Ends
<1>3. OwnerMoves(p)
  BY DEF OwnerMoves, Owns
<1>4. RevisionMoves(p)
  BY <1>1 DEF RevisionMoves
<1>5. CacheMoves(p)
  BY <1>1 DEF CacheMoves, Changing
<1>6. Types'
  BY <1>1 DEF TInv, Types
<1> QED
  BY <1>1, <1>3, <1>4, <1>5, <1>6, SelectionKept DEF Effect

\* An operation that changes its thread and goes on.
LEMMA GoesOnWithThread ==
    ASSUME TInv, NEW p \in Procs, NEW t \in Threads, t = loc[p].thread, NEW l \in Labels,
           pc' = [pc EXCEPT ![p] = l], loc' = loc, adm' = adm,
           UNCHANGED <<sel, rev, moved, cache, catRev, stray>>, unseen' \in {unseen, unseen \cup {t}},
           NativeMoves(p), native' \in [Threads -> [state: States, ws: Workspaces \cup {None}]],
           loc[p].kind # "list", Mine(p), Pinned(p)' => Pinned(p),
           Owns(p, t) => Owns(p, t)',
           Changing(p, t) => Changing(p, t)' \/ t \in unseen'
    PROVE  Effect(p)
<1>1. loc[p] \in Local /\ adm[p] \in Admission
  BY ProcFacts DEF TInv
<1>2. /\ pc' \in [Procs -> Labels] /\ loc' \in [Procs -> Local] /\ adm' \in [Procs -> Admission]
      /\ Others(p)
  BY <1>1, Steps
<1>3. AdmissionMoves(p)
  BY DEF AdmissionMoves
<1>4. OwnerMoves(p)
  BY DEF OwnerMoves, Owns
<1>5. CacheMoves(p)
  BY DEF CacheMoves, Changing
<1>6. RevisionMoves(p)
  BY DEF RevisionMoves
<1>7. Types'
  BY <1>2 DEF TInv, Types
<1> QED
  BY <1>2, <1>3, <1>4, <1>5, <1>6, <1>7, SelectionKept DEF Effect

\* The thread an operation is changing exists.
LEMMA HandFacts ==
    ASSUME TInv, NEW p \in Procs,
           pc[p] \in {"name", "unname", "rename", "undo", "archive", "forget", "clear", "commit"}
    PROVE  /\ loc[p].thread \in Threads /\ native[loc[p].thread].state # "absent"
           /\ loc[p] \in Local /\ adm[p] \in Admission
           /\ KindOK(p) /\ ThreadOK(p) /\ WorkOK(p) /\ HoldOK(p)
           /\ stray \subseteq Threads /\ unseen \subseteq Threads
<1>1. KindOK(p) /\ ThreadOK(p) /\ WorkOK(p) /\ HoldOK(p)
  BY DEF TInv, ProcOK
<1>2. loc[p].thread # None /\ native[loc[p].thread].state # "absent"
  BY <1>1 DEF ThreadOK
<1> QED
  BY <1>1, <1>2, ProcFacts DEF TInv, Types

LEMMA SetThreadNameEffect ==
    ASSUME TInv, NEW p \in Procs, SetThreadName(p)
    PROVE  Effect(p)
<1>1. pc[p] \in {"name", "rename"} /\ UNCHANGED <<sel, rev, moved, cache, catRev, stray>>
  BY DEF SetThreadName, store, catalogue
<1>2. /\ loc[p].thread \in Threads /\ native[loc[p].thread].state # "absent"
      /\ KindOK(p) /\ ThreadOK(p) /\ WorkOK(p) /\ HoldOK(p)
      /\ stray \subseteq Threads /\ unseen \subseteq Threads
  BY <1>1, HandFacts
<1>3. PICK t \in Threads : t = loc[p].thread
  BY <1>2
<1> DEFINE st == IF native[t].state = "open" THEN "renamed" ELSE native[t].state
           applied == [native EXCEPT ![t].state = st]
<1>4. /\ \/ pc' = [pc EXCEPT ![p] = "forget"] /\ native' = applied /\ loc' = loc /\ adm' = adm /\ unseen' = unseen
         \/ /\ native' \in {native, applied} /\ unseen' = unseen \cup {t} /\ pc[p] = "name"
            /\ pc' = [pc EXCEPT ![p] = "unname"] /\ loc' = loc /\ adm' = adm
         \/ /\ native' \in {native, applied} /\ unseen' = unseen \cup {t} /\ pc[p] = "rename"
            /\ End(p) /\ Release(p)
  BY <1>3 DEF SetThreadName, Goto, Fails
<1>5. /\ native \in [Threads -> [state: States, ws: Workspaces \cup {None}]] /\ pc \in [Procs -> Labels]
  BY DEF TInv, Types
<1>6. /\ st \in States \ {"absent"} /\ (st = "archived" => native[t].state = "archived")
      /\ (st \in Listed => native[t].state \in Listed)
  BY <1>2, <1>3, <1>5 DEF States, Listed
<1>7. /\ loc[p].kind \in {"create", "work", "rename"} /\ (pc[p] = "name" => loc[p].kind \in {"create", "work"})
      /\ (pc[p] = "rename" => loc[p].kind = "rename") /\ (Working(p) <=> p \in Runners)
  BY <1>1, <1>2 DEF KindOK
<1> HIDE DEF st
<1>8. ASSUME native' \in {native, applied}, t \in unseen' \/ Changing(p, t)'
      PROVE  /\ NativeMoves(p) /\ native' \in [Threads -> [state: States, ws: Workspaces \cup {None}]]
             /\ native'[t].state # "absent" /\ native'[t].ws = native[t].ws
  <2>1. CASE native' = native
    BY <1>2, <1>3, <1>5, <2>1, NativeIdle
  <2>2. CASE native' # native
    <3>1. native' = applied /\ st # native[t].state
      BY <1>5, <1>8, <2>2
    <3>2. st = "renamed"
      BY <3>1 DEF st
    <3>3. native' = [native EXCEPT ![t].state = "renamed"]
      BY <3>1, <3>2
    <3>4. /\ "renamed" \in States \ {"absent"} /\ "renamed" # "archived"
          /\ ("renamed" \in Listed => native[t].state \in Listed)
      BY <1>6, <3>2
    <3>5. native[t].state # "absent" /\ (t \in unseen' \/ Changing(p, t)')
      BY <1>2, <1>3, <1>8
    <3> QED
      BY <3>3, <3>4, <3>5, OneThreadMoves
  <2> QED
    BY <2>1, <2>2
<1> HIDE DEF applied
<1>9. ASSUME NEW l \in {"forget", "unname"}, pc[p] = "name" \/ l = "forget",
             pc' = [pc EXCEPT ![p] = l], loc' = loc, adm' = adm,
             native' \in {native, applied}, unseen' \in {unseen, unseen \cup {t}},
             t \in unseen' \/ Changing(p, t)'
      PROVE  Effect(p)
  <2>1. l \in Labels /\ pc'[p] = l
    BY <1>5, <1>9 DEF Labels
  <2>2. /\ NativeMoves(p) /\ native' \in [Threads -> [state: States, ws: Workspaces \cup {None}]]
        /\ native'[t].state # "absent" /\ native'[t].ws = native[t].ws
    BY <1>8, <1>9
  <2>3. KindOK(p)' /\ ThreadOK(p)' /\ HoldOK(p)'
    BY <1>1, <1>2, <1>3, <1>7, <1>9, <2>1, <2>2 DEF KindOK, ThreadOK, HoldOK, Working, Pinned
  <2>4. WorkOK(p)'
    BY <1>1, <1>2, <1>3, <1>7, <1>9, <2>1, <2>2 DEF WorkOK, Working, Intent
  <2>5. ~ Pinned(p)' /\ loc[p].kind # "list" /\ (Owns(p, t) => Owns(p, t)')
    BY <1>7, <1>9, <2>1 DEF Pinned, Owns
  <2>6. Changing(p, t) => Changing(p, t)' \/ t \in unseen'
    BY <1>9
  <2> QED
    BY <1>1, <1>3, <1>9, <2>1, <2>2, <2>3, <2>4, <2>5, <2>6, GoesOnWithThread DEF Mine
<1>10. CASE pc' = [pc EXCEPT ![p] = "forget"] /\ native' = applied /\ loc' = loc /\ adm' = adm /\ unseen' = unseen
  <2>1. Changing(p, t)'
    BY <1>3, <1>5, <1>10 DEF Changing
  <2> QED
    BY <1>9, <1>10, <2>1
<1>11. CASE /\ native' \in {native, applied} /\ unseen' = unseen \cup {t} /\ pc[p] = "name"
            /\ pc' = [pc EXCEPT ![p] = "unname"] /\ loc' = loc /\ adm' = adm
  BY <1>9, <1>11
<1>12. CASE /\ native' \in {native, applied} /\ unseen' = unseen \cup {t} /\ pc[p] = "rename"
            /\ End(p) /\ Release(p)
  <2>1. NativeMoves(p) /\ native' \in [Threads -> [state: States, ws: Workspaces \cup {None}]]
    BY <1>8, <1>12
  <2>2. ~ Owns(p, t)
    BY <1>7, <1>12 DEF Owns
  <2> QED
    BY <1>1, <1>2, <1>3, <1>12, <2>1, <2>2, EndsWithThread
<1> QED
  BY <1>4, <1>10, <1>11, <1>12

LEMMA UnnameEffect ==
    ASSUME TInv, NEW p \in Procs, Unname(p)
    PROVE  Effect(p)
<1>1. /\ pc[p] = "unname" /\ UNCHANGED <<sel, rev, moved, cache, catRev>> /\ End(p) /\ Release(p)
  BY DEF Unname, Fails, store, catalogue
<1>2. /\ loc[p].thread \in Threads /\ native[loc[p].thread].state # "absent"
      /\ stray \subseteq Threads /\ unseen \subseteq Threads
  BY <1>1, HandFacts
<1>3. PICK t \in Threads : t = loc[p].thread
  BY <1>2
<1>4. /\ unseen' = unseen \cup {t}
      /\ \/ native' = [native EXCEPT ![t].state = "withdrawn"] /\ stray' = stray
         \/ native' = native /\ stray' = stray \cup {t}
  BY <1>3 DEF Unname, Withdrawn
<1>5. CASE native' = [native EXCEPT ![t].state = "withdrawn"] /\ stray' = stray
  <2>1. /\ NativeMoves(p) /\ native' \in [Threads -> [state: States, ws: Workspaces \cup {None}]]
        /\ native'[t].state = "withdrawn"
    <3>1. "withdrawn" \in States \ {"absent"} /\ "withdrawn" \notin Listed
      BY DEF States, Listed
    <3> QED
      BY <1>2, <1>3, <1>4, <1>5, <3>1, OneThreadMoves
  <2> QED
    BY <1>1, <1>2, <1>3, <1>4, <1>5, <2>1, EndsWithThread DEF Listed
<1>6. CASE native' = native /\ stray' = stray \cup {t}
  <2>1. NativeMoves(p) /\ native' \in [Threads -> [state: States, ws: Workspaces \cup {None}]]
    BY <1>6, NativeIdle DEF TInv, Types
  <2> QED
    BY <1>1, <1>2, <1>3, <1>4, <1>6, <2>1, EndsWithThread
<1> QED
  BY <1>4, <1>5, <1>6

LEMMA ArchiveThreadEffect ==
    ASSUME TInv, NEW p \in Procs, ArchiveThread(p)
    PROVE  Effect(p)
<1>1. /\ pc[p] = "archive" /\ UNCHANGED <<sel, rev, moved, cache, catRev, stray>>
  BY DEF ArchiveThread, store, catalogue
<1>2. /\ loc[p].thread \in Threads /\ native[loc[p].thread].state # "absent"
      /\ KindOK(p) /\ ThreadOK(p) /\ HoldOK(p)
      /\ stray \subseteq Threads /\ unseen \subseteq Threads
  BY <1>1, HandFacts
<1>3. PICK t \in Threads : t = loc[p].thread
  BY <1>2
<1>4. \/ /\ native' = [native EXCEPT ![t].state = "archived"] /\ unseen' = unseen
         /\ pc' = [pc EXCEPT ![p] = "forget"] /\ loc' = loc /\ adm' = adm
      \/ /\ native' \in {native, [native EXCEPT ![t].state = "archived"]} /\ unseen' = unseen \cup {t}
         /\ End(p) /\ Release(p)
  BY <1>3 DEF ArchiveThread, Archived, Goto, Fails
<1>5. loc[p].kind = "archive" /\ p \notin Runners /\ pc \in [Procs -> Labels]
  BY <1>1, <1>2 DEF KindOK, Working, TInv, Types
<1>6. ASSUME native' \in {native, [native EXCEPT ![t].state = "archived"]}, t \in unseen' \/ Changing(p, t)'
      PROVE  /\ NativeMoves(p) /\ native' \in [Threads -> [state: States, ws: Workspaces \cup {None}]]
             /\ native'[t].state # "absent"
  <2>1. CASE native' = native
    BY <1>2, <1>3, <2>1, NativeIdle DEF TInv, Types
  <2>2. CASE native' = [native EXCEPT ![t].state = "archived"]
    <3> DEFINE st == "archived"
    <3>1. st \in States \ {"absent"} /\ (st \in Listed => native[t].state \in Listed)
      BY DEF States, Listed
    <3>2. native[t].state # "absent" /\ (st = "archived" => loc[p].kind = "archive" /\ loc[p].thread = t)
      BY <1>2, <1>3, <1>5
    <3>3. t \in unseen' \/ Changing(p, t)'
      BY <1>6
    <3>4. native' = [native EXCEPT ![t].state = st] /\ st # "absent"
      BY <2>2
    <3> HIDE DEF st
    <3> QED
      BY <3>1, <3>2, <3>3, <3>4, OneThreadMoves
  <2> QED
    BY <1>6, <2>1, <2>2
<1>7. CASE /\ native' = [native EXCEPT ![t].state = "archived"] /\ unseen' = unseen
           /\ pc' = [pc EXCEPT ![p] = "forget"] /\ loc' = loc /\ adm' = adm
  <2>1. "forget" \in Labels /\ pc'[p] = "forget" /\ Changing(p, t)'
    BY <1>3, <1>5, <1>7 DEF Labels, Changing
  <2>2. /\ NativeMoves(p) /\ native' \in [Threads -> [state: States, ws: Workspaces \cup {None}]]
        /\ native'[t].state # "absent"
    BY <1>6, <1>7, <2>1
  <2>3. Mine(p)
    BY <1>1, <1>2, <1>3, <1>5, <1>7, <2>1, <2>2 DEF Mine, KindOK, ThreadOK, HoldOK, WorkOK, Working, Pinned
  <2>4. ~ Pinned(p)' /\ ~ Owns(p, t)
    BY <1>5, <1>7, <2>1 DEF Pinned, Owns
  <2> QED
    BY <1>1, <1>3, <1>5, <1>7, <2>1, <2>2, <2>3, <2>4, GoesOnWithThread
<1>8. CASE /\ native' \in {native, [native EXCEPT ![t].state = "archived"]} /\ unseen' = unseen \cup {t}
           /\ End(p) /\ Release(p)
  <2>1. NativeMoves(p) /\ native' \in [Threads -> [state: States, ws: Workspaces \cup {None}]]
    BY <1>6, <1>8
  <2>2. ~ Owns(p, t)
    BY <1>5 DEF Owns
  <2> QED
    BY <1>1, <1>2, <1>3, <1>8, <2>1, <2>2, EndsWithThread
<1> QED
  BY <1>4, <1>7, <1>8

LEMMA CompensateEffect ==
    ASSUME TInv, NEW p \in Procs, Compensate(p)
    PROVE  Effect(p)
<1> DEFINE x == [loc[p] EXCEPT !.kind = "undone"]
<1>1. /\ pc[p] = "undo" /\ UNCHANGED <<sel, rev, moved, cache, catRev, unseen, adm>>
      /\ pc' = [pc EXCEPT ![p] = "forget"] /\ loc' = [loc EXCEPT ![p] = x]
  BY DEF Compensate, Goto, store, catalogue
<1>2. /\ loc[p].thread \in Threads /\ native[loc[p].thread].state # "absent"
      /\ loc[p] \in Local /\ adm[p] \in Admission
      /\ KindOK(p) /\ ThreadOK(p) /\ HoldOK(p)
      /\ stray \subseteq Threads /\ unseen \subseteq Threads
  BY <1>1, HandFacts
<1>3. PICK t \in Threads : t = loc[p].thread
  BY <1>2
<1>4. \/ native' = [native EXCEPT ![t].state = "withdrawn"] /\ stray' = stray
      \/ native' = native /\ stray' = stray \cup {t}
  BY <1>3 DEF Compensate, Withdrawn
<1>5. loc[p].kind = "create" /\ p \notin Runners
  BY <1>1, <1>2 DEF KindOK, Working
<1>6. x \in Local /\ x.kind = "undone" /\ x.thread = t /\ "forget" \in Labels
  BY <1>2, <1>3 DEF Local, Labels
<1> HIDE DEF x
<1>7. /\ pc' \in [Procs -> Labels] /\ loc' \in [Procs -> Local] /\ adm' \in [Procs -> Admission]
      /\ Others(p) /\ pc'[p] = "forget" /\ loc'[p] = x /\ adm'[p] = adm[p]
  BY <1>1, <1>2, <1>6, Steps
<1>8. Changing(p, t)' /\ t # None
  BY <1>6, <1>7, TargetAssumption DEF Changing
<1>9. /\ NativeMoves(p) /\ native' \in [Threads -> [state: States, ws: Workspaces \cup {None}]]
      /\ native'[t].state # "absent" /\ (t \in stray' \/ native'[t].state \notin Listed)
  <2>1. CASE native' = native /\ stray' = stray \cup {t}
    BY <1>2, <1>3, <2>1, NativeIdle DEF TInv, Types
  <2>2. CASE native' = [native EXCEPT ![t].state = "withdrawn"]
    <3>1. "withdrawn" \in States \ {"absent"} /\ "withdrawn" \notin Listed /\ "withdrawn" # "archived"
      BY DEF States, Listed
    <3>2. native[t].state # "absent"
      BY <1>2, <1>3
    <3> QED
      BY <1>8, <2>2, <3>1, <3>2, OneThreadMoves
  <2> QED
    BY <1>4, <2>1, <2>2
<1>10. Mine(p)
  BY <1>5, <1>6, <1>7, <1>8, <1>9 DEF Mine, KindOK, ThreadOK, HoldOK, WorkOK, Working, Pinned
<1>11. AdmissionMoves(p)
  BY <1>6, <1>7 DEF AdmissionMoves, Pinned
<1>12. OwnerMoves(p)
  BY <1>3, <1>4, <1>9 DEF OwnerMoves, Owns
<1>13. RevisionMoves(p)
  BY <1>1, <1>6, <1>7 DEF RevisionMoves
<1>14. CacheMoves(p)
  BY <1>1, <1>6, <1>7 DEF CacheMoves, Changing
<1>15. Types'
  BY <1>1, <1>2, <1>4, <1>7, <1>9 DEF TInv, Types
<1> QED
  BY <1>1, <1>7, <1>9, <1>10, <1>11, <1>12, <1>13, <1>14, <1>15, SelectionKept DEF Effect

LEMMA InvalidateEffect ==
    ASSUME TInv, NEW p \in Procs, Invalidate(p)
    PROVE  Effect(p)
<1>1. /\ pc[p] = "forget" /\ UNCHANGED <<sel, rev, moved, native, adm, stray, unseen>>
      /\ cache' = None /\ catRev' = catRev + 1
  BY DEF Invalidate, store
<1>2. /\ loc[p].thread \in Threads /\ native[loc[p].thread].state # "absent"
      /\ loc[p] \in Local /\ adm[p] \in Admission
      /\ KindOK(p) /\ ThreadOK(p) /\ WorkOK(p) /\ HoldOK(p) /\ catRev \in Nat
  BY <1>1, HandFacts DEF TInv, Types
<1>3. /\ loc[p].kind \in {"create", "undone", "archive", "rename", "work"}
      /\ (Working(p) <=> p \in Runners)
  BY <1>1, <1>2 DEF KindOK
<1>4. NativeMoves(p)
  BY <1>1, NativeIdle
<1>5. ASSUME /\ pc' \in [Procs -> Labels] /\ loc' \in [Procs -> Local] /\ adm' \in [Procs -> Admission]
             /\ Mine(p) /\ Others(p) /\ AdmissionMoves(p) /\ OwnerMoves(p) /\ RevisionMoves(p)
             /\ loc'[p].kind # "list"
      PROVE  Effect(p)
  <2>1. CacheMoves(p)
    BY <1>1, <1>5 DEF CacheMoves
  <2>2. Types'
    BY <1>1, <1>2, <1>5 DEF TInv, Types
  <2> QED
    BY <1>1, <1>4, <1>5, <2>1, <2>2, SelectionKept DEF Effect
<1>6. CASE End(p)
  <2>1. /\ pc' \in [Procs -> Labels] /\ loc' \in [Procs -> Local] /\ adm' \in [Procs -> Admission]
        /\ pc'[p] = "idle" /\ loc'[p].kind = "none"
        /\ Mine(p) /\ Others(p) /\ AdmissionMoves(p)
    BY <1>1, <1>6, Ends
  <2>2. loc[p].kind \notin {"create", "work"} => OwnerMoves(p)
    BY <1>1 DEF OwnerMoves, Owns
  <2>3. loc[p].kind \notin {"create", "work"}
    BY <1>1, <1>6, <2>1 DEF Invalidate, Goto, TInv, Types
  <2>4. RevisionMoves(p)
    BY <1>1, <2>1 DEF RevisionMoves
  <2> QED
    BY <1>5, <2>1, <2>2, <2>3, <2>4
<1>7. ASSUME NEW l \in {"commit", "clear", "bind"}, pc' = [pc EXCEPT ![p] = l], loc' = loc,
             \/ loc[p].kind = "create" /\ l = "commit"
             \/ loc[p].kind = "archive" /\ l = "clear"
             \/ loc[p].kind = "work" /\ l = "bind"
      PROVE  Effect(p)
  <2>1. l \in Labels
    BY <1>7 DEF Labels
  <2>2. /\ pc' \in [Procs -> Labels] /\ loc' \in [Procs -> Local] /\ adm' \in [Procs -> Admission]
        /\ Others(p) /\ pc'[p] = l /\ loc'[p] = loc[p] /\ adm'[p] = adm[p]
    BY <1>1, <1>2, <1>7, <2>1, Steps
  <2>3. KindOK(p)' /\ ThreadOK(p)' /\ HoldOK(p)'
    BY <1>1, <1>2, <1>3, <1>7, <2>2 DEF KindOK, ThreadOK, HoldOK, Working, Pinned
  <2>4. WorkOK(p)'
    BY <1>1, <1>2, <1>7, <2>2 DEF WorkOK, Working, Intent
  <2>5. AdmissionMoves(p)
    BY <1>7, <2>2 DEF AdmissionMoves, Pinned
  <2>6. OwnerMoves(p)
    BY <1>1, <1>7, <2>2 DEF OwnerMoves, Owns
  <2>7. RevisionMoves(p)
    BY <1>1, <1>7, <2>2 DEF RevisionMoves
  <2> QED
    BY <1>5, <1>7, <2>2, <2>3, <2>4, <2>5, <2>6, <2>7 DEF Mine
<1> QED
  BY <1>3, <1>6, <1>7 DEF Invalidate, Goto

-----------------------------------------------------------------------------
(* Operations that end with a commit *)

LEMMA CommitEnds ==
    ASSUME TInv, NEW p \in Procs, End(p), adm' = adm \/ Release(p),
           UNCHANGED <<native, cache, catRev, stray, unseen>>, pc[p] \notin {"name", "forget"},
           sel' \in Selection, SelOK', IntentMoves(p), rev' \in Nat, moved' \in [Procs -> BOOLEAN],
           (rev' = rev /\ \A q \in Procs : moved'[q] => moved[q]) \/ rev' = rev + 1,
           \A t \in Threads : Owns(p, t) => \E i \in Intents : Intent(i)'.thread = t
    PROVE  Effect(p)
<1>1. /\ pc' \in [Procs -> Labels] /\ loc' \in [Procs -> Local] /\ adm' \in [Procs -> Admission]
      /\ pc'[p] = "idle" /\ loc'[p].kind = "none"
      /\ Mine(p) /\ Others(p) /\ AdmissionMoves(p)
  BY Ends
<1>2. OwnerMoves(p)
  BY DEF OwnerMoves
<1>3. RevisionMoves(p)
  BY <1>1 DEF RevisionMoves
<1>4. CacheMoves(p)
  BY <1>1 DEF CacheMoves, Changing
<1>5. Types'
  BY <1>1 DEF TInv, Types
<1>6. NativeMoves(p)
  BY NativeIdle
<1> QED
  BY <1>1, <1>2, <1>3, <1>4, <1>5, <1>6 DEF Effect

\* A commit that changes nothing: the row is written for the first time, or again.
LEMMA CommitSame ==
    ASSUME TInv, NEW p \in Procs, sel.known, Commit(sel), native' = native
    PROVE  sel' = sel /\ rev' = rev /\ moved' = moved
<1>1. sel \in Selection /\ moved \in [Procs -> BOOLEAN]
  BY DEF TInv, Types
<1>2. sel' = sel /\ rev' = rev
  BY <1>1 DEF Commit, Selection
<1>3. moved' = [q \in Procs |-> moved[q]]
  BY <1>1 DEF Commit
<1> QED
  BY <1>1, <1>2, <1>3

LEMMA ClearThreadEffect ==
    ASSUME TInv, NEW p \in Procs, ClearThread(p)
    PROVE  Effect(p)
<1>1. /\ pc[p] = "clear" /\ UNCHANGED <<native, cache, catRev, stray, unseen>> /\ End(p) /\ Release(p)
      /\ \/ UNCHANGED <<sel, rev, moved>>
         \/ sel.known /\ Commit(sel)
         \/ Room /\ \E w \in Workspaces : Commit(Point(sel, w, Fresh, None))
  BY DEF ClearThread, Fails, store, catalogue
<1>2. \A t \in Threads : ~ Owns(p, t)
  BY <1>1 DEF Owns
<1>3. stray \subseteq Threads
  BY DEF TInv, Types
<1>4. CASE UNCHANGED <<sel, rev, moved>>
  BY <1>1, <1>2, <1>3, <1>4, EndsOnly
<1>5. CASE sel.known /\ Commit(sel)
  <2>1. sel' = sel /\ rev' = rev /\ moved' = moved
    BY <1>1, <1>5, CommitSame
  <2> QED
    BY <1>1, <1>2, <1>3, <2>1, EndsOnly
<1>6. ASSUME Room, NEW w \in Workspaces, Commit(Point(sel, w, Fresh, None)) PROVE Effect(p)
  <2> DEFINE s == Point(sel, w, Fresh, None)
  <2>1. Fresh \in Intents /\ Intent(Fresh) = NoIntent
    BY <1>6, FreshIntent
  <2>2. /\ s \in Selection /\ s.intents = [sel.intents EXCEPT ![Fresh] = [ws |-> w, thread |-> None]]
        /\ s.cur = [sel.cur EXCEPT ![w] = Fresh]
    BY <1>6, FreshPoint
  <2>3. Commit(s) /\ native' = native
    BY <1>1, <1>6
  <2> HIDE DEF s
  <2>4. /\ sel' \in Selection /\ SelOK' /\ IntentMoves(p) /\ rev' \in Nat /\ moved' \in [Procs -> BOOLEAN]
        /\ (rev' = rev /\ \A q \in Procs : moved'[q] => moved[q]) \/ rev' = rev + 1
    BY <2>1, <2>2, <2>3, CommitMoves
  <2> QED
    BY <1>1, <1>2, <2>4, CommitEnds
<1> QED
  BY <1>1, <1>4, <1>5, <1>6

\* SelectThread hands the thread of Create to an intent, or leaves it to the
\* compensation.
LEMMA SelectThreadEffect ==
    ASSUME TInv, NEW p \in Procs, SelectThread(p)
    PROVE  Effect(p)
<1>1. /\ pc[p] = "commit" /\ UNCHANGED <<native, cache, catRev, adm, stray, unseen>>
      /\ \/ /\ Holding(sel, loc[p].ws, loc[p].thread) = {} => Room
            /\ Commit(Selected(loc[p].ws, loc[p].thread)) /\ End(p)
         \/ UNCHANGED <<sel, rev, moved>> /\ loc[p].kind # "create" /\ End(p)
         \/ UNCHANGED <<sel, rev, moved>> /\ loc[p].kind = "create" /\ pc' = [pc EXCEPT ![p] = "undo"] /\ loc' = loc
  BY DEF SelectThread, Goto, store, catalogue
<1>2. /\ loc[p].thread \in Threads /\ native[loc[p].thread].state # "absent"
      /\ KindOK(p) /\ ThreadOK(p) /\ HoldOK(p) /\ stray \subseteq Threads
  BY <1>1, HandFacts
<1>3. loc[p].kind \in {"select", "create"} /\ p \notin Runners /\ loc[p].ws \in Workspaces
  BY <1>1, <1>2 DEF KindOK, ThreadOK, Working
<1>4. CASE /\ Holding(sel, loc[p].ws, loc[p].thread) = {} => Room
           /\ Commit(Selected(loc[p].ws, loc[p].thread)) /\ End(p)
  <2>1. PICK w \in Workspaces : w = loc[p].ws
    BY <1>3
  <2>2. PICK t \in Threads : t = loc[p].thread
    BY <1>2
  <2>3. t # None /\ native[t].state # "absent" /\ (Holding(sel, w, t) = {} => Room)
    BY <1>2, <1>4, <2>1, <2>2, TargetAssumption
  <2>4. PICK i \in Intents, u \in Threads \cup {None} :
              /\ Selected(w, t) = [Point(sel, w, i, u) EXCEPT !.ws = w]
              /\ Intent(i) = NoIntent \/ Intent(i) = [ws |-> w, thread |-> u]
              /\ u # None => native[u].state # "absent"
              /\ t # None => u = t
    BY <2>3, SelectedFacts
  <2> DEFINE s == Selected(w, t)
  <2>5. /\ s \in Selection /\ s.intents = [sel.intents EXCEPT ![i] = [ws |-> w, thread |-> u]]
        /\ s.cur = [sel.cur EXCEPT ![w] = i]
    <3>1. sel \in Selection
      BY DEF TInv, Types
    <3> QED
      BY <2>4, <3>1, PointFacts
  <2>6. Commit(s) /\ native' = native
    BY <1>1, <1>4, <2>1, <2>2
  <2> HIDE DEF s
  <2>7. /\ sel' \in Selection /\ SelOK' /\ IntentMoves(p) /\ rev' \in Nat /\ moved' \in [Procs -> BOOLEAN]
        /\ (rev' = rev /\ \A q \in Procs : moved'[q] => moved[q]) \/ rev' = rev + 1
        /\ sel'.intents = s.intents
    BY <2>4, <2>5, <2>6, CommitMoves
  <2>8. Intent(i)'.thread = t
    <3>1. sel.intents \in [Intents -> [ws: Workspaces \cup {None}, thread: Threads \cup {None}]]
      BY DEF TInv, Types, Selection
    <3> QED
      BY <2>3, <2>4, <2>5, <2>7, <3>1 DEF Intent
  <2>9. \A v \in Threads : Owns(p, v) => \E j \in Intents : Intent(j)'.thread = v
    BY <2>2, <2>8 DEF Owns
  <2> QED
    BY <1>1, <1>4, <2>7, <2>9, CommitEnds
<1>5. CASE UNCHANGED <<sel, rev, moved>> /\ loc[p].kind # "create" /\ End(p)
  BY <1>1, <1>2, <1>3, <1>5, EndsOnly DEF Owns
<1>6. CASE UNCHANGED <<sel, rev, moved>> /\ loc[p].kind = "create" /\ pc' = [pc EXCEPT ![p] = "undo"] /\ loc' = loc
  <2>1. pc'[p] = "undo" /\ "undo" \in Labels
    BY <1>6 DEF TInv, Types, Labels
  <2>2. Mine(p)
    BY <1>1, <1>2, <1>3, <1>6, <2>1 DEF Mine, KindOK, ThreadOK, WorkOK, HoldOK, Working, Pinned
  <2>3. ~ Pinned(p)' /\ \A t \in Threads : (Owns(p, t) => Owns(p, t)') /\ ~ Changing(p, t)
    BY <1>1, <1>6, <2>1 DEF Pinned, Owns, Changing
  <2> QED
    BY <1>1, <1>6, <2>1, <2>2, <2>3, GoesOn
<1> QED
  BY <1>1, <1>4, <1>5, <1>6

-----------------------------------------------------------------------------
(* Every step *)

\* A step of a process has its effect, and only SelectThread leaves "commit".
Fine(p) == Effect(p) /\ (pc[p] = "commit" => SelectThread(p))

LEMMA OperationEffect ==
    ASSUME TInv, NEW p \in Procs, Operation(p)
    PROVE  Fine(p)
<1>1. ASSUME NEW w \in Workspaces, SelectWorkspace(p, w) PROVE Fine(p)
  BY <1>1, SelectWorkspaceEffect DEF Fine, SelectWorkspace, Enter
<1>2. ASSUME NEW w \in Workspaces, NewConversation(p, w) PROVE Fine(p)
  BY <1>2, NewConversationEffect DEF Fine, NewConversation, Enter
<1>3. ASSUME NEW w \in Workspaces, BeginCreate(p, w) PROVE Fine(p)
  BY <1>3, BeginCreateEffect DEF Fine, BeginCreate, Enter
<1>4. ASSUME NEW w \in Workspaces, NEW t \in Threads, BeginSelect(p, w, t) PROVE Fine(p)
  BY <1>4, BeginSelectEffect DEF Fine, BeginSelect, Enter
<1>5. ASSUME NEW t \in Threads, Remember(p, t) PROVE Fine(p)
  BY <1>5, RememberEffect DEF Fine, Remember, Enter
<1>6. ASSUME NEW t \in Threads, BeginArchive(p, t) PROVE Fine(p)
  BY <1>6, BeginArchiveEffect DEF Fine, BeginArchive, Enter
<1>7. ASSUME NEW t \in Threads, BeginRename(p, t) PROVE Fine(p)
  BY <1>7, BeginRenameEffect DEF Fine, BeginRename, Enter
<1>8. CASE BeginList(p)
  BY <1>8, BeginListEffect DEF Fine, BeginList, Enter
<1>9. CASE UseGlobalThread(p)
  BY <1>9, UseGlobalThreadEffect DEF Fine, UseGlobalThread
<1>10. CASE Compensate(p)
  BY <1>10, CompensateEffect DEF Fine, Compensate
<1>11. CASE Trusted(p)
  BY <1>11, TrustedEffect DEF Fine, Trusted
<1>12. CASE ArchiveThread(p)
  BY <1>12, ArchiveThreadEffect DEF Fine, ArchiveThread
<1>13. CASE ClearThread(p)
  BY <1>13, ClearThreadEffect DEF Fine, ClearThread
<1>14. CASE Scan(p)
  BY <1>14, ScanEffect DEF Fine, Scan
<1>15. CASE Fill(p)
  BY <1>15, FillEffect DEF Fine, Fill
<1>16. CASE SelectThread(p)
  BY <1>16, SelectThreadEffect DEF Fine
<1> QED
  BY <1>1, <1>2, <1>3, <1>4, <1>5, <1>6, <1>7, <1>8, <1>9, <1>10, <1>11, <1>12, <1>13, <1>14, <1>15, <1>16 DEF Operation

LEMMA WorkEffect ==
    ASSUME TInv, NEW p \in Procs, Work(p)
    PROVE  Fine(p)
<1>1. CASE Capture(p)
  BY <1>1, CaptureEffect DEF Fine, Capture
<1>2. CASE Begin(p)
  BY <1>2, BeginEffect DEF Fine, Begin
<1>3. CASE Open(p)
  BY <1>3, OpenEffect DEF Fine, Open
<1>4. CASE Resume(p)
  BY <1>4, ResumeEffect DEF Fine, Resume
<1>5. CASE Bind(p)
  BY <1>5, BindEffect DEF Fine, Bind
<1>6. CASE Attach(p)
  BY <1>6, AttachEffect DEF Fine, Attach
<1>7. CASE Finish(p)
  BY <1>7, FinishEffect DEF Fine, Finish
<1> QED
  BY <1>1, <1>2, <1>3, <1>4, <1>5, <1>6, <1>7 DEF Work

LEMMA OpeningEffect ==
    ASSUME TInv, NEW p \in Procs, Opening(p)
    PROVE  Fine(p)
<1>1. ASSUME NEW t \in Threads, StartThread(p, t) PROVE Fine(p)
  BY <1>1, StartThreadEffect DEF Fine, StartThread
<1>2. CASE StartFails(p)
  BY <1>2, StartFailsEffect DEF Fine, StartFails
<1>3. CASE SetThreadName(p)
  BY <1>3, SetThreadNameEffect DEF Fine, SetThreadName
<1>4. CASE Unname(p)
  BY <1>4, UnnameEffect DEF Fine, Unname
<1>5. CASE Invalidate(p)
  BY <1>5, InvalidateEffect DEF Fine, Invalidate
<1> QED
  BY <1>1, <1>2, <1>3, <1>4, <1>5 DEF Opening

LEMMA NextSteps ==
    ASSUME TInv, Next
    PROVE  Expire \/ Crash \/ \E p \in Procs : Fine(p)
<1>1. Callers \subseteq Procs /\ Runners \subseteq Procs
  BY DEF Procs
<1> QED
  BY <1>1, OperationEffect, WorkEffect, OpeningEffect DEF Next

\* The entry expires, or nothing happens.
LEMMA SameButCache ==
    ASSUME TInv, UNCHANGED <<sel, rev, native, catRev, pc, loc, adm, moved, stray, unseen>>,
           cache' = cache \/ cache' = None
    PROVE  TInv'
<1>1. Types'
  BY DEF TInv, Types
<1>2. SelOK'
  BY DEF TInv, SelOK, Intent
<1>3. Exclusive'
  BY DEF TInv, Exclusive, Pinned
<1>4. CacheOK'
  <2>1. \A p \in Procs, t \in Threads : Changing(p, t)' <=> Changing(p, t)
    BY DEF Changing
  <2>2. \A t \in Threads : View(t)' = View(t)
    BY DEF View
  <2>3. \A p \in Procs : Current(loc[p].scan)' <=> Current(loc[p].scan)
    BY <2>1, <2>2 DEF Current
  <2>4. cache' # None /\ Current(cache) => Current(cache)'
    BY <2>1, <2>2 DEF Current
  <2> QED
    BY <2>3, <2>4 DEF TInv, CacheOK
<1>5. ASSUME NEW p \in Procs PROVE ProcOK(p)'
  <2>1. ProcOK(p)
    BY DEF TInv
  <2>2. (Working(p)' <=> Working(p)) /\ (Pinned(p)' <=> Pinned(p))
    BY DEF Working, Pinned
  <2>3. KindOK(p)' /\ ThreadOK(p)' /\ HoldOK(p)' /\ StaleOK(p)'
    BY <2>1, <2>2 DEF ProcOK, KindOK, ThreadOK, HoldOK, StaleOK
  <2>4. WorkOK(p)'
    BY <2>1, <2>2 DEF ProcOK, WorkOK, Intent
  <2> QED
    BY <2>3, <2>4 DEF ProcOK
<1>6. ASSUME NEW t \in Threads PROVE OwnedOK(t)'
  BY DEF TInv, OwnedOK, Owns, Intent
<1> QED
  BY <1>1, <1>2, <1>3, <1>4, <1>5, <1>6 DEF TInv

\* After a crash nobody has anything in hand; what a process had made is noted.
LEMMA CrashKeeps ==
    ASSUME TInv, Crash
    PROVE  TInv'
<1>1. /\ sel' = sel /\ native' = native /\ unseen' = unseen /\ rev' = 0 /\ catRev' = 0 /\ cache' = None
      /\ pc' = [p \in Procs |-> "idle"] /\ loc' = [p \in Procs |-> NoLocal]
      /\ adm' = [p \in Procs |-> NoAdmission] /\ moved' = [p \in Procs |-> FALSE]
      /\ stray' = stray \cup (Threads \cap {loc[p].thread : p \in Procs})
  BY DEF Crash
<1>2. \A p \in Procs : pc'[p] = "idle" /\ loc'[p] = NoLocal /\ adm'[p] = NoAdmission
  BY <1>1
<1>3. Types'
  <2>1. "idle" \in Labels
    BY DEF Labels
  <2>2. /\ pc' \in [Procs -> Labels] /\ loc' \in [Procs -> Local] /\ adm' \in [Procs -> Admission]
        /\ moved' \in [Procs -> BOOLEAN]
    BY <1>1, <2>1, ConstantTypes
  <2> QED
    BY <1>1, <2>2 DEF TInv, Types
<1>4. SelOK'
  BY <1>1 DEF TInv, SelOK, Intent
<1>5. Exclusive'
  BY <1>2, ConstantTypes DEF Exclusive
<1>6. CacheOK'
  BY <1>1, <1>2, ConstantTypes DEF CacheOK
<1>7. ASSUME NEW p \in Procs PROVE ProcOK(p)'
  BY <1>2, ConstantTypes DEF ProcOK, KindOK, ThreadOK, WorkOK, HoldOK, StaleOK, Working, Pinned
<1>8. ASSUME NEW t \in Threads PROVE OwnedOK(t)'
  <2>1. OwnedOK(t)
    BY DEF TInv
  <2>2. (\E p \in Procs : Owns(p, t)) => t \in stray'
    BY <1>1 DEF Owns
  <2> QED
    BY <1>1, <2>1, <2>2 DEF OwnedOK, Intent
<1> QED
  BY <1>3, <1>4, <1>5, <1>6, <1>7, <1>8 DEF TInv

LEMMA TargetsInit ==
    ASSUME Init
    PROVE  TInv
<1>1. /\ sel = [known |-> FALSE, ws |-> Default, cur |-> [w \in Workspaces |-> None],
                intents |-> [i \in Intents |-> NoIntent]]
      /\ stray \subseteq Threads /\ unseen = {} /\ cache = None /\ rev = 0 /\ catRev = 0
      /\ native = [t \in Threads |-> IF t \in stray THEN [state |-> "open", ws |-> Default]
                                     ELSE [state |-> "absent", ws |-> None]]
      /\ \A p \in Procs : pc[p] = "idle" /\ loc[p] = NoLocal /\ adm[p] = NoAdmission
  BY DEF Init
<1>2. Default \in Workspaces /\ None \notin Workspaces
  BY TargetAssumption
<1>3. /\ \A w \in Workspaces : sel.cur[w] = None
      /\ \A i \in Intents : Intent(i).ws = None /\ Intent(i).thread = None
      /\ sel \in Selection
  BY <1>1, <1>2 DEF Selection, Intent, NoIntent
<1>4. /\ \A t \in Threads : t \in stray \/ native[t].state = "absent"
      /\ \A t \in Threads : native[t].state # "absent" => native[t].ws # None
      /\ native \in [Threads -> [state: States, ws: Workspaces \cup {None}]]
  BY <1>1, <1>2 DEF States
<1>5. Types
  <2>1. "idle" \in Labels
    BY DEF Labels
  <2>2. /\ pc \in [Procs -> Labels] /\ loc \in [Procs -> Local] /\ adm \in [Procs -> Admission]
        /\ moved \in [Procs -> BOOLEAN]
    BY <2>1, ConstantTypes DEF Init
  <2> QED
    BY <1>1, <1>3, <1>4, <2>2 DEF Types
<1>6. SelOK
  BY <1>3, <1>4 DEF SelOK
<1>7. Exclusive
  BY <1>1, ConstantTypes DEF Exclusive
<1>8. CacheOK
  BY <1>1, ConstantTypes DEF CacheOK
<1>9. ASSUME NEW p \in Procs PROVE ProcOK(p)
  BY <1>1, ConstantTypes DEF ProcOK, KindOK, ThreadOK, WorkOK, HoldOK, StaleOK, Working, Pinned
<1>10. \A t \in Threads : OwnedOK(t)
  BY <1>4 DEF OwnedOK, Listed
<1> QED
  BY <1>5, <1>6, <1>7, <1>8, <1>9, <1>10 DEF TInv

LEMMA TargetsStep ==
    ASSUME TInv, [Next]_vars
    PROVE  TInv'
<1>1. CASE Expire
  BY <1>1, SameButCache DEF Expire, store, bounds
<1>2. CASE Crash
  BY <1>2, CrashKeeps
<1>3. ASSUME NEW p \in Procs, Fine(p) PROVE TInv'
  BY <1>3, InvariantFromEffect DEF Fine
<1>4. CASE UNCHANGED vars
  BY <1>4, SameButCache DEF vars
<1> QED
  BY <1>1, <1>2, <1>3, <1>4, NextSteps

-----------------------------------------------------------------------------
(* Theorems *)

\* The inductive invariant holds in every reachable state.
THEOREM TargetsInvariant == Spec => []TInv
<1>1. Init => TInv
  BY TargetsInit
<1>2. TInv /\ [Next]_vars => TInv'
  BY TargetsStep
<1> QED
  BY <1>1, <1>2, PTL DEF Spec

\* The store, Codex's threads and the cache have their types, and the
\* selection of every workspace is an intent of that workspace, whatever the
\* callers, the requests and the crashes do (validate in the target store).
THEOREM TargetsTypes == Spec => []TypeOK
<1>1. TInv => TypeOK
  BY DEF TInv, Types, SelOK, Selection, TypeOK, Intent
<1> QED
  BY <1>1, TargetsInvariant, PTL

\* A request works in the workspace and on the intent it was accepted for,
\* however many callers select, create, clear and archive meanwhile.
THEOREM ConversationKept == Spec => []WorkKeepsItsConversation
<1>1. ASSUME TInv PROVE WorkKeepsItsConversation
  <2> SUFFICES ASSUME NEW r \in Runners, pc[r] \in {"attach", "resume", "turn"}
               PROVE  /\ sel.intents[loc[r].intent] = [ws |-> loc[r].ws, thread |-> loc[r].thread]
                      /\ native[loc[r].thread].ws = loc[r].ws
    BY DEF WorkKeepsItsConversation
  <2>1. r \in Procs
    BY DEF Procs
  <2>2. Working(r)
    BY <1>1, <2>1 DEF TInv, ProcOK, KindOK, Working
  <2>3. /\ loc[r].intent \in Intents /\ Intent(loc[r].intent).ws = loc[r].ws
        /\ Intent(loc[r].intent).thread = loc[r].thread /\ native[loc[r].thread].ws = loc[r].ws
    BY <1>1, <2>1, <2>2, WorkFacts DEF WorkOK
  <2>4. Intent(loc[r].intent) \in [ws: Workspaces \cup {None}, thread: Threads \cup {None}]
    BY <1>1, <2>3 DEF TInv, Types, Selection, Intent
  <2> QED
    BY <2>3, <2>4 DEF Intent
<1> QED
  BY <1>1, TargetsInvariant, PTL

\* A thread that a request was admitted with is not archived by the service
\* between the look at the directory and the end of the turn.
THEOREM NotArchivedUnderWork == Spec => []NoRevival
<1>1. ASSUME TInv PROVE NoRevival
  BY <1>1 DEF TInv, ProcOK, HoldOK, NoRevival, Procs
<1> QED
  BY <1>1, TargetsInvariant, PTL

\* A thread the service made is an intent's, archived again, still in the
\* hands of an operation, or was left by a failed call or a crash.
THEOREM ThreadsOwned == Spec => []NoOrphan
<1>1. ASSUME TInv PROVE NoOrphan
  BY <1>1 DEF TInv, OwnedOK, Owns, Intent, NoOrphan
<1> QED
  BY <1>1, TargetsInvariant, PTL

\* A cached page shows a thread as Codex has it, but for a change that is yet
\* to invalidate or whose call reported an error.
THEOREM CacheIsCurrent == Spec => []CacheFollowsChanges
<1>1. ASSUME TInv PROVE CacheFollowsChanges
  BY <1>1 DEF TInv, CacheOK, Current, View, Changing, CacheFollowsChanges
<1> QED
  BY <1>1, TargetsInvariant, PTL

\* Select and Create never write over a selection made after their snapshot:
\* the commit compares revisions, and the revision has counted every change.
THEOREM SelectionsFresh == Spec => NoStaleSelection
<1>1. ASSUME TInv, [Next]_vars, NEW p \in Callers, pc[p] = "commit", pc'[p] = "idle", sel' # sel
      PROVE  ~ moved[p]
  <2>1. p \in Procs
    BY DEF Procs
  <2>2. ~ Expire /\ ~ Crash /\ ~ UNCHANGED vars
    BY <1>1 DEF Expire, Crash, vars, store
  <2>3. PICK q \in Procs : Fine(q)
    BY <1>1, <2>2, NextSteps
  <2>4. q = p
    BY <1>1, <2>1, <2>3 DEF Fine, Effect, Others
  <2>5. SelectThread(p)
    BY <1>1, <2>3, <2>4 DEF Fine
  <2>6. Unchanged(p)
    BY <1>1, <2>5 DEF SelectThread, store
  <2>7. loc[p].expected.rev = rev
    BY <1>1, <2>6, SnapshotType DEF Unchanged
  <2>8. loc[p].kind \in {"select", "create"} /\ StaleOK(p) /\ rev \in Nat
    BY <1>1, <2>1 DEF TInv, Types, ProcOK, KindOK
  <2> QED
    BY <2>7, <2>8 DEF StaleOK
<1>2. TInv /\ [Next]_vars =>
        [\A p \in Callers : pc[p] = "commit" /\ pc'[p] = "idle" /\ sel' # sel => ~ moved[p]]_vars
  BY <1>1
<1> QED
  BY <1>2, TargetsInvariant, PTL DEF Spec, NoStaleSelection

=============================================================================
