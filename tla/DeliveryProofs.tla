---------------------------- MODULE DeliveryProofs ----------------------------
(***************************************************************************)
(* Results and notices for every number of requests, files, pages, images  *)
(* and notices, and every bound: what a delivery concludes is what the     *)
(* user sees, and a notice is kept until it was seen, and seen once.       *)
(*                                                                         *)
(* Notices and results share nothing but the step that defers a notice.    *)
(* NInv ties the notice store to what the user was told; JobOK says of one *)
(* result what its report stands for while it goes out.                    *)
(***************************************************************************)
EXTENDS Delivery, FiniteSetTheorems, TLAPS

-----------------------------------------------------------------------------
(* Notices: the inductive invariant                                          *)

Numbers ==
    /\ now \in Nat /\ drawn \in Nat /\ drawn <= MaxNotices
    /\ told \in [1..MaxNotices -> Nat]
    /\ flush \in [Flushers -> [pc : {"idle", "list", "send", "complete"}, list : SUBSET (1..MaxNotices)]]

\* Memory is what the table holds: notices that were accepted, each with an
\* identifier of its own.
Accepted ==
    /\ mem = disk /\ mem \subseteq given
    /\ \A n \in given : n.id \in 1..drawn /\ n.expires \in Nat
    /\ \A n, m \in given : n.id = m.id => n = m

\* One flush at a time has the notices in hand.
Busy(f) == flush[f].pc # "idle"

OneFlush ==
    /\ \A f \in Flushers : Busy(f) => sending
    /\ \A f, g \in Flushers : Busy(f) /\ Busy(g) => f = g
    /\ \A f \in Flushers : flush[f].pc \in {"idle", "list"} => flush[f].list = {}
    /\ \A f \in Flushers : flush[f].list \subseteq 1..drawn
    /\ \A f \in Flushers : flush[f].pc = "complete" => flush[f].list \subseteq tried

\* A notice the user has seen is gone, or about to be removed; one that is
\* being sent was not seen.  Not so if a completion was lost.
Completing(n) == \E f \in Flushers : flush[f].pc = "complete" /\ n \in flush[f].list

Told ==
    /\ \A n \in 1..MaxNotices : told[n] > 0 /\ n \notin unsettled =>
          told[n] = 1 /\ n <= drawn /\ (n \in Ids(mem) => Completing(n))
    /\ \A f \in Flushers : flush[f].pc = "send" =>
          \A n \in flush[f].list : told[n] = 0 \/ n \in unsettled

NInv == Numbers /\ Accepted /\ OneFlush /\ Told /\ NoticeKept

-----------------------------------------------------------------------------
(* Steps of a flush                                                          *)

\* A step that leaves the notices, and their delivery, alone.
LEMMA NoticesAlone ==
    ASSUME NInv, UNCHANGED <<mem, disk, drawn, given, sending, flush, told, tried, unsettled>>,
           now' \in Nat, now <= now'
    PROVE  NInv'
<1> USE DEF NInv
<1>1. Numbers' /\ Accepted' /\ OneFlush'
  BY DEF Numbers, Accepted, OneFlush, Busy
<1>2. Told'
  BY DEF Told, Completing, Ids
<1>3. NoticeKept'
  BY DEF NoticeKept, Ids, Accepted, Numbers
<1> QED
  BY <1>1, <1>2, <1>3

LEMMA StartFlushKeeps ==
    ASSUME NInv, NEW f \in Flushers, StartFlush(f)
    PROVE  NInv'
<1> USE DEF NInv
<1>1. /\ flush[f].pc = "idle" /\ ~ sending /\ sending' = TRUE /\ flush' = [flush EXCEPT ![f].pc = "list"]
      /\ UNCHANGED <<mem, disk, drawn, given, told, tried, unsettled, now>>
  BY DEF StartFlush, Enter, notices, bounds
<1>2. /\ flush' \in [Flushers -> [pc : {"idle", "list", "send", "complete"}, list : SUBSET (1..MaxNotices)]]
      /\ flush'[f].pc = "list" /\ flush'[f].list = flush[f].list
      /\ \A g \in Flushers \ {f} : flush'[g] = flush[g]
  BY <1>1 DEF Numbers
<1>3. \A g \in Flushers : flush[g].pc = "idle"
  BY <1>1 DEF OneFlush, Busy
<1>4. Numbers' /\ Accepted'
  BY <1>1, <1>2 DEF Numbers, Accepted
<1>5. OneFlush'
  BY <1>1, <1>2, <1>3 DEF OneFlush, Busy
<1>6. Told'
  <2>1. \A n : ~ Completing(n)
    BY <1>3 DEF Completing
  <2> QED
    BY <1>1, <1>2, <1>3, <2>1 DEF Told, Ids, Completing
<1>7. NoticeKept'
  BY <1>1 DEF NoticeKept, Ids
<1> QED
  BY <1>4, <1>5, <1>6, <1>7

\* The flush is over.
LEMMA StopsFlush ==
    ASSUME NInv, NEW f \in Flushers, Busy(f), Stops(f), drawn' = drawn, tried \subseteq tried'
    PROVE  /\ flush' \in [Flushers -> [pc : {"idle", "list", "send", "complete"}, list : SUBSET (1..MaxNotices)]]
           /\ \A g \in Flushers : flush'[g].pc = "idle" /\ flush'[g].list = {}
           /\ OneFlush'
<1> USE DEF NInv
<1>1. flush' = [flush EXCEPT ![f] = Idle]
  BY DEF Stops
<1>2. \A g \in Flushers \ {f} : flush[g].pc = "idle" /\ flush[g].list = {}
  BY DEF OneFlush, Busy
<1>3. Idle \in [pc : {"idle", "list", "send", "complete"}, list : SUBSET (1..MaxNotices)]
      /\ Idle.pc = "idle" /\ Idle.list = {}
  BY DEF Idle
<1>4. /\ flush' \in [Flushers -> [pc : {"idle", "list", "send", "complete"}, list : SUBSET (1..MaxNotices)]]
      /\ flush'[f] = Idle /\ \A g \in Flushers \ {f} : flush'[g] = flush[g]
  BY <1>1, <1>3 DEF Numbers
<1>5. \A g \in Flushers : flush'[g].pc = "idle" /\ flush'[g].list = {}
  BY <1>2, <1>3, <1>4
<1>6. OneFlush'
  BY <1>5 DEF OneFlush, Busy
<1> QED
  BY <1>4, <1>5, <1>6

\* A save of some of the notices; those that go have expired or been tried.
LEMMA SavedNotices ==
    ASSUME NInv, NEW s, s \subseteq mem, Save(s), given' = given, drawn' = drawn, tried \subseteq tried',
           \A n \in mem \ s : n.expires <= now \/ n.id \in tried
    PROVE  Accepted' /\ NoticeKept'
<1> USE DEF NInv
<1>1. mem' = s /\ disk' = s /\ now' = now
  BY DEF Save, bounds
<1>2. Accepted'
  BY <1>1 DEF Accepted
<1>3. NoticeKept'
  <2> SUFFICES ASSUME NEW n \in given PROVE n.id \in Ids(s) \/ n.id \in tried' \/ n.expires <= now
    BY <1>1 DEF NoticeKept
  <2>1. CASE n.id \in Ids(disk)
    <3>1. PICK m \in mem : m.id = n.id
      BY <2>1 DEF Ids, Accepted
    <3>2. m = n
      BY <3>1 DEF Accepted
    <3> QED
      BY <3>1, <3>2 DEF Ids
  <2> QED
    BY <2>1 DEF NoticeKept
<1> QED
  BY <1>2, <1>3

LEMMA LiveNotices ==
    /\ Live(mem) \subseteq mem
    /\ NInv => \A n \in mem \ Live(mem) : n.expires <= now
BY DEF Live, NInv, Accepted, Numbers

\* Nothing is being completed, and less is stored.
LEMMA ToldKept ==
    ASSUME NInv, \A f \in Flushers : flush[f].pc # "complete" /\ flush'[f].pc # "send",
           UNCHANGED <<told, unsettled>>, drawn' = drawn, mem' \subseteq mem
    PROVE  Told'
<1>1. \A n : ~ Completing(n)
  BY DEF Completing
<1> QED
  BY <1>1 DEF NInv, Told, Ids

LEMMA ListKeeps ==
    ASSUME NInv, NEW f \in Flushers, List(f)
    PROVE  NInv'
<1> USE DEF NInv
<1>1. flush[f].pc = "list" /\ Busy(f) /\ UNCHANGED <<drawn, given, told, tried, unsettled>>
  BY DEF List, Busy
<1>2. \A g \in Flushers : flush[g].pc # "complete" /\ (g # f => flush[g].pc = "idle")
  BY <1>1 DEF OneFlush, Busy
<1>3. CASE Live(mem) = {} /\ Save(Live(mem)) /\ Stops(f)
  <2>1. Accepted' /\ NoticeKept'
    BY <1>1, <1>3, LiveNotices, SavedNotices
  <2>2. mem' = Live(mem) /\ now' = now
    BY <1>3 DEF Save, bounds
  <2>3. OneFlush' /\ Numbers'
    BY <1>1, <1>3, <2>2, StopsFlush DEF Numbers
  <2>4. Told'
    BY <1>1, <1>2, <1>3, <2>2, LiveNotices, StopsFlush, ToldKept
  <2> QED
    BY <2>1, <2>3, <2>4
<1>4. CASE SaveFails /\ Stops(f)
  <2>1. UNCHANGED <<mem, disk, now>>
    BY <1>4 DEF SaveFails, Fault
  <2>2. Accepted' /\ NoticeKept'
    BY <1>1, <2>1 DEF Accepted, NoticeKept, Ids
  <2>3. OneFlush' /\ Numbers'
    BY <1>1, <1>4, <2>1, StopsFlush DEF Numbers
  <2>4. Told'
    BY <1>1, <1>2, <1>4, <2>1, StopsFlush, ToldKept
  <2> QED
    BY <2>2, <2>3, <2>4
<1>5. CASE Save(Live(mem)) /\ UNCHANGED sending /\ \E head \in Oldest(Live(mem), Limit) :
                flush' = [flush EXCEPT ![f] = [pc |-> "send", list |-> Ids(head)]]
  <2>1. Accepted' /\ NoticeKept'
    BY <1>1, <1>5, LiveNotices, SavedNotices
  <2>2. mem' = Live(mem) /\ now' = now /\ sending' = sending
    BY <1>5 DEF Save, bounds
  <2>3. PICK head \in SUBSET mem : flush' = [flush EXCEPT ![f] = [pc |-> "send", list |-> Ids(head)]]
    BY <1>5 DEF Oldest, Live
  <2>4. Ids(head) \subseteq 1..drawn /\ Ids(head) \subseteq 1..MaxNotices /\ Ids(head) \subseteq Ids(mem)
    <3>1. drawn \in Nat /\ drawn <= MaxNotices /\ \A n \in head : n \in mem /\ n.id \in 1..drawn
      BY <2>3 DEF Accepted, Numbers
    <3>2. \A n \in head : n.id \in 1..MaxNotices
      BY <3>1, DeliveryAssumption
    <3> QED
      BY <3>1, <3>2 DEF Ids
  <2>5. /\ flush' \in [Flushers -> [pc : {"idle", "list", "send", "complete"}, list : SUBSET (1..MaxNotices)]]
        /\ flush'[f].pc = "send" /\ flush'[f].list = Ids(head)
        /\ \A g \in Flushers \ {f} : flush'[g] = flush[g]
    BY <2>3, <2>4 DEF Numbers
  <2>6. Numbers'
    BY <1>1, <2>2, <2>5 DEF Numbers
  <2>7. OneFlush'
    BY <1>1, <1>2, <2>2, <2>4, <2>5 DEF OneFlush, Busy
  <2>8. Told'
    <3>1. \A n : ~ Completing(n)
      BY <1>2 DEF Completing
    <3>2. Ids(mem') \subseteq Ids(mem)
      BY <2>2, LiveNotices DEF Ids
    <3>3. \A n \in Ids(head) : told[n] = 0 \/ n \in unsettled
      BY <2>4, <3>1 DEF Told, Numbers
    <3> QED
      BY <1>1, <1>2, <2>5, <3>1, <3>2, <3>3 DEF Told
  <2> QED
    BY <2>1, <2>6, <2>7, <2>8
<1> QED
  BY <1>3, <1>4, <1>5 DEF List

LEMMA SendDigestKeeps ==
    ASSUME NInv, NEW f \in Flushers, SendDigest(f)
    PROVE  NInv'
<1> USE DEF NInv
<1>1. PICK w \in Wire, v \in BOOLEAN :
          /\ v \in Visible(w)
          /\ told' = [n \in DOMAIN told |-> IF v /\ n \in flush[f].list THEN told[n] + 1 ELSE told[n]]
          /\ IF w = "ok" \/ MayBeVisible(w)
             THEN /\ flush' = [flush EXCEPT ![f].pc = "complete"] /\ UNCHANGED sending
                  /\ tried' = tried \cup flush[f].list
             ELSE Stops(f) /\ UNCHANGED tried
  BY DEF SendDigest, Visible
<1>2. flush[f].pc = "send" /\ Busy(f) /\ UNCHANGED <<mem, disk, drawn, given, unsettled, now>>
  BY DEF SendDigest, Busy, notices, bounds
<1>3. \A g \in Flushers : g # f => flush[g].pc = "idle"
  BY <1>2 DEF OneFlush, Busy
<1>4. \A n : ~ Completing(n)
  BY <1>2, <1>3 DEF Completing
<1>5. /\ told' \in [1..MaxNotices -> Nat]
      /\ \A n \in 1..MaxNotices : told'[n] = IF v /\ n \in flush[f].list THEN told[n] + 1 ELSE told[n]
  BY <1>1 DEF Numbers
<1>6. Accepted'
  BY <1>2 DEF Accepted
<1>7. tried \subseteq tried'
  BY <1>1
<1>8. NoticeKept'
  BY <1>2, <1>7 DEF NoticeKept, Ids
<1>9. CASE w = "ok" \/ MayBeVisible(w)
  <2>1. /\ flush' \in [Flushers -> [pc : {"idle", "list", "send", "complete"}, list : SUBSET (1..MaxNotices)]]
        /\ flush'[f].pc = "complete" /\ flush'[f].list = flush[f].list
        /\ \A g \in Flushers \ {f} : flush'[g] = flush[g]
    BY <1>1, <1>9 DEF Numbers
  <2>2. Numbers'
    BY <1>2, <1>5, <2>1 DEF Numbers
  <2>3. OneFlush'
    BY <1>1, <1>2, <1>3, <1>9, <2>1 DEF OneFlush, Busy
  <2>4. \A n \in flush[f].list : Completing(n)'
    BY <2>1 DEF Completing
  <2>5. flush[f].list \subseteq 1..drawn /\ \A n \in flush[f].list : told[n] = 0 \/ n \in unsettled
    BY <1>2 DEF Told, OneFlush
  <2>6. Told'
    <3>1. ASSUME NEW n \in 1..MaxNotices, told'[n] > 0, n \notin unsettled
          PROVE  told'[n] = 1 /\ n <= drawn /\ (n \in Ids(mem) => Completing(n)')
      <4>1. CASE n \in flush[f].list
        BY <1>5, <2>4, <2>5, <3>1, <4>1 DEF Numbers
      <4>2. CASE n \notin flush[f].list
        BY <1>4, <1>5, <3>1, <4>2 DEF Told
      <4> QED
        BY <4>1, <4>2
    <3>2. \A g \in Flushers : flush'[g].pc # "send"
      BY <1>3, <2>1
    <3> QED
      BY <1>2, <3>1, <3>2 DEF Told, Ids
  <2> QED
    BY <1>6, <1>8, <2>2, <2>3, <2>6
<1>10. CASE ~ (w = "ok" \/ MayBeVisible(w))
  <2>1. told' = told
    <3>1. v = FALSE
      BY <1>1, <1>10 DEF Visible, MayBeVisible, Wire
    <3> QED
      BY <1>1, <3>1 DEF Numbers
  <2>2. Stops(f) /\ tried' = tried
    BY <1>1, <1>10
  <2>3. OneFlush' /\ Numbers'
    BY <1>2, <1>5, <2>2, StopsFlush DEF Numbers
  <2>4. Told'
    BY <1>2, <1>3, <2>1, <2>2, StopsFlush, ToldKept
  <2> QED
    BY <1>6, <1>8, <2>3, <2>4
<1> QED
  BY <1>9, <1>10

LEMMA CompleteKeeps ==
    ASSUME NInv, NEW f \in Flushers, Complete(f)
    PROVE  NInv'
<1> USE DEF NInv
<1>1. /\ flush[f].pc = "complete" /\ Busy(f) /\ Stops(f) /\ UNCHANGED <<drawn, given, told, tried>>
  BY DEF Complete, Busy
<1>2. OneFlush' /\ (\A g \in Flushers : flush'[g].pc = "idle")
      /\ flush' \in [Flushers -> [pc : {"idle", "list", "send", "complete"}, list : SUBSET (1..MaxNotices)]]
  BY <1>1, StopsFlush
<1>3. \A n : Completing(n) => n \in flush[f].list
  BY <1>1 DEF Completing, OneFlush, Busy
<1>4. CASE Save(Completed(mem, flush[f].list)) /\ UNCHANGED unsettled
  <2>1. Accepted' /\ NoticeKept'
    <3>1. /\ Completed(mem, flush[f].list) \subseteq mem
          /\ \A n \in mem \ Completed(mem, flush[f].list) : n.id \in tried
      BY <1>1 DEF Completed, OneFlush
    <3> QED
      BY <1>1, <1>4, <3>1, SavedNotices
  <2>2. mem' = Completed(mem, flush[f].list) /\ now' = now
    BY <1>4 DEF Save, bounds
  <2>3. Numbers'
    BY <1>1, <1>2, <2>2 DEF Numbers
  <2>4. Ids(mem') \subseteq Ids(mem) \ flush[f].list
    BY <2>2 DEF Ids, Completed
  <2>5. Told'
    BY <1>1, <1>2, <1>3, <1>4, <2>4 DEF Told
  <2> QED
    BY <1>2, <2>1, <2>3, <2>5
<1>5. CASE SaveFails /\ unsettled' = unsettled \cup flush[f].list
  <2>1. UNCHANGED <<mem, disk, now>>
    BY <1>5 DEF SaveFails, Fault
  <2>2. Accepted' /\ NoticeKept' /\ Numbers'
    BY <1>1, <1>2, <2>1 DEF Accepted, NoticeKept, Ids, Numbers
  <2>3. Told'
    BY <1>1, <1>2, <1>3, <1>5, <2>1 DEF Told, Ids
  <2> QED
    BY <1>2, <2>2, <2>3
<1> QED
  BY <1>4, <1>5 DEF Complete

-----------------------------------------------------------------------------
(* The other steps                                                           *)

\* A new notice has an identifier nobody has seen.
LEMMA NewNotice ==
    ASSUME NInv, NEW k, drawn < MaxNotices, drawn' = drawn + 1,
           LET n == [id |-> drawn + 1, key |-> k, expires |-> now + TTL]
           IN Save(Live(mem) \cup {n}) /\ given' = given \cup {n},
           UNCHANGED <<sending, flush, told, tried, unsettled>>
    PROVE  NInv'
<1> USE DEF NInv
<1> DEFINE n == [id |-> drawn + 1, key |-> k, expires |-> now + TTL]
<1>1. mem' = Live(mem) \cup {n} /\ disk' = mem' /\ now' = now /\ given' = given \cup {n}
  BY DEF Save, bounds
<1>2. drawn \in Nat /\ n.id = drawn + 1 /\ n.expires \in Nat /\ drawn + 1 <= MaxNotices /\ MaxNotices \in Nat
  BY DeliveryAssumption DEF Numbers
<1> HIDE DEF n
<1>3. Numbers'
  BY <1>1, <1>2 DEF Numbers
<1>4. \A m \in given : m.id \in 1..drawn /\ m.expires \in Nat /\ m.id # n.id
  BY <1>2 DEF Accepted
<1>5. Accepted'
  <2>1. mem' \subseteq given'
    BY <1>1, LiveNotices DEF Accepted
  <2>2. \A m \in given' : m.id \in 1..drawn' /\ m.expires \in Nat
    BY <1>1, <1>2, <1>4
  <2>3. \A m, q \in given' : m.id = q.id => m = q
    BY <1>1, <1>4 DEF Accepted
  <2> QED
    BY <1>1, <2>1, <2>2, <2>3 DEF Accepted
<1>6. OneFlush'
  <2>1. 1..drawn \subseteq 1..drawn'
    BY <1>2
  <2> QED
    BY <2>1 DEF OneFlush, Busy
<1>7. Told'
  <2>1. Ids(mem') \subseteq Ids(mem) \cup {drawn + 1}
    BY <1>1, <1>2, LiveNotices DEF Ids
  <2>2. \A m : Completing(m) => Completing(m)'
    BY DEF Completing
  <2>3. \A m \in 1..MaxNotices : m <= drawn => m # drawn + 1 /\ m <= drawn + 1
    BY <1>2
  <2> QED
    BY <2>1, <2>2, <2>3 DEF Told
<1>8. NoticeKept'
  <2> SUFFICES ASSUME NEW m \in given' PROVE m.id \in Ids(mem') \/ m.id \in tried \/ m.expires <= now
    BY <1>1 DEF NoticeKept
  <2>1. CASE m = n
    BY <1>1, <2>1 DEF Ids
  <2>2. CASE m \in given /\ m.id \in Ids(disk)
    <3>1. m \in mem
      BY <2>2 DEF Ids, Accepted
    <3> QED
      BY <1>1, <3>1, LiveNotices DEF Ids
  <2> QED
    BY <1>1, <2>1, <2>2 DEF NoticeKept
<1> QED
  BY <1>3, <1>5, <1>6, <1>7, <1>8

LEMMA EnqueueKeeps ==
    ASSUME NInv, NEW j \in Jobs, Enqueue(j)
    PROVE  NInv'
<1> USE DEF NInv
<1>1. UNCHANGED <<sending, flush, told, tried, unsettled>>
  BY DEF Enqueue, digest
<1>2. CASE UNCHANGED <<drawn, given>> /\ Save(Live(mem))
  <2>1. Accepted' /\ NoticeKept'
    BY <1>1, <1>2, LiveNotices, SavedNotices
  <2>2. mem' \subseteq mem /\ now' = now
    BY <1>2, LiveNotices DEF Save, bounds
  <2>3. Numbers' /\ OneFlush'
    BY <1>1, <1>2, <2>2 DEF Numbers, OneFlush, Busy
  <2>4. Told'
    BY <1>1, <1>2, <2>2 DEF Told, Ids, Completing
  <2> QED
    BY <2>1, <2>3, <2>4
<1>3. CASE UNCHANGED <<drawn, given>> /\ SaveFails
  <2>1. UNCHANGED <<mem, disk, now>> /\ now \in Nat
    BY <1>3 DEF SaveFails, Fault, Numbers
  <2> QED
    BY <1>1, <1>3, <2>1, NoticesAlone
<1>4. CASE drawn < MaxNotices /\ drawn' = drawn + 1 /\ SaveFails /\ UNCHANGED given
  <2>1. UNCHANGED <<mem, disk, now>> /\ drawn \in Nat /\ MaxNotices \in Nat
    BY <1>4, DeliveryAssumption DEF SaveFails, Fault, Numbers
  <2>2. 1..drawn \subseteq 1..drawn' /\ drawn' \in Nat /\ drawn' <= MaxNotices
    BY <1>4, <2>1
  <2>3. Numbers' /\ Accepted' /\ OneFlush'
    BY <1>1, <1>4, <2>1, <2>2 DEF Numbers, Accepted, OneFlush, Busy
  <2>4. \A m \in 1..MaxNotices : m <= drawn => m <= drawn'
    BY <1>4, <2>1
  <2>5. Told'
    BY <1>1, <2>1, <2>4 DEF Told, Ids, Completing
  <2>6. NoticeKept'
    BY <1>1, <1>4, <2>1 DEF NoticeKept, Ids
  <2> QED
    BY <2>3, <2>5, <2>6
<1>5. CASE /\ drawn < MaxNotices /\ drawn' = drawn + 1
           /\ LET n == [id |-> drawn + 1, key |-> Key(j), expires |-> now + TTL]
              IN Save(Live(mem) \cup {n}) /\ given' = given \cup {n}
  BY <1>1, <1>5, NewNotice
<1> QED
  BY <1>2, <1>3, <1>4, <1>5 DEF Enqueue

LEMMA CrashKeeps ==
    ASSUME NInv, Crash
    PROVE  NInv'
<1> USE DEF NInv
<1>1. /\ mem' = mem /\ disk' = disk /\ now' = now /\ UNCHANGED <<drawn, given, told, tried>>
      /\ flush' = [f \in Flushers |-> Idle]
      /\ unsettled' = unsettled \cup UNION {flush[f].list : f \in Flushers}
  BY DEF Crash, Fault, Accepted
<1>2. Idle \in [pc : {"idle", "list", "send", "complete"}, list : SUBSET (1..MaxNotices)]
      /\ Idle.pc = "idle" /\ Idle.list = {}
  BY DEF Idle
<1>3. Numbers' /\ Accepted' /\ OneFlush' /\ NoticeKept'
  BY <1>1, <1>2 DEF Numbers, Accepted, OneFlush, Busy, NoticeKept, Ids
<1>4. Told'
  <2>1. \A n : Completing(n) => n \in unsettled'
    BY <1>1 DEF Completing
  <2> QED
    BY <1>1, <1>2, <2>1 DEF Told, Ids
<1> QED
  BY <1>3, <1>4

LEMMA NoticeStep ==
    ASSUME NInv, [Next]_vars
    PROVE  NInv'
<1>1. now \in Nat
  BY DEF NInv, Numbers
<1>2. ASSUME NEW j \in Jobs, Deliver(j), ~ Enqueue(j)
      PROVE  UNCHANGED <<mem, disk, drawn, given, sending, flush, told, tried, unsettled, now>>
  BY <1>2 DEF Deliver, Begin, SendFile, SendPage, SendCards, SendVoice, SendBatch, SendFallback, SendImage,
              SendHeading, Conclude, Notify, Quietly, notices, digest, bounds, Fault
<1>3. ASSUME NEW j \in Jobs, Deliver(j) PROVE NInv'
  BY <1>1, <1>2, <1>3, EnqueueKeeps, NoticesAlone
<1>4. ASSUME NEW f \in Flushers, Flush(f) PROVE NInv'
  BY <1>4, StartFlushKeeps, ListKeeps, SendDigestKeeps, CompleteKeeps DEF Flush
<1>5. CASE Tick
  BY <1>1, <1>5, NoticesAlone DEF Tick, notices, digest
<1>6. CASE UNCHANGED vars
  BY <1>1, <1>6, NoticesAlone DEF vars
<1> QED
  BY <1>3, <1>4, <1>5, <1>6, CrashKeeps DEF Next

\* The notice store, the flush that has notices in hand and what the user was
\* told agree at all times.
THEOREM NoticeInvariant == Spec => []NInv
<1>1. Init => NInv
  <2> SUFFICES ASSUME Init PROVE NInv
    OBVIOUS
  <2>1. Idle \in [pc : {"idle", "list", "send", "complete"}, list : SUBSET (1..MaxNotices)]
        /\ Idle.pc = "idle" /\ Idle.list = {}
    BY DEF Idle
  <2>2. Numbers /\ Accepted /\ OneFlush
    BY <2>1, DeliveryAssumption DEF Init, Numbers, Accepted, OneFlush, Busy
  <2>3. Told /\ NoticeKept
    BY <2>1 DEF Init, Told, NoticeKept, Ids
  <2> QED
    BY <2>2, <2>3 DEF NInv
<1>2. NInv /\ [Next]_vars => NInv'
  BY NoticeStep
<1> QED
  BY <1>1, <1>2, PTL DEF Spec

\* NoticeStore never loses a notice it accepted (Enqueue, List, Complete,
\* saveLocked), whatever other notices do and whenever the process dies.
THEOREM NoticesKept == Spec => []NoticeKept
BY NoticeInvariant, PTL DEF NInv

\* flushPendingNotices shows a notice once, unless its completion was lost.
THEOREM NoticesSeenOnce == Spec => []NoticeSeenOnce
<1>1. NInv => NoticeSeenOnce
  BY DEF NInv, Numbers, Told, NoticeSeenOnce
<1> QED
  BY <1>1, NoticeInvariant, PTL

-----------------------------------------------------------------------------
(* Results: what the report of a result stands for                           *)

Parts == {"file", "image", "heading", "brief", "pages", "cards", "voice", "text"}
Batches == {"cards", "voice"}
Whole == {"pages", "cards", "voice"}
JobType ==
    [pc : {"idle", "files", "body", "fallback", "images", "heading", "verdict", "defer"},
     form : Forms \cup {"none"}, first : BOOLEAN, left : Nat, media : Nat, text : BOOLEAN,
     failed : BOOLEAN, may : BOOLEAN, seen : SUBSET (Parts \X Nat),
     reason : {"none", "error", "succeeded", "ambiguous", "explicit_failure"}]

\* The images of a result sent as files are its files and links.
Links(form) == IF form = "files" THEN Files + Images ELSE Images

\* Where a result of each form may be.
PlaceOK(r) ==
    /\ r.pc \in {"idle", "defer"} => r.seen = {}
    /\ r.pc = "files" => r.form \in Whole /\ r.left \in 1..Files
    /\ r.pc = "body" => r.form \in Whole \cup {"brief"} /\ r.left \in 1..Length(r.form)
    /\ r.pc = "fallback" => r.form \in Batches
    /\ r.pc = "heading" => r.form = "files"
    /\ r.pc = "images" => r.form \in Whole \cup {"files"} /\ r.left \in 1..Links(r.form)
    /\ r.pc = "verdict" => r.form \in Forms
    /\ r.pc \in {"files", "heading", "fallback"} \/ (r.pc = "body" /\ r.form \in Batches) => ~ r.text

\* Whatever the user may have seen is accounted for: by the report, or by a
\* batch that is not over yet.
Begun(r) == r.pc = "body" /\ r.form \in Batches /\ r.left < Length(r.form)
AccountOK(r) == r.seen # {} => r.may \/ r.media > 0 \/ r.text \/ Begun(r)

\* The forms in which some of the body was seen.
SeenAs(r) == {f \in BodyForms : \E i \in Nat : <<f, i>> \in r.seen}
OneFormOK(r) ==
    /\ r.pc \in {"files", "heading", "fallback"} => SeenAs(r) = {}
    /\ r.pc = "body" => SeenAs(r) \subseteq {r.form} /\ (r.left = Length(r.form) => SeenAs(r) = {})
    /\ r.pc \in {"images", "verdict"} => \E f \in BodyForms : SeenAs(r) \subseteq {f}

\* While nothing has failed, all that went before was seen.
Some(kind, i, n, s) == \A k \in i..n : <<kind, k>> \in s
CompleteOK(r) ==
    ~ r.failed =>
        /\ r.pc = "files" => Some("file", r.left + 1, Files, r.seen)
        /\ r.pc \in {"body", "fallback", "images", "verdict"} /\ r.form \in Whole => Some("file", 1, Files, r.seen)
        /\ r.pc = "body" => Some(r.form, 1, Length(r.form) - r.left, r.seen)
        /\ r.pc \in {"images", "verdict"} /\ r.form # "files" => \E f \in BodyForms : Body(f) \subseteq r.seen
        /\ r.pc \in {"images", "verdict"} /\ r.form = "files" => <<"heading", 1>> \in r.seen
        /\ r.pc = "images" => Some("image", r.left + 1, Links(r.form), r.seen)
        /\ r.pc = "verdict" /\ r.form # "brief" => Some("image", 1, Links(r.form), r.seen)

JobOK(r) == r \in JobType /\ PlaceOK(r) /\ AccountOK(r) /\ OneFormOK(r) /\ CompleteOK(r)

JInv == job \in [Jobs -> JobType] /\ \A j \in Jobs : JobOK(job[j])

-----------------------------------------------------------------------------
(* Parts of a report                                                         *)

LEMMA Sizes ==
    /\ Files \in Nat \ {0} /\ Images \in Nat \ {0} /\ Pages \in Nat \ {0}
    /\ \A form : Length(form) \in Nat \ {0} /\ Links(form) \in Nat \ {0}
BY DeliveryAssumption DEF Length, Links

LEMMA WireFacts ==
    ASSUME NEW w \in MediaWire, NEW v \in Visible(w)
    PROVE  v \in BOOLEAN /\ (w = "ok" => v) /\ (v => w = "ok" \/ w = "lost") /\ (MayBeVisible(w) <=> w = "lost")
BY DEF MediaWire, Wire, Visible, MayBeVisible

LEMMA NoJobOK ==
    /\ NoJob \in JobType /\ NoJob.seen = {} /\ NoJob.pc = "idle" /\ ~ NoJob.failed /\ ~ NoJob.text
    /\ JobOK(NoJob)
    /\ \A reason \in {"error", "succeeded", "ambiguous", "explicit_failure"} : JobOK(Defer(reason))
<1>1. NoJob \in JobType /\ NoJob.seen = {} /\ NoJob.pc = "idle" /\ ~ NoJob.failed /\ ~ NoJob.text
  BY DEF NoJob, JobType
<1>2. JobOK(NoJob)
  BY <1>1 DEF JobOK, PlaceOK, AccountOK, OneFormOK, CompleteOK
<1>3. ASSUME NEW reason \in {"error", "succeeded", "ambiguous", "explicit_failure"} PROVE JobOK(Defer(reason))
  <2>1. Defer(reason) \in JobType /\ Defer(reason).seen = {} /\ Defer(reason).pc = "defer"
    BY DEF Defer, NoJob, JobType
  <2> QED
    BY <2>1 DEF JobOK, PlaceOK, AccountOK, OneFormOK, CompleteOK
<1> QED
  BY <1>1, <1>2, <1>3

\* The report p comes of the report r by one more message: the place and the
\* counts may differ, the rest is what Saw and Counted make of it.
Heard(r, p, w, v, part, beside) ==
    /\ p \in JobType /\ p.form = r.form
    /\ w = "ok" => p.failed = r.failed /\ p.may = r.may
    /\ w # "ok" => p.failed /\ (p.may <=> (r.may \/ w = "lost" \/ beside))
    /\ p.seen = IF v THEN r.seen \cup {part} ELSE r.seen

LEMMA SeenMore ==
    ASSUME NEW r, NEW q, NEW kind, NEW i, q.seen \subseteq r.seen \cup {<<kind, i>>}
    PROVE  /\ SeenAs(q) \subseteq SeenAs(r) \cup {kind}
           /\ kind \notin BodyForms => SeenAs(q) \subseteq SeenAs(r)
BY DEF SeenAs

\* One more at either end.
LEMMA SomeMore ==
    ASSUME NEW kind, NEW i \in Nat, NEW n \in Nat, NEW s, NEW t, s \subseteq t
    PROVE  /\ <<kind, i>> \in t /\ Some(kind, i + 1, n, s) => Some(kind, i, n, t)
           /\ <<kind, n + 1>> \in t /\ Some(kind, i, n, s) => Some(kind, i, n + 1, t)
<1>1. \A k \in i..n : k = i \/ k \in (i + 1)..n
  OBVIOUS
<1>2. \A k \in i..(n + 1) : k = n + 1 \/ k \in i..n
  OBVIOUS
<1> QED
  BY <1>1, <1>2 DEF Some

LEMMA FormNames ==
    /\ {"brief", "pages", "cards", "voice", "text"} \subseteq BodyForms
    /\ \A f \in BodyForms : f \in {"brief", "pages", "cards", "voice", "text"} /\ f \in Parts
    /\ {"brief", "pages", "cards", "voice", "files"} \subseteq Forms
BY DEF BodyForms, TextForms, Forms, Parts

\* The body is through: the image links follow, or the end.
LEMMA ToImagesOK ==
    ASSUME NEW q \in JobType, q.form \in Whole \cup {"brief"},
           q.seen # {} => q.may \/ q.media > 0 \/ q.text,
           \E f \in BodyForms : SeenAs(q) \subseteq {f},
           ~ q.failed => /\ q.form \in Whole => Some("file", 1, Files, q.seen)
                         /\ \E f \in BodyForms : Body(f) \subseteq q.seen
    PROVE  JobOK(ToImages(q))
<1> DEFINE p == ToImages(q)
<1>1. /\ p \in JobType /\ p.form = q.form /\ p.media = q.media /\ p.text = q.text
      /\ p.failed = q.failed /\ p.may = q.may /\ p.seen = q.seen
      /\ IF q.form = "brief" THEN p.pc = "verdict" ELSE p.pc = "images" /\ p.left = Images
  BY Sizes DEF ToImages, JobType
<1> HIDE DEF p
<1>2. q.form \in Forms /\ q.form # "files" /\ Links(q.form) = Images
  BY FormNames DEF Whole, Links
<1>3. PlaceOK(p)
  BY <1>1, <1>2, Sizes DEF PlaceOK, Batches
<1>4. AccountOK(p)
  BY <1>1 DEF AccountOK
<1>5. OneFormOK(p)
  BY <1>1 DEF OneFormOK, SeenAs
<1>6. CompleteOK(p)
  <2>1. \A s : Some("image", Images + 1, Images, s)
    BY Sizes DEF Some
  <2> QED
    BY <1>1, <1>2, <2>1 DEF CompleteOK, Whole
<1> QED
  BY <1>1, <1>3, <1>4, <1>5, <1>6 DEF JobOK, p

LEMMA ToBodyOK ==
    ASSUME NEW q \in JobType, q.form \in Whole \cup {"brief"}, ~ q.text,
           q.seen # {} => q.may \/ q.media > 0, SeenAs(q) = {},
           ~ q.failed /\ q.form \in Whole => Some("file", 1, Files, q.seen)
    PROVE  JobOK(ToBody(q))
<1> DEFINE p == ToBody(q)
<1>1. /\ p \in JobType /\ p.form = q.form /\ p.media = q.media /\ p.text = q.text
      /\ p.failed = q.failed /\ p.may = q.may /\ p.seen = q.seen
      /\ p.pc = "body" /\ p.left = Length(q.form)
  BY Sizes DEF ToBody, JobType
<1> HIDE DEF p
<1>2. PlaceOK(p)
  BY <1>1, Sizes DEF PlaceOK
<1>3. AccountOK(p)
  BY <1>1 DEF AccountOK
<1>4. OneFormOK(p)
  BY <1>1 DEF OneFormOK, SeenAs
<1>5. CompleteOK(p)
  <2>1. \A k, s : Some(k, 1, Length(q.form) - Length(q.form), s)
    BY Sizes DEF Some
  <2> QED
    BY <1>1, <2>1 DEF CompleteOK
<1> QED
  BY <1>1, <1>2, <1>3, <1>4, <1>5 DEF JobOK, p

-----------------------------------------------------------------------------
(* Steps of a result                                                         *)

LEMMA FileOK ==
    ASSUME NEW r, JobOK(r), r.pc = "files", NEW w \in MediaWire, NEW v \in Visible(w),
           NEW p, Heard(r, p, w, v, <<"file", r.left>>, r.media > 0),
           p.pc = "files", p.left = r.left - 1, ~ p.text, p.media = IF w = "ok" THEN r.media + 1 ELSE r.media
    PROVE  IF p.left = 0 THEN JobOK(ToBody(p)) ELSE JobOK(p)
<1>1. /\ r.form \in Whole /\ r.left \in 1..Files /\ r.media \in Nat
      /\ p \in JobType /\ p.form = r.form
  BY DEF JobOK, PlaceOK, JobType, Heard
<1>2. p.left \in 0..Files /\ p.left + 1 = r.left
  BY <1>1, Sizes
<1>3. p.seen # {} => p.may \/ p.media > 0
  <2>1. r.seen # {} => r.may \/ r.media > 0
    BY DEF JobOK, PlaceOK, AccountOK, Begun
  <2>2. CASE w = "ok"
    BY <1>1, <2>2
  <2>3. CASE w # "ok"
    <3>1. p.seen # {} => r.seen # {} \/ w = "lost"
      BY <2>3, WireFacts DEF Heard
    <3> QED
      BY <2>1, <2>3, <3>1 DEF Heard
  <2> QED
    BY <2>2, <2>3
<1>4. SeenAs(p) = {}
  <2>1. SeenAs(r) = {} /\ "file" \notin BodyForms
    BY FormNames DEF JobOK, OneFormOK
  <2>2. p.seen \subseteq r.seen \cup {<<"file", r.left>>}
    BY DEF Heard
  <2> QED
    BY <2>1, <2>2, SeenMore
<1>5. ~ p.failed => Some("file", p.left + 1, Files, p.seen)
  <2> SUFFICES ASSUME ~ p.failed PROVE Some("file", r.left, Files, p.seen)
    BY <1>2
  <2>1. p.seen = r.seen \cup {<<"file", r.left>>} /\ ~ r.failed
    BY WireFacts DEF Heard
  <2>2. Some("file", r.left + 1, Files, r.seen)
    BY <2>1 DEF JobOK, CompleteOK
  <2> QED
    <3>1. r.left \in Nat /\ Files \in Nat /\ r.seen \subseteq p.seen /\ <<"file", r.left>> \in p.seen
      BY <1>1, <2>1, Sizes
    <3> QED
      BY <2>2, <3>1, SomeMore
<1>6. CASE p.left = 0
  BY <1>1, <1>3, <1>4, <1>5, <1>6, ToBodyOK
<1>7. CASE p.left # 0
  <2>1. PlaceOK(p)
    BY <1>1, <1>2, <1>7, Sizes DEF PlaceOK
  <2>2. AccountOK(p) /\ OneFormOK(p) /\ CompleteOK(p)
    BY <1>3, <1>4, <1>5 DEF AccountOK, OneFormOK, CompleteOK
  <2> QED
    BY <1>1, <1>7, <2>1, <2>2 DEF JobOK
<1> QED
  BY <1>6, <1>7

\* The last message of the body, or the one with which it breaks off.
LEMMA BodyLast ==
    ASSUME NEW r, JobOK(r), r.pc = "body", NEW n, n = Length(r.form) - r.left + 1,
           NEW q \in JobType, q.form = r.form, q.seen \subseteq r.seen \cup {<<r.form, n>>},
           q.seen # {} => q.may \/ q.media > 0 \/ q.text,
           ~ q.failed => ~ r.failed /\ r.left = 1 /\ q.seen = r.seen \cup {<<r.form, n>>}
    PROVE  JobOK(ToImages(q))
<1>1. r.form \in Whole \cup {"brief"} /\ r.left \in 1..Length(r.form) /\ r.form \in BodyForms
  BY FormNames DEF JobOK, PlaceOK, Whole
<1>2. SeenAs(q) \subseteq {r.form}
  <2>1. SeenAs(r) \subseteq {r.form}
    BY DEF JobOK, OneFormOK
  <2>2. SeenAs(q) \subseteq SeenAs(r) \cup {r.form}
    BY DEF SeenAs
  <2> QED
    BY <2>1, <2>2
<1>3. ASSUME ~ q.failed
      PROVE  (q.form \in Whole => Some("file", 1, Files, q.seen)) /\ Body(r.form) \subseteq q.seen
  <2>1. (r.form \in Whole => Some("file", 1, Files, r.seen)) /\ Some(r.form, 1, Length(r.form) - r.left, r.seen)
    BY <1>3 DEF JobOK, CompleteOK
  <2>2. n = Length(r.form) /\ n - 1 \in Nat /\ r.left = 1 /\ n = (n - 1) + 1
    BY <1>1, <1>3, Sizes
  <2>3. Some(r.form, 1, (n - 1) + 1, q.seen)
    <3>1. Some(r.form, 1, n - 1, r.seen) /\ <<r.form, (n - 1) + 1>> \in q.seen /\ r.seen \subseteq q.seen
      BY <1>3, <2>1, <2>2
    <3> QED
      BY <2>2, <3>1, SomeMore
  <2>4. Body(r.form) = Items(r.form, n)
    BY <1>1, <2>2 DEF Body, Whole
  <2>5. Body(r.form) \subseteq q.seen
    BY <2>2, <2>3, <2>4 DEF Some, Items
  <2> QED
    BY <1>3, <2>1, <2>5 DEF Some
<1> QED
  BY <1>1, <1>2, <1>3, ToImagesOK

\* A message of the body with more to come.
LEMMA BodyNext ==
    ASSUME NEW r, JobOK(r), r.pc = "body", NEW n, n = Length(r.form) - r.left + 1, r.left # 1,
           NEW p \in JobType, p.pc = "body", p.form = r.form, p.left = r.left - 1, p.failed = r.failed,
           p.seen = r.seen \cup {<<r.form, n>>}, p.text <=> r.form \in TextForms
    PROVE  JobOK(p)
<1>1. r.form \in Whole \cup {"brief"} /\ r.left \in 1..Length(r.form)
  BY DEF JobOK, PlaceOK
<1>2. p.left \in 1..Length(r.form) /\ p.left < Length(r.form) /\ n \in Nat /\ Length(r.form) - p.left = n
      /\ n - 1 \in Nat /\ (n - 1) + 1 = n /\ Length(r.form) - r.left = n - 1
  BY <1>1, Sizes
<1>3. r.form \in Batches <=> r.form \notin TextForms
  BY <1>1 DEF Batches, TextForms, Whole
<1>4. PlaceOK(p)
  BY <1>1, <1>2, <1>3 DEF PlaceOK
<1>5. AccountOK(p)
  BY <1>2, <1>3 DEF AccountOK, Begun
<1>6. OneFormOK(p)
  <2>1. SeenAs(r) \subseteq {r.form}
    BY DEF JobOK, OneFormOK
  <2>2. SeenAs(p) \subseteq SeenAs(r) \cup {r.form}
    BY DEF SeenAs
  <2>3. p.left # Length(p.form)
    BY <1>2, Sizes
  <2> QED
    BY <2>1, <2>2, <2>3 DEF OneFormOK
<1>7. CompleteOK(p)
  <2> SUFFICES ASSUME ~ p.failed
               PROVE  (r.form \in Whole => Some("file", 1, Files, p.seen)) /\ Some(r.form, 1, n, p.seen)
    BY <1>2 DEF CompleteOK
  <2>1. (r.form \in Whole => Some("file", 1, Files, r.seen)) /\ Some(r.form, 1, n - 1, r.seen)
    BY <1>2 DEF JobOK, CompleteOK
  <2>2. Some(r.form, 1, (n - 1) + 1, p.seen)
    <3>1. <<r.form, (n - 1) + 1>> \in p.seen /\ r.seen \subseteq p.seen
      BY <1>2
    <3> QED
      BY <1>2, <2>1, <3>1, SomeMore
  <2> QED
    BY <1>2, <2>1, <2>2 DEF Some
<1> QED
  BY <1>4, <1>5, <1>6, <1>7 DEF JobOK

\* A batch of which nothing went out leaves the body to a text.
LEMMA BatchNone ==
    ASSUME NEW r, JobOK(r), r.pc = "body", r.form \in Batches, r.left = Length(r.form)
    PROVE  JobOK([r EXCEPT !.pc = "fallback"])
<1> DEFINE p == [r EXCEPT !.pc = "fallback"]
<1>1. /\ p \in JobType /\ p.pc = "fallback" /\ p.form = r.form /\ p.media = r.media /\ p.text = r.text
      /\ p.failed = r.failed /\ p.may = r.may /\ p.seen = r.seen
  BY DEF JobOK, JobType
<1> HIDE DEF p
<1>2. PlaceOK(p)
  BY <1>1 DEF JobOK, PlaceOK
<1>3. AccountOK(p)
  <2>1. ~ Begun(r)
    BY Sizes DEF Begun
  <2> QED
    BY <1>1, <2>1 DEF JobOK, AccountOK
<1>4. OneFormOK(p)
  BY <1>1 DEF JobOK, OneFormOK, SeenAs
<1>5. CompleteOK(p)
  BY <1>1 DEF JobOK, CompleteOK
<1> QED
  BY <1>1, <1>2, <1>3, <1>4, <1>5 DEF JobOK, p

LEMMA FallbackOK ==
    ASSUME NEW r, JobOK(r), r.pc = "fallback",
           NEW q \in JobType, q.form = r.form, q.seen \subseteq r.seen \cup {<<"text", 1>>},
           q.seen # {} => q.may \/ q.media > 0 \/ q.text,
           ~ q.failed => ~ r.failed /\ q.seen = r.seen \cup {<<"text", 1>>}
    PROVE  JobOK(ToImages(q))
<1>1. q.form \in Whole /\ "text" \in BodyForms
  BY FormNames DEF JobOK, PlaceOK, Whole, Batches
<1>2. SeenAs(q) \subseteq {"text"}
  <2>1. SeenAs(r) = {}
    BY DEF JobOK, OneFormOK
  <2> QED
    BY <2>1 DEF SeenAs
<1>3. ASSUME ~ q.failed PROVE Some("file", 1, Files, q.seen) /\ Body("text") \subseteq q.seen
  <2>1. Some("file", 1, Files, r.seen)
    BY <1>1, <1>3 DEF JobOK, CompleteOK
  <2>2. Body("text") \subseteq {<<"text", 1>>}
    BY DEF Body, Items
  <2> QED
    BY <1>3, <2>1, <2>2 DEF Some
<1> QED
  BY <1>1, <1>2, <1>3, ToImagesOK

LEMMA ImageOK ==
    ASSUME NEW r, JobOK(r), r.pc = "images", NEW w \in MediaWire, NEW v \in Visible(w),
           NEW p, Heard(r, p, w, v, <<"image", r.left>>, r.media > 0 \/ r.text),
           p.left = r.left - 1, p.text = r.text, p.media = IF w = "ok" THEN r.media + 1 ELSE r.media,
           p.pc = IF p.left = 0 THEN "verdict" ELSE "images"
    PROVE  JobOK(p)
<1>1. /\ r.form \in Whole \cup {"files"} /\ r.left \in 1..Links(r.form) /\ r.media \in Nat
      /\ p \in JobType /\ p.form = r.form /\ r.form \in Forms
  BY FormNames DEF JobOK, PlaceOK, JobType, Heard, Whole
<1>2. p.left \in 0..Links(r.form) /\ p.left + 1 = r.left
  BY <1>1, Sizes
<1>3. PlaceOK(p)
  BY <1>1, <1>2, Sizes DEF PlaceOK
<1>4. AccountOK(p)
  <2>1. r.seen # {} => r.may \/ r.media > 0 \/ r.text
    BY DEF JobOK, PlaceOK, AccountOK, Begun
  <2>2. CASE w = "ok"
    BY <1>1, <2>2 DEF AccountOK
  <2>3. CASE w # "ok"
    <3>1. p.seen # {} => r.seen # {} \/ w = "lost"
      BY <2>3, WireFacts DEF Heard
    <3> QED
      BY <2>1, <2>3, <3>1 DEF Heard, AccountOK
  <2> QED
    BY <2>2, <2>3
<1>5. OneFormOK(p)
  <2>1. PICK f \in BodyForms : SeenAs(r) \subseteq {f}
    BY DEF JobOK, OneFormOK
  <2>2. SeenAs(p) \subseteq SeenAs(r)
    BY FormNames DEF Heard, SeenAs
  <2> QED
    BY <2>1, <2>2 DEF OneFormOK
<1>6. CompleteOK(p)
  <2> SUFFICES ASSUME ~ p.failed PROVE CompleteOK(p)
    BY DEF CompleteOK
  <2>1. p.seen = r.seen \cup {<<"image", r.left>>} /\ ~ r.failed
    BY WireFacts DEF Heard
  <2>2. /\ r.form \in Whole => Some("file", 1, Files, r.seen)
        /\ r.form # "files" => \E f \in BodyForms : Body(f) \subseteq r.seen
        /\ r.form = "files" => <<"heading", 1>> \in r.seen
        /\ Some("image", r.left + 1, Links(r.form), r.seen)
    BY <2>1 DEF JobOK, CompleteOK
  <2>3. Some("image", r.left, Links(r.form), p.seen)
    <3>1. r.left \in Nat /\ Links(r.form) \in Nat /\ r.seen \subseteq p.seen /\ <<"image", r.left>> \in p.seen
      BY <1>1, <2>1, Sizes
    <3> QED
      BY <2>2, <3>1, SomeMore
  <2>4. r.form \in Whole => Some("file", 1, Files, p.seen)
    BY <2>1, <2>2 DEF Some
  <2>5. r.form # "files" => \E f \in BodyForms : Body(f) \subseteq p.seen
    BY <2>1, <2>2
  <2> QED
    BY <1>1, <1>2, <2>1, <2>2, <2>3, <2>4, <2>5 DEF CompleteOK
<1> QED
  BY <1>1, <1>3, <1>4, <1>5, <1>6 DEF JobOK

LEMMA HeadingOK ==
    ASSUME NEW r, JobOK(r), r.pc = "heading", NEW w \in Wire, NEW v \in Visible(w),
           NEW p, Heard(r, p, w, v, <<"heading", 1>>, FALSE), p.media = r.media, p.text <=> w = "ok",
           IF w = "ok" THEN p.pc = "images" /\ p.left = Files + Images ELSE p.pc = "verdict"
    PROVE  JobOK(p)
<1>1. p.form = "files" /\ p \in JobType /\ Links("files") = Files + Images /\ "files" \in Forms
  BY FormNames DEF JobOK, PlaceOK, Heard, Links
<1>2. PlaceOK(p)
  BY <1>1, Sizes DEF PlaceOK
<1>3. AccountOK(p)
  <2>1. r.seen # {} => r.may \/ r.media > 0
    BY DEF JobOK, PlaceOK, AccountOK, Begun
  <2>2. w # "ok" /\ p.seen # {} => r.seen # {} \/ w = "lost"
    BY WireFacts DEF Heard, MediaWire
  <2> QED
    BY <2>1, <2>2 DEF AccountOK, Heard
<1>4. OneFormOK(p)
  <2>1. SeenAs(r) = {}
    BY DEF JobOK, OneFormOK
  <2>2. SeenAs(p) \subseteq SeenAs(r)
    BY FormNames DEF Heard, SeenAs
  <2> QED
    BY <2>1, <2>2, FormNames DEF OneFormOK
<1>5. CompleteOK(p)
  <2> SUFFICES ASSUME ~ p.failed PROVE CompleteOK(p)
    BY DEF CompleteOK
  <2>1. w = "ok" /\ <<"heading", 1>> \in p.seen
    BY WireFacts DEF Heard, MediaWire
  <2>2. \A s : Some("image", Files + Images + 1, Files + Images, s)
    BY Sizes DEF Some
  <2> QED
    BY <1>1, <2>1, <2>2 DEF CompleteOK, Whole
<1> QED
  BY <1>1, <1>2, <1>3, <1>4, <1>5 DEF JobOK

LEMMA BeginOK ==
    ASSUME NEW form \in Forms, NEW r \in JobType, r.form = form, r.seen = {}, ~ r.text
    PROVE  /\ form = "brief" => JobOK(ToBody(r))
           /\ form = "files" => JobOK([r EXCEPT !.pc = "heading"])
           /\ form \in Whole => JobOK([r EXCEPT !.pc = "files", !.left = Files])
<1>1. SeenAs(r) = {}
  BY DEF SeenAs
<1>2. ASSUME form = "brief" PROVE JobOK(ToBody(r))
  BY <1>1, <1>2, ToBodyOK DEF Whole
<1>3. ASSUME form = "files", NEW p, p = [r EXCEPT !.pc = "heading"] PROVE JobOK(p)
  <2>1. p \in JobType /\ p.pc = "heading" /\ p.form = "files" /\ p.seen = {} /\ ~ p.text
    BY <1>3 DEF JobType
  <2> QED
    BY <2>1 DEF JobOK, PlaceOK, AccountOK, OneFormOK, CompleteOK, SeenAs
<1>4. ASSUME form \in Whole, NEW p, p = [r EXCEPT !.pc = "files", !.left = Files] PROVE JobOK(p)
  <2>1. p \in JobType /\ p.pc = "files" /\ p.form = form /\ p.seen = {} /\ ~ p.text /\ p.left = Files
    BY <1>4, Sizes DEF JobType
  <2>2. Some("file", Files + 1, Files, {})
    BY Sizes DEF Some
  <2>3. PlaceOK(p)
    BY <1>4, <2>1, Sizes DEF PlaceOK
  <2>4. AccountOK(p) /\ OneFormOK(p)
    BY <2>1 DEF AccountOK, OneFormOK, SeenAs
  <2>5. CompleteOK(p)
    BY <2>1, <2>2 DEF CompleteOK
  <2> QED
    BY <2>1, <2>3, <2>4, <2>5 DEF JobOK
<1> QED
  BY <1>2, <1>3, <1>4

\* What Saw and Counted make of a report.
LEMMA MessageHeard ==
    ASSUME NEW r \in JobType, NEW w \in MediaWire, NEW v \in Visible(w), NEW beside \in BOOLEAN,
           NEW kind \in Parts, NEW i \in Nat, NEW q, q = Saw(Counted(r, w, beside), <<kind, i>>, v)
    PROVE  /\ Heard(r, q, w, v, <<kind, i>>, beside)
           /\ q.pc = r.pc /\ q.left = r.left /\ q.media = r.media /\ q.text = r.text
<1> DEFINE c == Counted(r, w, beside)
<1>1. /\ c \in JobType /\ c.pc = r.pc /\ c.form = r.form /\ c.left = r.left
      /\ c.media = r.media /\ c.text = r.text /\ c.seen = r.seen
      /\ w = "ok" => c.failed = r.failed /\ c.may = r.may
      /\ w # "ok" => c.failed /\ (c.may <=> (r.may \/ w = "lost" \/ beside))
  <2>1. PICK may \in BOOLEAN : may <=> (r.may \/ w = "lost" \/ beside)
    BY DEF JobType
  <2>2. CASE w = "ok"
    BY <2>2 DEF Counted
  <2>3. CASE w # "ok"
    <3>1. c = [r EXCEPT !.failed = TRUE, !.may = may]
      BY <2>1, <2>3 DEF Counted, MayBeVisible, JobType
    <3> HIDE DEF c
    <3> QED
      BY <2>1, <2>3, <3>1 DEF JobType
  <2> QED
    BY <2>2, <2>3
<1>2. q = Saw(c, <<kind, i>>, v)
  OBVIOUS
<1> HIDE DEF c
<1>3. v \in BOOLEAN /\ c.seen \cup {<<kind, i>>} \in SUBSET (Parts \X Nat)
  BY <1>1, WireFacts DEF JobType
<1>4. CASE v
  <2>1. q = [c EXCEPT !.seen = c.seen \cup {<<kind, i>>}]
    BY <1>2, <1>4 DEF Saw
  <2>2. /\ q \in JobType /\ q.pc = c.pc /\ q.form = c.form /\ q.left = c.left /\ q.media = c.media
        /\ q.text = c.text /\ q.failed = c.failed /\ q.may = c.may /\ q.seen = c.seen \cup {<<kind, i>>}
    BY <1>1, <1>3, <2>1 DEF JobType
  <2> QED
    BY <1>1, <1>4, <2>2 DEF Heard
<1>5. CASE ~ v
  BY <1>1, <1>2, <1>5 DEF Saw, Heard
<1> QED
  BY <1>3, <1>4, <1>5

\* A provision for the comparisons in the calls of Counted.
LEMMA Besides ==
    ASSUME NEW r, NEW w
    PROVE  /\ \E b \in BOOLEAN : (b <=> r.media > 0) /\ Counted(r, w, r.media > 0) = Counted(r, w, b)
           /\ \E b \in BOOLEAN : (b <=> (r.media > 0 \/ r.text))
                                 /\ Counted(r, w, r.media > 0 \/ r.text) = Counted(r, w, b)
<1>1. \E b \in BOOLEAN : b <=> r.media > 0
  <2>1. CASE r.media > 0
    BY <2>1
  <2>2. CASE ~ r.media > 0
    BY <2>2
  <2> QED
    BY <2>1, <2>2
<1>2. \E b \in BOOLEAN : b <=> (r.media > 0 \/ r.text)
  <2>1. CASE r.media > 0 \/ r.text
    BY <2>1
  <2>2. CASE ~ (r.media > 0 \/ r.text)
    BY <2>2
  <2> QED
    BY <2>1, <2>2
<1> QED
  BY <1>1, <1>2 DEF Counted

\* The step a result takes leaves it accounted for.
Keeps(j) == \E x \in JobType : Set(j, x) /\ JobOK(x)

LEMMA SendFileOK ==
    ASSUME JInv, NEW j \in Jobs, SendFile(j)
    PROVE  Keeps(j)
<1> DEFINE r == job[j]
<1>1. JobOK(r) /\ r \in JobType /\ r.pc = "files" /\ r.left \in Nat /\ r.media \in Nat
      /\ r.left \in 1..Files /\ ~ r.text /\ "file" \in Parts
  BY DEF JInv, SendFile, JobOK, PlaceOK, JobType, Parts
<1>2. PICK w \in MediaWire : \E v \in Visible(w) :
        LET q == Saw(Counted(r, w, r.media > 0), <<"file", r.left>>, v)
            p == [q EXCEPT !.left = @ - 1, !.media = IF w = "ok" THEN @ + 1 ELSE @]
        IN Set(j, IF p.left = 0 THEN ToBody(p) ELSE p)
  BY DEF SendFile
<1>3. PICK v \in Visible(w) :
        LET q == Saw(Counted(r, w, r.media > 0), <<"file", r.left>>, v)
            p == [q EXCEPT !.left = @ - 1, !.media = IF w = "ok" THEN @ + 1 ELSE @]
        IN Set(j, IF p.left = 0 THEN ToBody(p) ELSE p)
  BY <1>2
<1>4. PICK beside \in BOOLEAN : (beside <=> r.media > 0) /\ Counted(r, w, r.media > 0) = Counted(r, w, beside)
  BY Besides
<1> DEFINE q == Saw(Counted(r, w, beside), <<"file", r.left>>, v)
           p == [q EXCEPT !.left = @ - 1, !.media = IF w = "ok" THEN @ + 1 ELSE @]
<1>5. Set(j, IF p.left = 0 THEN ToBody(p) ELSE p)
  BY <1>3, <1>4
<1> HIDE DEF r
<1>6. Heard(r, q, w, v, <<"file", r.left>>, beside) /\ q.pc = r.pc /\ q.left = r.left /\ q.media = r.media /\ q.text = r.text
  BY <1>1, MessageHeard
<1>7. q \in JobType /\ q.left - 1 \in Nat
  BY <1>1, <1>6, Sizes DEF Heard
<1> HIDE DEF q
<1>p. p = [q EXCEPT !.left = @ - 1, !.media = IF w = "ok" THEN @ + 1 ELSE @]
  OBVIOUS
<1> HIDE DEF p
<1>8. /\ p \in JobType /\ p.pc = q.pc /\ p.left = r.left - 1 /\ p.text = q.text /\ p.form = q.form
      /\ p.media = IF w = "ok" THEN r.media + 1 ELSE r.media
      /\ p.failed = q.failed /\ p.may = q.may /\ p.seen = q.seen
  <2>1. PICK m \in Nat : m = IF w = "ok" THEN q.media + 1 ELSE q.media
    BY <1>1, <1>6
  <2>2. p = [q EXCEPT !.left = q.left - 1, !.media = m]
    BY <1>p, <2>1
  <2> QED
    BY <1>6, <1>7, <2>1, <2>2 DEF JobType
<1>9. Heard(r, p, w, v, <<"file", r.left>>, r.media > 0)
  BY <1>4, <1>6, <1>8 DEF Heard
<1>10. IF p.left = 0 THEN JobOK(ToBody(p)) ELSE JobOK(p)
  BY <1>1, <1>6, <1>8, <1>9, FileOK
<1> QED
  BY <1>5, <1>10 DEF Keeps, JobOK

LEMMA SendPageOK ==
    ASSUME JInv, NEW j \in Jobs, SendPage(j)
    PROVE  Keeps(j)
<1> DEFINE r == job[j]
           n == Length(r.form) - r.left + 1
<1>1. JobOK(r) /\ r \in JobType /\ r.pc = "body" /\ r.form \in TextForms /\ r.form \in Parts /\ r.text \in BOOLEAN
      /\ r.left \in 1..Length(r.form)
  BY DEF JInv, SendPage, JobOK, PlaceOK, JobType, Parts, TextForms
<1>2. n \in Nat
  BY <1>1, Sizes
<1>3. PICK w \in Wire : \E v \in Visible(w) :
        LET q == Saw(Counted(r, w, r.text), <<r.form, n>>, v)
        IN Set(j, IF w # "ok" THEN ToImages(q)
                  ELSE IF r.left = 1 THEN ToImages([q EXCEPT !.text = TRUE])
                  ELSE [q EXCEPT !.text = TRUE, !.left = @ - 1])
  BY DEF SendPage
<1>4. PICK v \in Visible(w) :
        LET q == Saw(Counted(r, w, r.text), <<r.form, n>>, v)
        IN Set(j, IF w # "ok" THEN ToImages(q)
                  ELSE IF r.left = 1 THEN ToImages([q EXCEPT !.text = TRUE])
                  ELSE [q EXCEPT !.text = TRUE, !.left = @ - 1])
  BY <1>3
<1> DEFINE q == Saw(Counted(r, w, r.text), <<r.form, n>>, v)
           t == [q EXCEPT !.text = TRUE]
           p == [q EXCEPT !.text = TRUE, !.left = @ - 1]
<1>5. Set(j, IF w # "ok" THEN ToImages(q) ELSE IF r.left = 1 THEN ToImages(t) ELSE p)
  BY <1>4
<1> HIDE DEF r, n
<1>6. w \in MediaWire /\ v \in BOOLEAN /\ (w = "ok" => v) /\ (v => w = "ok" \/ w = "lost")
  BY WireFacts DEF MediaWire
<1>7. Heard(r, q, w, v, <<r.form, n>>, r.text) /\ q.pc = r.pc /\ q.left = r.left /\ q.media = r.media /\ q.text = r.text
  BY <1>1, <1>2, <1>6, MessageHeard
<1> HIDE DEF q
<1>8. q \in JobType /\ r.left - 1 \in Nat /\ q.form = r.form
  BY <1>1, <1>7, Sizes DEF Heard
<1>9. CASE w # "ok"
  <2>1. r.seen # {} => r.may \/ r.media > 0 \/ r.text
    BY <1>1 DEF JobOK, AccountOK, Begun, Batches, TextForms
  <2>2. q.seen # {} => q.may \/ q.media > 0 \/ q.text
    BY <1>6, <1>7, <1>9, <2>1 DEF Heard
  <2>3. q.failed /\ q.seen \subseteq r.seen \cup {<<r.form, n>>}
    BY <1>7, <1>9 DEF Heard
  <2>4. JobOK(ToImages(q))
    BY <1>1, <1>8, <2>2, <2>3, BodyLast DEF n
  <2> QED
    BY <1>5, <1>9, <2>4 DEF Keeps, JobOK
<1>10. CASE w = "ok" /\ r.left = 1
  <2>1. /\ t \in JobType /\ t.form = r.form /\ t.text /\ t.failed = r.failed /\ t.seen = r.seen \cup {<<r.form, n>>}
    BY <1>6, <1>7, <1>8, <1>10 DEF JobType, Heard
  <2> HIDE DEF t
  <2>2. JobOK(ToImages(t))
    BY <1>1, <1>10, <2>1, BodyLast DEF n
  <2> QED
    BY <1>5, <1>10, <2>2 DEF Keeps, JobOK
<1>11. CASE w = "ok" /\ r.left # 1
  <2>1. /\ p \in JobType /\ p.pc = "body" /\ p.form = r.form /\ p.left = r.left - 1 /\ p.text /\ p.failed = r.failed
        /\ p.seen = r.seen \cup {<<r.form, n>>}
    BY <1>1, <1>6, <1>7, <1>8, <1>11 DEF JobType, Heard
  <2> HIDE DEF p
  <2>2. JobOK(p)
    BY <1>1, <1>11, <2>1, BodyNext DEF n
  <2> QED
    BY <1>5, <1>11, <2>2 DEF Keeps, JobOK
<1> QED
  BY <1>9, <1>10, <1>11

LEMMA SendBatchOK ==
    ASSUME JInv, NEW j \in Jobs, NEW form \in Batches, SendBatch(j, form)
    PROVE  Keeps(j)
<1> DEFINE r == job[j]
           n == Length(form) - r.left + 1
<1>1. JobOK(r) /\ r \in JobType /\ r.pc = "body" /\ r.form = form /\ ~ r.text /\ r.left \in 1..Length(form)
      /\ r.media \in Nat /\ form \in Parts
  BY DEF JInv, SendBatch, JobOK, PlaceOK, JobType, Batches, Parts
<1>2. n \in 1..Length(form) /\ (n = 1 <=> r.left = Length(form)) /\ r.left - 1 \in Nat
  BY <1>1, Sizes
<1>3. \/ n = 1 /\ Set(j, Unstaged(r))
      \/ \E w \in Wire : \E v \in Visible(w) : Set(j, Batched(Saw(r, <<form, n>>, v), n, w))
  BY DEF SendBatch
<1> HIDE DEF r, n
<1>4. n = 1 => JobOK([r EXCEPT !.pc = "fallback"])
  BY <1>1, <1>2, BatchNone
<1>5. CASE n = 1 /\ Set(j, Unstaged(r))
  BY <1>4, <1>5 DEF Keeps, JobOK, Unstaged, Broken
<1>6. ASSUME NEW w \in Wire, NEW v \in Visible(w), Set(j, Batched(Saw(r, <<form, n>>, v), n, w))
      PROVE  Keeps(j)
  <2> DEFINE q == Saw(r, <<form, n>>, v)
  <2>1. v \in BOOLEAN /\ (w = "ok" => v) /\ (v => w = "ok" \/ w = "lost")
    BY WireFacts DEF MediaWire
  <2>2. /\ q \in JobType /\ q.pc = r.pc /\ q.form = form /\ q.left = r.left /\ q.media = r.media /\ q.text = r.text
        /\ q.failed = r.failed /\ q.may = r.may
        /\ q.seen = IF v THEN r.seen \cup {<<form, n>>} ELSE r.seen
    <3>1. r.seen \cup {<<form, n>>} \in SUBSET (Parts \X Nat)
      BY <1>1, <1>2 DEF JobType
    <3>2. CASE v
      BY <1>1, <3>1, <3>2 DEF Saw, JobType
    <3>3. CASE ~ v
      BY <1>1, <3>3 DEF Saw
    <3> QED
      BY <2>1, <3>2, <3>3
  <2>3. ~ v => q = r
    BY DEF Saw
  <2>4. Set(j, Batched(q, n, w))
    BY <1>6
  <2> HIDE DEF q
  <2>5. CASE w # "ok"
    <3> DEFINE count == IF w = "lost" THEN n ELSE n - 1
               b == [q EXCEPT !.media = @ + count, !.failed = TRUE, !.may = TRUE]
    <3>1. Set(j, Broken(q, count))
      BY <2>4, <2>5 DEF Batched
    <3>2. count \in Nat
      BY <1>2, Sizes
    <3>3. CASE count = 0
      <4>1. n = 1 /\ ~ v
        BY <1>2, <2>1, <2>5, <3>3, Sizes
      <4>2. Set(j, [r EXCEPT !.pc = "fallback"])
        BY <2>3, <3>1, <3>3, <4>1 DEF Broken
      <4> QED
        BY <1>4, <4>1, <4>2 DEF Keeps, JobOK
    <3>4. CASE count # 0
      <4>1. Set(j, ToImages(b))
        BY <3>1, <3>4 DEF Broken
      <4> HIDE DEF count
      <4>2. b \in JobType /\ b.form = form /\ b.may /\ b.failed /\ b.seen = q.seen
        <5>1. q.media + count \in Nat
          BY <1>1, <2>2, <3>2
        <5> QED
          BY <2>2, <5>1 DEF JobType
      <4> HIDE DEF b
      <4>3. JobOK(ToImages(b))
        BY <1>1, <2>2, <4>2, BodyLast DEF n
      <4> QED
        BY <4>1, <4>3 DEF Keeps, JobOK
    <3> QED
      BY <3>3, <3>4
  <2>6. CASE w = "ok" /\ r.left = 1
    <3> DEFINE b == [q EXCEPT !.media = @ + n]
    <3>1. Set(j, ToImages(b))
      BY <2>2, <2>4, <2>6 DEF Batched
    <3>2. n \in Nat /\ r.media + n \in Nat /\ r.media + n > 0
      BY <1>1, <1>2, Sizes
    <3>3. b \in JobType /\ b.form = form /\ b.media > 0 /\ b.failed = r.failed /\ b.seen = r.seen \cup {<<form, n>>}
      BY <2>1, <2>2, <2>6, <3>2 DEF JobType
    <3> HIDE DEF b
    <3>4. JobOK(ToImages(b))
      BY <1>1, <2>6, <3>3, BodyLast DEF n
    <3> QED
      BY <3>1, <3>4 DEF Keeps, JobOK
  <2>7. CASE w = "ok" /\ r.left # 1
    <3> DEFINE b == [q EXCEPT !.left = @ - 1]
    <3>1. Set(j, b)
      BY <2>2, <2>4, <2>7 DEF Batched
    <3>2. /\ b \in JobType /\ b.pc = "body" /\ b.form = form /\ b.left = r.left - 1 /\ b.failed = r.failed /\ ~ b.text
          /\ b.seen = r.seen \cup {<<form, n>>}
      BY <1>1, <1>2, <2>1, <2>2, <2>7 DEF JobType
    <3> HIDE DEF b
    <3>3. form \notin TextForms
      BY DEF Batches, TextForms
    <3>4. JobOK(b)
      BY <1>1, <2>7, <3>2, <3>3, BodyNext DEF n
    <3> QED
      BY <3>1, <3>4 DEF Keeps, JobOK
  <2> QED
    BY <2>5, <2>6, <2>7
<1> QED
  BY <1>3, <1>5, <1>6

LEMMA SendFallbackOK ==
    ASSUME JInv, NEW j \in Jobs, SendFallback(j)
    PROVE  Keeps(j)
<1> DEFINE r == job[j]
<1>1. JobOK(r) /\ r \in JobType /\ r.pc = "fallback" /\ ~ r.text /\ r.media \in Nat /\ "text" \in Parts
  BY DEF JInv, SendFallback, JobOK, PlaceOK, JobType, Parts
<1>2. PICK w \in Wire : \E v \in Visible(w) :
        Set(j, ToImages([Saw(Counted(r, w, r.media > 0), <<"text", 1>>, v) EXCEPT !.text = w = "ok"]))
  BY DEF SendFallback
<1>3. PICK v \in Visible(w) :
        Set(j, ToImages([Saw(Counted(r, w, r.media > 0), <<"text", 1>>, v) EXCEPT !.text = w = "ok"]))
  BY <1>2
<1>4. PICK beside \in BOOLEAN : (beside <=> r.media > 0) /\ Counted(r, w, r.media > 0) = Counted(r, w, beside)
  BY Besides
<1>5. w \in MediaWire /\ v \in BOOLEAN /\ (w = "ok" => v) /\ (v => w = "ok" \/ w = "lost")
  BY WireFacts DEF MediaWire
<1> DEFINE q == Saw(Counted(r, w, beside), <<"text", 1>>, v)
           p == [q EXCEPT !.text = w = "ok"]
<1>6. Set(j, ToImages(p))
  BY <1>3, <1>4
<1> HIDE DEF r
<1>7. Heard(r, q, w, v, <<"text", 1>>, beside) /\ q.pc = r.pc /\ q.left = r.left /\ q.media = r.media /\ q.text = r.text
  BY <1>1, <1>5, MessageHeard
<1> HIDE DEF q
<1>8. /\ p \in JobType /\ p.form = r.form /\ (p.text <=> w = "ok") /\ p.failed = q.failed /\ p.may = q.may
      /\ p.seen = q.seen /\ p.media = r.media
  BY <1>7 DEF JobType, Heard
<1> HIDE DEF p
<1>9. p.seen # {} => p.may \/ p.media > 0 \/ p.text
  <2>1. r.seen # {} => r.may \/ r.media > 0
    BY <1>1 DEF JobOK, AccountOK, Begun
  <2> QED
    BY <1>4, <1>5, <1>7, <1>8, <2>1 DEF Heard
<1>10. /\ p.seen \subseteq r.seen \cup {<<"text", 1>>}
       /\ ~ p.failed => ~ r.failed /\ p.seen = r.seen \cup {<<"text", 1>>}
  BY <1>5, <1>7, <1>8 DEF Heard
<1>11. JobOK(ToImages(p))
  BY <1>1, <1>8, <1>9, <1>10, FallbackOK
<1> QED
  BY <1>6, <1>11 DEF Keeps, JobOK

LEMMA SendImageOK ==
    ASSUME JInv, NEW j \in Jobs, SendImage(j)
    PROVE  Keeps(j)
<1> DEFINE r == job[j]
<1>1. JobOK(r) /\ r \in JobType /\ r.pc = "images" /\ r.left \in Nat /\ r.media \in Nat
      /\ r.left \in 1..Links(r.form) /\ "image" \in Parts
  BY DEF JInv, SendImage, JobOK, PlaceOK, JobType, Parts
<1>2. PICK w \in MediaWire : \E v \in Visible(w) :
        LET q == Saw(Counted(r, w, r.media > 0 \/ r.text), <<"image", r.left>>, v)
            p == [q EXCEPT !.left = @ - 1, !.media = IF w = "ok" THEN @ + 1 ELSE @]
        IN Set(j, IF p.left = 0 THEN [p EXCEPT !.pc = "verdict"] ELSE p)
  BY DEF SendImage
<1>3. PICK v \in Visible(w) :
        LET q == Saw(Counted(r, w, r.media > 0 \/ r.text), <<"image", r.left>>, v)
            p == [q EXCEPT !.left = @ - 1, !.media = IF w = "ok" THEN @ + 1 ELSE @]
        IN Set(j, IF p.left = 0 THEN [p EXCEPT !.pc = "verdict"] ELSE p)
  BY <1>2
<1>4. PICK beside \in BOOLEAN : /\ beside <=> (r.media > 0 \/ r.text)
                               /\ Counted(r, w, r.media > 0 \/ r.text) = Counted(r, w, beside)
  BY Besides
<1> DEFINE q == Saw(Counted(r, w, beside), <<"image", r.left>>, v)
           p == [q EXCEPT !.left = @ - 1, !.media = IF w = "ok" THEN @ + 1 ELSE @]
           x == IF p.left = 0 THEN [p EXCEPT !.pc = "verdict"] ELSE p
<1>5. Set(j, x)
  BY <1>3, <1>4
<1> HIDE DEF r
<1>6. Heard(r, q, w, v, <<"image", r.left>>, beside) /\ q.pc = r.pc /\ q.left = r.left /\ q.media = r.media /\ q.text = r.text
  BY <1>1, MessageHeard
<1>7. q \in JobType /\ q.left - 1 \in Nat
  BY <1>1, <1>6, Sizes DEF Heard
<1> HIDE DEF q
<1>8. p = [q EXCEPT !.left = @ - 1, !.media = IF w = "ok" THEN @ + 1 ELSE @]
  OBVIOUS
<1> HIDE DEF p
<1>9. /\ p \in JobType /\ p.pc = q.pc /\ p.left = r.left - 1 /\ p.text = q.text /\ p.form = q.form
      /\ p.media = IF w = "ok" THEN r.media + 1 ELSE r.media
      /\ p.failed = q.failed /\ p.may = q.may /\ p.seen = q.seen
  <2>1. PICK m \in Nat : m = IF w = "ok" THEN q.media + 1 ELSE q.media
    BY <1>1, <1>6
  <2>2. p = [q EXCEPT !.left = q.left - 1, !.media = m]
    BY <1>8, <2>1
  <2> QED
    BY <1>6, <1>7, <2>1, <2>2 DEF JobType
<1>10. /\ x \in JobType /\ x.left = p.left /\ x.text = p.text /\ x.form = p.form /\ x.media = p.media
       /\ x.failed = p.failed /\ x.may = p.may /\ x.seen = p.seen
       /\ x.pc = IF p.left = 0 THEN "verdict" ELSE "images"
  BY <1>1, <1>6, <1>9 DEF JobType
<1> HIDE DEF x
<1>11. Heard(r, x, w, v, <<"image", r.left>>, r.media > 0 \/ r.text)
  BY <1>4, <1>6, <1>9, <1>10 DEF Heard
<1>12. JobOK(x)
  BY <1>1, <1>6, <1>9, <1>10, <1>11, ImageOK
<1> QED
  BY <1>5, <1>12 DEF Keeps, JobOK

LEMMA SendHeadingOK ==
    ASSUME JInv, NEW j \in Jobs, SendHeading(j)
    PROVE  Keeps(j)
<1> DEFINE r == job[j]
<1>1. JobOK(r) /\ r \in JobType /\ r.pc = "heading" /\ ~ r.text /\ "heading" \in Parts
  BY DEF JInv, SendHeading, JobOK, PlaceOK, Parts
<1>2. PICK w \in Wire : \E v \in Visible(w) :
        LET q == Saw(Counted(r, w, FALSE), <<"heading", 1>>, v)
        IN Set(j, IF w = "ok" THEN [q EXCEPT !.text = TRUE, !.pc = "images", !.left = Files + Images]
                  ELSE [q EXCEPT !.pc = "verdict"])
  BY DEF SendHeading
<1>3. PICK v \in Visible(w) :
        LET q == Saw(Counted(r, w, FALSE), <<"heading", 1>>, v)
        IN Set(j, IF w = "ok" THEN [q EXCEPT !.text = TRUE, !.pc = "images", !.left = Files + Images]
                  ELSE [q EXCEPT !.pc = "verdict"])
  BY <1>2
<1>a. PICK beside \in BOOLEAN : beside = FALSE
  OBVIOUS
<1> DEFINE q == Saw(Counted(r, w, beside), <<"heading", 1>>, v)
           x == IF w = "ok" THEN [q EXCEPT !.text = TRUE, !.pc = "images", !.left = Files + Images]
                ELSE [q EXCEPT !.pc = "verdict"]
<1>4. Set(j, x)
  BY <1>3, <1>a
<1> HIDE DEF r
<1>5. Heard(r, q, w, v, <<"heading", 1>>, beside) /\ q.pc = r.pc /\ q.left = r.left /\ q.media = r.media /\ q.text = r.text
  BY <1>1, MessageHeard DEF MediaWire
<1> HIDE DEF q
<1>6. Files + Images \in Nat
  BY Sizes
<1>7. /\ x \in JobType /\ x.form = q.form /\ x.media = r.media /\ (x.text <=> w = "ok")
      /\ x.failed = q.failed /\ x.may = q.may /\ x.seen = q.seen
      /\ IF w = "ok" THEN x.pc = "images" /\ x.left = Files + Images ELSE x.pc = "verdict"
  <2>1. CASE w = "ok"
    BY <1>5, <1>6, <2>1 DEF JobType, Heard
  <2>2. CASE w # "ok"
    BY <1>1, <1>5, <2>2 DEF JobType, Heard
  <2> QED
    BY <2>1, <2>2
<1> HIDE DEF x
<1>8. Heard(r, x, w, v, <<"heading", 1>>, FALSE)
  BY <1>5, <1>7, <1>a DEF Heard
<1>9. JobOK(x)
  BY <1>1, <1>7, <1>8, HeadingOK
<1> QED
  BY <1>4, <1>9 DEF Keeps, JobOK

\* The steps with which a result begins and ends.
LEMMA EndsOK ==
    ASSUME JInv, NEW j \in Jobs,
           (\E form \in Forms, first \in BOOLEAN : Begin(j, form, first)) \/ Conclude(j) \/ Notify(j) \/ Enqueue(j)
    PROVE  Keeps(j)
<1>1. ASSUME NEW form \in Forms, NEW first \in BOOLEAN, Begin(j, form, first) PROVE Keeps(j)
  <2> DEFINE r == [NoJob EXCEPT !.form = form, !.first = first]
  <2>1. Set(j, CASE form = "brief" -> ToBody(r)
                 [] form = "files" -> [r EXCEPT !.pc = "heading"]
                 [] OTHER -> [r EXCEPT !.pc = "files", !.left = Files])
    BY <1>1 DEF Begin
  <2>2. /\ form = "brief" => JobOK(ToBody(r))
        /\ form = "files" => JobOK([r EXCEPT !.pc = "heading"])
        /\ form \in Whole => JobOK([r EXCEPT !.pc = "files", !.left = Files])
    <3>1. r \in JobType /\ r.form = form /\ r.seen = {} /\ ~ r.text
      BY DEF NoJob, JobType
    <3> HIDE DEF r
    <3> QED
      BY <3>1, BeginOK
  <2>3. form \in Whole \cup {"brief", "files"}
    BY DEF Forms, Whole
  <2> HIDE DEF r
  <2>4. CASE form = "brief"
    BY <2>1, <2>2, <2>4 DEF Keeps, JobOK
  <2>5. CASE form = "files"
    BY <2>1, <2>2, <2>5 DEF Keeps, JobOK
  <2>6. CASE form \in Whole
    <3>1. form # "brief" /\ form # "files"
      BY <2>6 DEF Whole
    <3> QED
      BY <2>1, <2>2, <2>6, <3>1 DEF Keeps, JobOK
  <2> QED
    BY <2>3, <2>4, <2>5, <2>6
<1>2. ASSUME NEW x, Set(j, x), x = NoJob \/ \E reason \in {"error", "succeeded", "ambiguous", "explicit_failure"} : x = Defer(reason)
      PROVE  Keeps(j)
  BY <1>2, NoJobOK DEF Keeps, JobOK
<1>3. CASE Conclude(j)
  <2>1. Outcome(job[j]) \in {"succeeded", "ambiguous", "explicit_failure"}
    BY DEF Outcome
  <2> QED
    BY <1>2, <1>3, <2>1 DEF Conclude
<1>4. CASE Notify(j)
  BY <1>2, <1>4 DEF Notify
<1>5. CASE Enqueue(j)
  BY <1>2, <1>5 DEF Enqueue
<1> QED
  BY <1>1, <1>3, <1>4, <1>5

LEMMA JobStep ==
    ASSUME JInv, [Next]_vars
    PROVE  JInv'
<1>1. ASSUME NEW j \in Jobs, Deliver(j) PROVE JInv'
  <2>1. Keeps(j)
    BY <1>1, SendFileOK, SendPageOK, SendBatchOK, SendFallbackOK, SendImageOK, SendHeadingOK, EndsOK
       DEF Deliver, SendCards, SendVoice, Batches
  <2>2. PICK x \in JobType : job' = [job EXCEPT ![j] = x] /\ JobOK(x)
    BY <2>1 DEF Keeps, Set
  <2> QED
    BY <2>2 DEF JInv
<1>2. CASE Crash
  BY <1>2, NoJobOK DEF Crash, JInv
<1>3. CASE job' = job
  BY <1>3 DEF JInv
<1> QED
  BY <1>1, <1>2, <1>3 DEF Next, Flush, StartFlush, List, SendDigest, Complete, Tick, vars

\* What the report of a result stands for, at every moment of its delivery.
THEOREM ResultInvariant == Spec => []JInv
<1>1. Init => JInv
  BY NoJobOK DEF Init, JInv
<1>2. JInv /\ [Next]_vars => JInv'
  BY JobStep
<1> QED
  BY <1>1, <1>2, PTL DEF Spec

LEMMA ResultHonest == JInv => OutcomeIsHonest
<1> SUFFICES ASSUME JInv, NEW j \in Jobs,
                    NEW r, r = job[j]
             PROVE  /\ r.pc = "verdict" /\ Outcome(r) = "explicit_failure" => r.seen = {}
                    /\ r.pc = "verdict" /\ Outcome(r) = "succeeded" =>
                          /\ Rest(r.form) \subseteq r.seen
                          /\ r.form # "files" => \E f \in BodyForms : Body(f) \subseteq r.seen
                    /\ Cardinality({f \in BodyForms : Items(f, Pages) \cap r.seen # {}}) <= 1
  BY DEF OutcomeIsHonest
<1>1. JobOK(r)
  BY DEF JInv
<1>2. ASSUME r.pc = "verdict", Outcome(r) = "explicit_failure" PROVE r.seen = {}
  <2>1. ~ Begun(r)
    BY <1>2 DEF Begun
  <2> QED
    BY <1>1, <1>2, <2>1 DEF JobOK, AccountOK, Outcome
<1>3. ASSUME r.pc = "verdict", Outcome(r) = "succeeded"
      PROVE  /\ Rest(r.form) \subseteq r.seen
             /\ r.form # "files" => \E f \in BodyForms : Body(f) \subseteq r.seen
  <2>1. ~ r.failed /\ r.form \in Forms
    BY <1>1, <1>3 DEF Outcome, JobOK, PlaceOK
  <2>2. /\ r.form \in Whole => Some("file", 1, Files, r.seen)
        /\ r.form # "files" => \E f \in BodyForms : Body(f) \subseteq r.seen
        /\ r.form = "files" => <<"heading", 1>> \in r.seen
        /\ r.form # "brief" => Some("image", 1, Links(r.form), r.seen)
    BY <1>1, <1>3, <2>1 DEF JobOK, CompleteOK
  <2>3. \A kind, n : Some(kind, 1, n, r.seen) => Items(kind, n) \subseteq r.seen
    BY DEF Some, Items
  <2>4. CASE r.form = "brief"
    BY <2>2, <2>4 DEF Rest
  <2>5. CASE r.form = "files"
    BY <2>2, <2>3, <2>5 DEF Rest, Links
  <2>6. CASE r.form \in Whole
    BY <2>2, <2>3, <2>6 DEF Rest, Links, Whole
  <2> QED
    BY <2>1, <2>2, <2>4, <2>5, <2>6 DEF Forms, Whole
<1>4. Cardinality({f \in BodyForms : Items(f, Pages) \cap r.seen # {}}) <= 1
  <2> DEFINE S == {f \in BodyForms : Items(f, Pages) \cap r.seen # {}}
  <2>1. PICK g \in BodyForms : SeenAs(r) \subseteq {g}
    <3>1. CASE r.pc \in {"idle", "defer"}
      BY <1>1, <3>1, FormNames DEF JobOK, PlaceOK, SeenAs
    <3>2. CASE r.pc \in {"files", "heading", "fallback"}
      BY <1>1, <3>2, FormNames DEF JobOK, OneFormOK
    <3>3. CASE r.pc = "body"
      BY <1>1, <3>3, FormNames DEF JobOK, OneFormOK, PlaceOK, Whole
    <3>4. CASE r.pc \in {"images", "verdict"}
      BY <1>1, <3>4 DEF JobOK, OneFormOK
    <3> QED
      BY <1>1, <3>1, <3>2, <3>3, <3>4 DEF JobOK, JobType
  <2>2. S \subseteq SeenAs(r)
    BY Sizes DEF SeenAs, Items
  <2>3. S \subseteq {g}
    BY <2>1, <2>2
  <2> HIDE DEF S
  <2>4. IsFiniteSet({g}) /\ Cardinality({g}) = 1
    BY FS_Singleton
  <2>5. Cardinality(S) <= Cardinality({g})
    BY <2>3, <2>4, FS_Subset
  <2> QED
    BY <2>4, <2>5 DEF S
<1> QED
  BY <1>2, <1>3, <1>4

\* What deliverReplyPlan concludes is what the user sees, in every form a
\* result can take, for any number of files, pages and image links and every
\* answer that is lost.
THEOREM OutcomesHonest == Spec => []OutcomeIsHonest
BY ResultInvariant, ResultHonest, PTL

=============================================================================
