---------------------------- MODULE IngressProofs ----------------------------
(***************************************************************************)
(* For every number of messages, every kind of message and every bound:    *)
(* no message is skipped, a message acts once, what was typed on the       *)
(* unlock page stays there, and a draft piece has one fate.                *)
(*                                                                         *)
(* The inductive invariant IInv has one part per idea: what the cursors    *)
(* stand for (Cursors), where the message being handled lies in its batch  *)
(* (Place), which table remembers what a message did (Marks), what the     *)
(* handler knows of its message at each step (Step), and how draft,        *)
(* requests and history share the pieces (Pieces).                         *)
(***************************************************************************)
EXTENDS Ingress, TLAPS

Upto == 0..MaxMessages
Log == 1..Len(sent)
Message == [kind : Kinds, key : BOOLEAN]
Cursor == [buf : Upto, pending : Upto, consumed : SUBSET Msgs]
Target == Intents \cup {"none"}
DraftRow == [target : Target, text : BOOLEAN, pieces : SUBSET Msgs, submit : Upto, live : BOOLEAN]
RequestRow == [target : Target, pieces : SUBSET Msgs]
Steps == {"poll", "route", "act", "answer", "draft", "capture", "begin", "settle", "handled",
          "commit"}

\* What the parts below need of the types: all that is recorded of messages
\* is recorded of messages that were sent.
Shapes ==
    /\ sent \in Seq(Message) /\ Len(sent) \in Upto
    /\ offer \in [buf : Upto, from : Upto, to : Upto] /\ acked \in Upto
    /\ sync \in Cursor /\ mon \in Cursor
    /\ pc \in Steps /\ at \in Upto
    /\ UNION {receipts, added, codes, cleared} \subseteq Log
    /\ draft \in DraftRow /\ draft.submit <= Len(sent)
    /\ requests \in [Msgs -> RequestRow]
    /\ call \in [expect : Target, target : Target] /\ current \in Intents
    /\ effects \in [Msgs -> Nat] /\ home \in [Msgs -> Target]

\* A cursor that is stored, held or presented has only handled messages
\* before it, and a key is consumed only for a handled message.
Cursors ==
    /\ mon.consumed \cup sync.consumed \subseteq handled
    /\ \A m \in Msgs : m <= acked \/ m <= sync.buf \/ m <= mon.buf => m \in handled

\* In a batch, the messages before the one being handled are handled.
Handling == Steps \ {"poll", "commit"}
Place ==
    /\ pc \in Handling => /\ at \in Log /\ at <= offer.to
                          /\ offer.to <= Len(sent)
                          /\ \A m \in Msgs : m < at => m \in handled
    /\ pc = "commit" => \A m \in Msgs : m <= offer.to => m \in handled

\* The kinds of message that get to the drafts.
Draftable == AllKinds \ {"other", "open", "number", "command"}
OnRecord(m) == requests[m] # NoRequest

\* A message that did something has a receipt of the menus, a receipt of the
\* drafts or a request; only one with an identifier has any of them.
Marks ==
    /\ \A m \in receipts : Keyed(m) /\ ~ Attachment(m)
    /\ \A m \in added : Keyed(m) /\ Kind(m) \in Draftable
    /\ \A m \in Msgs : OnRecord(m) => m \in Log /\ Keyed(m)
    /\ \A m \in cleared : OnRecord(m)
    /\ \A m \in codes : ~ OnRecord(m) /\ m \notin added /\ (Keyed(m) => m \in receipts)
    /\ \A m \in Msgs : effects[m] > 0 => m \in receipts \cup added \/ OnRecord(m)
    /\ EffectOnce

\* What the handler knows of its message at each step.
Drafting == {"draft", "capture", "begin", "settle"}
Starting == {"capture", "begin", "settle"}
Step ==
    /\ pc = "act" => /\ Shortcut(at) => Keyed(at)
                     /\ Keyed(at) => at \in receipts
                     /\ effects[at] = 0 \/ (effects[at] = 1 /\ at \in added /\ Unlocking)
    /\ pc \in Drafting => at \notin receipts /\ Kind(at) \in Draftable
    /\ pc \in {"draft", "capture", "begin"} => ~ OnRecord(at)
    /\ pc \in Starting => /\ Keyed(at) /\ at \notin added
                          /\ call.expect = "none" => draft = NoDraft
                          /\ call.expect # "none" => /\ Kind(at) = "submit" /\ draft.submit = at
                                                     /\ draft.target = call.expect
    /\ pc = "begin" => call.target \in Intents /\ (call.expect # "none" => call.target = call.expect)
    /\ pc = "settle" => call.expect # "none" /\ OnRecord(at)

\* The draft's submission is on record.
Taken == draft.submit # 0 /\ OnRecord(draft.submit)

\* The pieces of the draft and of the requests have receipts, and belong to
\* the target of their draft; a draft whose submission is on record is the one
\* that was submitted, any other shares no piece with a request.
Pieces ==
    /\ draft.pieces \subseteq added
    /\ \A m \in Msgs : requests[m].pieces \subseteq added
    /\ \A p \in draft.pieces : home[p] = draft.target
    /\ draft = NoDraft \/ draft.target \in Intents
    /\ Taken => draft.pieces \subseteq requests[draft.submit].pieces
    /\ ~ Taken => \A m \in Msgs : draft.pieces \cap requests[m].pieces = {}
    /\ DraftKept

IInv == Shapes /\ Cursors /\ Place /\ Marks /\ Step /\ Pieces

-----------------------------------------------------------------------------
(* Frames: what keeps a part of the invariant when a step leaves its state   *)
(* alone.                                                                    *)

LEMMA Bounds == MaxMessages \in Nat /\ Upto \subseteq Nat /\ Msgs = Upto \ {0} /\ 0 \in Upto
BY IngressAssumption DEF Upto, Msgs

LEMMA LogFacts ==
    ASSUME Shapes
    PROVE  /\ Log \subseteq Msgs /\ 0 \notin Log
           /\ \A m \in Log : sent[m] \in Message /\ Keyed(m) \in BOOLEAN /\ Kind(m) \in AllKinds
<1>1. Log \subseteq Msgs /\ 0 \notin Log
  BY Bounds DEF Shapes, Log, Upto
<1>2. \A m \in Log : sent[m] \in Message
  BY DEF Shapes, Log
<1> QED
  BY <1>1, <1>2, IngressAssumption DEF Message, Keyed, Kind

LEMMA CursorsKept ==
    ASSUME Cursors, UNCHANGED <<handled, mon, sync, acked>>
    PROVE  Cursors'
BY DEF Cursors

LEMMA MarksKept ==
    ASSUME Marks, UNCHANGED <<sent, receipts, added, requests, cleared, codes, effects>>
    PROVE  Marks'
<1>1. EffectOnce'
  BY DEF Marks, EffectOnce, UnlocksAgain, Kind
<1>2. \A m : (Kind(m))' = Kind(m) /\ (Keyed(m))' = Keyed(m) /\ (OnRecord(m))' = OnRecord(m)
  BY DEF Kind, Keyed, OnRecord
<1> QED
  BY <1>1, <1>2 DEF Marks, Attachment, Log

LEMMA PiecesKept ==
    ASSUME Pieces, UNCHANGED <<sent, draft, added, requests, gone, home>>
    PROVE  Pieces'
<1>1. DraftKept'
  BY DEF Pieces, DraftKept, DraftCommand, Kind, Submitted
<1> QED
  BY <1>1 DEF Pieces, Taken, OnRecord

LEMMA PlaceKept ==
    ASSUME Place, pc \in Handling, UNCHANGED <<sent, at, offer, handled>>,
           pc' \in Handling \cup {"poll"}
    PROVE  Place'
BY DEF Place, Handling, Steps, Log

LEMMA PlacePolling ==
    ASSUME pc' = "poll"
    PROVE  Place' /\ Step'
BY DEF Place, Handling, Step, Drafting, Starting

\* Steps at which the handler needs to know nothing of its message.
LEMMA StepFree ==
    ASSUME pc' \notin Drafting \cup {"act"}
    PROVE  Step'
BY DEF Step, Drafting, Starting

\* A step that only moves the handler on.
LEMMA ShapesKept ==
    ASSUME Shapes,
           UNCHANGED <<sent, offer, acked, sync, mon, receipts, added, codes, cleared, draft,
                       requests, call, current, effects, home>>,
           pc' \in Steps, at' \in Upto
    PROVE  Shapes'
BY DEF Shapes, Log

\* The handler fails: the batch is given up.
LEMMA FailsFacts ==
    ASSUME NEW step, Fails(step)
    PROVE  pc = step /\ pc' = "poll" /\ at' = 0 /\ UNCHANGED outside
BY DEF Fails, Trouble, Goto

\* processBatch: when all up to m is handled and only handled messages are
\* consumed, the next message of the batch is in its place.
LEMMA ProceedPlace ==
    ASSUME Shapes, NEW m \in Upto, NEW consumed, consumed \subseteq handled',
           \A k \in Msgs : k <= m => k \in handled',
           offer'.to \in Upto, offer'.to <= Len(sent'), Len(sent') \in Upto,
           Proceed(offer', m, consumed)
    PROVE  Place' /\ Step' /\ at' \in Upto /\ pc' \in {"route", "commit"}
<1> DEFINE left == (m + 1)..offer'.to \ consumed
<1>0. m \in Nat /\ offer'.to \in Nat /\ Len(sent') \in Nat /\ MaxMessages \in Nat /\ offer'.to <= MaxMessages
  BY Bounds DEF Upto
<1>1. \A k \in Msgs : k <= offer'.to /\ k \notin left => k \in handled'
  <2> SUFFICES ASSUME NEW k \in Msgs, k <= offer'.to, k \notin left PROVE k \in handled'
    OBVIOUS
  <2>1. k \in Nat
    BY Bounds
  <2>2. k <= m \/ k \in (m + 1)..offer'.to
    BY <1>0, <2>1
  <2> QED
    BY <2>2
<1>2. CASE left = {}
  <2>1. at' = 0 /\ pc' = "commit"
    BY <1>2 DEF Proceed, Goto
  <2> QED
    BY <1>1, <1>2, <2>1, Bounds DEF Place, Step, Handling, Drafting, Starting
<1>3. CASE left # {}
  <2>1. pc' = "route" /\ \E n \in left : (\A k \in left : n <= k) /\ at' = n
    BY <1>3 DEF Proceed, Goto
  <2>2. PICK n \in left : (\A k \in left : n <= k) /\ at' = n
    BY <2>1
  <2>3. n \in 1..offer'.to /\ n <= offer'.to /\ n \in 1..Len(sent') /\ n \in Upto
    BY <1>0, <2>2 DEF Upto
  <2>4. \A k \in Msgs : k < n => k \in handled'
    <3> SUFFICES ASSUME NEW k \in Msgs, k < n PROVE k \in handled'
      OBVIOUS
    <3>1. k \in Nat /\ k <= offer'.to /\ ~ (n <= k)
      BY <1>0, <2>3, Bounds
    <3>2. k \notin left
      BY <2>2, <3>1
    <3> QED
      BY <1>1, <3>1, <3>2
  <2>5. Step'
    BY <2>1, StepFree DEF Drafting
  <2>6. Place'
    BY <2>1, <2>2, <2>3, <2>4 DEF Place, Log
  <2> QED
    BY <2>1, <2>2, <2>3, <2>5, <2>6
<1> QED
  BY <1>2, <1>3

-----------------------------------------------------------------------------
(* The monitor: a batch arrives, a message is consumed, a cursor committed.  *)

\* Messages that are still to be sent leave those that were as they are.
LEMMA SentFacts ==
    ASSUME Shapes, NEW n \in Upto, n > Len(sent), Sent(n)
    PROVE  /\ sent' \in Seq(Message) /\ Len(sent') = n
           /\ \A m \in Log : sent'[m] = sent[m]
<1>1. PICK more \in [1..n - Len(sent) -> [kind : Kinds, key : {TRUE, ~Bare}]] : sent' = sent \o more
  BY DEF Sent
<1>2. n \in Nat /\ Len(sent) \in Nat /\ n - Len(sent) \in Nat
  BY Bounds DEF Shapes, Upto
<1>3. more \in [1..n - Len(sent) -> Message]
  BY <1>1, IngressAssumption DEF Message
<1>4. more \in Seq(Message) /\ Len(more) = n - Len(sent)
  BY <1>2, <1>3
<1> QED
  BY <1>1, <1>2, <1>4 DEF Shapes, Log

\* The tables speak only of messages that were sent, so that new ones do not
\* matter to them.
LEMMA MarksGrow ==
    ASSUME Shapes, Marks, \A m \in Log : sent'[m] = sent[m], Log \subseteq Log',
           UNCHANGED <<receipts, added, requests, cleared, codes, effects>>
    PROVE  Marks'
<1>1. \A m \in Log : (Kind(m))' = Kind(m) /\ (Keyed(m))' = Keyed(m)
  BY DEF Kind, Keyed
<1>2. receipts \subseteq Log /\ added \subseteq Log /\ codes \subseteq Log /\ cleared \subseteq Log
  BY DEF Shapes
<1>3. EffectOnce'
  BY <1>1, <1>2 DEF Marks, EffectOnce, UnlocksAgain
<1> QED
  BY <1>1, <1>2, <1>3 DEF Marks, Attachment, OnRecord

LEMMA PiecesGrow ==
    ASSUME Shapes, Pieces, \A m \in Log : sent'[m] = sent[m],
           UNCHANGED <<draft, added, requests, gone, home>>
    PROVE  Pieces'
<1>1. \A m \in added : (DraftCommand(m))' = DraftCommand(m)
  BY DEF DraftCommand, Kind, Shapes
<1>2. DraftKept'
  BY <1>1 DEF Pieces, DraftKept, Submitted
<1> QED
  BY <1>2 DEF Pieces, Taken, OnRecord

LEMMA PollKeeps ==
    ASSUME IInv, Poll
    PROVE  IInv'
<1> USE DEF IInv
<1>1. PICK b \in Batches :
        /\ b.from < b.to
        /\ offer' = b
        /\ IF b.to > Len(sent) THEN Sent(b.to) ELSE UNCHANGED sent
        /\ IF SameCursor(b) THEN /\ mon' = [mon EXCEPT !.pending = b.to]
                                 /\ Proceed(b, b.from, mon.consumed)
                            ELSE UNCHANGED <<mon, at, pc>>
  BY DEF Poll
<1>2. /\ pc = "poll"
      /\ UNCHANGED <<acked, sync, receipts, draft, added, gone, home, requests, rejected, cleared,
                     locked, current, menu, call, handled, effects, codes>>
  BY DEF Poll, drafts, tasks
<1>3. /\ b \in [buf : Upto, from : Upto, to : Upto] /\ b.to \in Msgs
      /\ b.from <= acked \/ b.from = mon.buf
  <2>1. acked \in Upto /\ mon.buf \in Upto /\ 0..acked \subseteq Upto
    BY Bounds DEF Shapes, Cursor, Upto
  <2>2. b \in [buf : {mon.buf}, from : 0..acked \cup {mon.buf}, to : Msgs]
    BY <2>1, Bounds DEF Batches
  <2>3. b.from \in 0..acked \cup {mon.buf}
    BY <2>2
  <2>4. acked \in Nat
    BY <2>1, Bounds
  <2>5. b.from <= acked \/ b.from = mon.buf
    BY <2>3, <2>4
  <2> QED
    BY <2>1, <2>2, <2>5, Bounds
<1>4. /\ sent' \in Seq(Message) /\ Len(sent') \in Upto /\ b.to <= Len(sent') /\ Len(sent) <= Len(sent')
      /\ \A m \in Log : sent'[m] = sent[m]
  <2>1. Len(sent) \in Nat /\ b.to \in Nat /\ b.to \in Upto
    BY <1>3, Bounds DEF Shapes
  <2>2. CASE b.to > Len(sent)
    BY <1>1, <2>1, <2>2, SentFacts
  <2>3. CASE ~ (b.to > Len(sent))
    BY <1>1, <2>1, <2>3 DEF Shapes
  <2> QED
    BY <2>2, <2>3
<1>5. Log \subseteq Log'
  <2>1. Len(sent) \in Nat /\ Len(sent') \in Nat /\ Len(sent) <= Len(sent')
    BY <1>4, Bounds DEF Shapes
  <2> QED
    BY <2>1 DEF Log
<1>6. Marks' /\ Pieces'
  BY <1>2, <1>4, <1>5, MarksGrow, PiecesGrow
<1>7. Cursors' /\ mon' \in Cursor
  <2>1. mon' = mon \/ mon' = [mon EXCEPT !.pending = b.to]
    BY <1>1
  <2>2. mon' \in Cursor /\ mon'.consumed = mon.consumed /\ mon'.buf = mon.buf
    BY <2>1, <1>3, Bounds DEF Shapes, Cursor
  <2> QED
    BY <1>2, <2>2 DEF Cursors
<1>8. Place' /\ Step' /\ pc' \in Steps /\ at' \in Upto
  <2>1. CASE SameCursor(b)
    <3>1. Proceed(offer', b.from, mon.consumed)
      BY <1>1, <2>1
    <3>2. mon.consumed \subseteq handled'
      BY <1>2 DEF Cursors
    <3>3. \A k \in Msgs : k <= b.from => k \in handled'
      <4> SUFFICES ASSUME NEW k \in Msgs, k <= b.from PROVE k \in handled
        BY <1>2
      <4>1. k \in Nat /\ b.from \in Nat /\ acked \in Nat
        BY <1>3, Bounds DEF Shapes
      <4>2. k <= acked \/ k <= mon.buf
        BY <1>3, <4>1
      <4> QED
        BY <4>2 DEF Cursors
    <3>4. b.from \in Upto /\ offer'.to \in Upto /\ offer'.to <= Len(sent')
      BY <1>1, <1>3, <1>4
    <3>5. Place' /\ Step' /\ at' \in Upto /\ pc' \in {"route", "commit"}
      BY <1>4, <3>1, <3>2, <3>3, <3>4, ProceedPlace
    <3> QED
      BY <3>5 DEF Steps
  <2>2. CASE ~ SameCursor(b)
    BY <1>1, <1>2, <2>2, PlacePolling DEF Shapes
  <2> QED
    BY <2>1, <2>2
<1>9. Shapes'
  <2>1. draft'.submit <= Len(sent')
    <3>1. draft.submit \in Nat /\ Len(sent) \in Nat /\ Len(sent') \in Nat
      BY <1>4, Bounds DEF Shapes, DraftRow
    <3> QED
      BY <1>2, <1>4, <3>1 DEF Shapes
  <2> QED
    BY <1>1, <1>2, <1>3, <1>4, <1>5, <1>7, <1>8, <2>1 DEF Shapes
<1> QED
  BY <1>6, <1>7, <1>8, <1>9

LEMMA SessionExpiredKeeps ==
    ASSUME IInv, SessionExpired
    PROVE  IInv'
<1> USE DEF IInv
<1>1. /\ pc = "poll" /\ pc' = pc /\ at' = at /\ offer' = NoOffer
      /\ \/ sync' = NoSync /\ mon' = NoSync
         \/ mon' = sync /\ UNCHANGED sync
      /\ UNCHANGED <<sent, acked, receipts, draft, added, gone, home, requests, cleared, current,
                     call, handled, effects, codes>>
  BY DEF SessionExpired, drafts, tasks
<1>2. NoSync \in Cursor /\ NoSync.consumed = {} /\ NoSync.buf = 0
  BY Bounds DEF NoSync, Cursor
<1>3. Marks' /\ Pieces' /\ Place' /\ Step'
  BY <1>1, MarksKept, PiecesKept, PlacePolling
<1>4. Cursors'
  <2>1. \A m \in Msgs : ~ (m <= 0)
    BY Bounds
  <2>2. CASE sync' = NoSync /\ mon' = NoSync
    BY <1>1, <1>2, <2>1, <2>2 DEF Cursors
  <2>3. CASE mon' = sync /\ UNCHANGED sync
    BY <1>1, <2>3 DEF Cursors
  <2> QED
    BY <1>1, <2>2, <2>3
<1>5. Shapes'
  <2>1. offer' \in [buf : Upto, from : Upto, to : Upto]
    BY <1>1, Bounds DEF NoOffer
  <2>2. sync' \in Cursor /\ mon' \in Cursor
    BY <1>1, <1>2 DEF Shapes
  <2> QED
    BY <1>1, <2>1, <2>2 DEF Shapes, Log
<1> QED
  BY <1>3, <1>4, <1>5

LEMMA ConsumeKeeps ==
    ASSUME IInv, Consume
    PROVE  IInv'
<1> USE DEF IInv
<1>1. /\ pc = "handled" /\ handled' = handled \cup {at} /\ call' = NoCall
      /\ UNCHANGED <<sent, offer, acked, receipts, draft, added, gone, home, requests, cleared,
                     current, effects, codes>>
  BY FailsFacts DEF Consume, wechat, drafts, tasks
<1>2. at \in Log /\ at \in Msgs /\ at <= offer.to /\ \A m \in Msgs : m < at => m \in handled
  BY <1>1, LogFacts DEF Place, Handling, Steps
<1>o. offer.to <= Len(sent)
  BY <1>1 DEF Place, Handling, Steps
<1> DEFINE c == IF Keyed(at) THEN mon.consumed \cup {at} ELSE mon.consumed
<1>3. /\ mon' = [mon EXCEPT !.consumed = c]
      /\ sync' = sync \/ sync' = [buf |-> mon.buf, pending |-> mon.pending, consumed |-> c]
  BY DEF Consume, Receipt
<1>4. c \subseteq handled' /\ c \subseteq Msgs
  BY <1>1, <1>2 DEF Cursors, Shapes, Cursor
<1> HIDE DEF c
<1>m. mon \in Cursor /\ sync \in Cursor /\ mon.buf \in Upto /\ mon.pending \in Upto
  BY DEF Shapes, Cursor
<1>n. mon' \in Cursor
  BY <1>3, <1>4, <1>m DEF Cursor
<1>s. [buf |-> mon.buf, pending |-> mon.pending, consumed |-> c] \in Cursor
  BY <1>4, <1>m DEF Cursor
<1>5. mon' \in Cursor /\ sync' \in Cursor
  BY <1>3, <1>m, <1>n, <1>s
<1>6. mon'.consumed = c /\ mon'.buf = mon.buf
  BY <1>3 DEF Shapes, Cursor
<1>7. Cursors'
  <2>1. CASE sync' = sync
    BY <1>1, <1>4, <1>6, <2>1 DEF Cursors
  <2>2. CASE sync' = [buf |-> mon.buf, pending |-> mon.pending, consumed |-> c]
    <3>1. sync'.buf = mon.buf /\ sync'.consumed = c
      BY <2>2
    <3> QED
      BY <1>1, <1>4, <1>6, <3>1 DEF Cursors
  <2> QED
    BY <1>3, <2>1, <2>2
<1>8. Marks' /\ Pieces'
  BY <1>1, MarksKept, PiecesKept
<1>9. Place' /\ Step' /\ pc' \in Steps /\ at' \in Upto
  <2>1. CASE Proceed(offer, at, mon'.consumed)
    <3>1. Proceed(offer', at, c)
      BY <1>1, <1>6, <2>1
    <3>2. \A k \in Msgs : k <= at => k \in handled'
      <4> SUFFICES ASSUME NEW k \in Msgs, k <= at PROVE k \in handled'
        OBVIOUS
      <4>1. k < at \/ k = at
        BY <1>2, Bounds
      <4> QED
        BY <1>1, <1>2, <4>1
    <3>3. at \in Upto /\ offer'.to \in Upto /\ Len(sent') \in Upto
      BY <1>1, <1>2, Bounds DEF Shapes
    <3>4. offer'.to <= Len(sent')
      BY <1>1, <1>o
    <3>5. Place' /\ Step' /\ at' \in Upto /\ pc' \in {"route", "commit"}
      BY <1>4, <3>1, <3>2, <3>3, <3>4, ProceedPlace
    <3> QED
      BY <3>5 DEF Steps
  <2>2. CASE Fails("handled")
    <3>1. pc' = "poll" /\ at' = 0
      BY <2>2, FailsFacts
    <3> QED
      BY <3>1, PlacePolling, Bounds DEF Steps
  <2> QED
    BY <2>1, <2>2 DEF Consume
<1>10. Shapes'
  <2>1. call' \in [expect : Target, target : Target]
    BY <1>1 DEF NoCall, Target
  <2> QED
    BY <1>1, <1>5, <1>9, <2>1 DEF Shapes, Log
<1> QED
  BY <1>7, <1>8, <1>9, <1>10

LEMMA CommitKeeps ==
    ASSUME IInv, Commit
    PROVE  IInv'
<1> USE DEF IInv
<1>1. /\ pc = "commit" /\ pc' = "poll" /\ at' \in {0, at}
      /\ UNCHANGED <<sent, receipts, draft, added, gone, home, requests, cleared,
                     current, call, handled, effects, codes>>
  BY FailsFacts DEF Commit, Stay, Goto, drafts, tasks
<1>2. Marks' /\ Pieces' /\ Place' /\ Step' /\ pc' \in Steps /\ at' \in Upto
  BY <1>1, MarksKept, PiecesKept, PlacePolling, Bounds DEF Steps, Shapes
<1>3. CASE UNCHANGED <<sync, mon, acked, offer>>
  BY <1>1, <1>2, <1>3, CursorsKept, ShapesKept
<1>4. CASE /\ sync' = [NoSync EXCEPT !.buf = offer.to] /\ mon' = sync'
           /\ acked' = IF offer.to > acked THEN offer.to ELSE acked
           /\ offer' = NoOffer
  <2>1. sync' = [buf |-> offer.to, pending |-> 0, consumed |-> {}] /\ mon' = sync'
    BY <1>4 DEF NoSync
  <2>2. \A m \in Msgs : m <= offer.to => m \in handled
    BY <1>1 DEF Place
  <2>o. offer.to \in Upto /\ acked \in Upto
    BY DEF Shapes
  <2>a. sync' \in Cursor /\ mon' \in Cursor
    BY <2>1, <2>o, Bounds DEF Cursor
  <2>b. offer' \in [buf : Upto, from : Upto, to : Upto]
    BY <1>4, Bounds DEF NoOffer
  <2>3. /\ sync' \in Cursor /\ mon' \in Cursor /\ acked' \in Upto
        /\ offer' \in [buf : Upto, from : Upto, to : Upto]
    BY <1>4, <2>o, <2>a, <2>b
  <2>4. acked' = offer.to \/ acked' = acked
    BY <1>4
  <2>5. Cursors'
    BY <1>1, <2>1, <2>2, <2>4 DEF Cursors
  <2>6. Shapes'
    BY <1>1, <1>2, <2>3 DEF Shapes, Log
  <2> QED
    BY <1>2, <2>5, <2>6
<1> QED
  BY <1>3, <1>4 DEF Commit

-----------------------------------------------------------------------------
(* HandleMessage and its menus.                                              *)

\* The message being handled.
LEMMA AtFacts ==
    ASSUME IInv, pc \in Handling
    PROVE  /\ at \in Log /\ at \in Msgs /\ at # 0 /\ Keyed(at) \in BOOLEAN /\ Kind(at) \in AllKinds
           /\ sent[at] \in Message
BY LogFacts DEF IInv, Place

\* A part of the handler that leaves the monitor and the messages alone.
LEMMA HandlerKeeps ==
    ASSUME IInv, pc \in Handling, UNCHANGED <<sent, offer, acked, sync, mon, handled>>,
           \/ pc' \in Handling /\ UNCHANGED at
           \/ pc' = "poll" /\ at' = 0
    PROVE  Cursors' /\ Place' /\ pc' \in Steps /\ at' \in Upto
<1>1. Cursors' /\ Place'
  BY CursorsKept, PlaceKept, PlacePolling DEF IInv
<1> QED
  BY <1>1, Bounds DEF IInv, Shapes, Handling, Steps

LEMMA AnswerKeeps ==
    ASSUME IInv, Answer
    PROVE  IInv'
<1>1. /\ pc = "answer"
      /\ (pc' = "handled" /\ UNCHANGED at) \/ (pc' = "poll" /\ at' = 0)
      /\ UNCHANGED <<sent, offer, acked, sync, mon, handled, receipts, draft, added, gone, home,
                     requests, cleared, current, call, effects, codes>>
  BY FailsFacts DEF Answer, Goto, Stay, wechat, drafts, tasks
<1>2. pc \in Handling /\ "handled" \in Handling
  BY <1>1 DEF Handling, Steps
<1>3. Cursors' /\ Place' /\ pc' \in Steps /\ at' \in Upto
  BY <1>1, <1>2, HandlerKeeps
<1>4. Marks' /\ Pieces' /\ Step' /\ Shapes'
  BY <1>1, <1>3, MarksKept, PiecesKept, StepFree, ShapesKept DEF IInv, Drafting
<1> QED
  BY <1>3, <1>4 DEF IInv

\* A message that goes past the menus is new to them, and of a kind the
\* drafts know.
LEMMA PastMenus ==
    ASSUME IInv, pc = "route", Fresh, Attachment(at) \/ ~ MenuInput(at)
    PROVE  at \notin receipts /\ Kind(at) \in Draftable /\ ~ OnRecord(at)
<1>1. at \in Log /\ at \in Msgs /\ Kind(at) \in AllKinds /\ Keyed(at) \in BOOLEAN
  BY AtFacts DEF Handling, Steps
<1>2. Kind(at) \in Draftable
  <2>1. Kind(at) # "other"
    BY DEF Fresh, Ignored
  <2>2. Kind(at) \notin {"open", "number", "command"}
    BY DEF Attachment, MenuInput, Shortcut
  <2> QED
    BY <1>1, <2>1, <2>2 DEF Draftable
<1>3. at \notin receipts
  BY DEF Fresh, Repeated, IInv, Marks
<1>4. ~ OnRecord(at)
  BY <1>1 DEF Fresh, Ignored, Acknowledged, Known, IInv, Marks, OnRecord
<1> QED
  BY <1>2, <1>3, <1>4

LEMMA RouteActs ==
    ASSUME IInv, pc = "route", UNCHANGED <<at, menu>>, pc' = "act",
           Fresh, ~ Attachment(at), MenuInput(at), Shortcut(at) => Keyed(at),
           receipts' = Recorded, codes' = IF Unlocking THEN codes \cup ({at} \ added) ELSE codes,
           UNCHANGED <<sent, draft, added, requests, cleared, effects, call, gone, home>>
    PROVE  Marks' /\ Step' /\ receipts' \cup codes' \subseteq Log
<1> USE DEF IInv
<1>1. at \in Log /\ at \in Msgs /\ Kind(at) \in AllKinds /\ Keyed(at) \in BOOLEAN
  BY AtFacts DEF Handling, Steps
<1>2. /\ receipts \subseteq receipts' /\ receipts' \subseteq receipts \cup {at}
      /\ Keyed(at) => at \in receipts'
      /\ at \in receipts' => at \in receipts \/ Keyed(at)
      /\ codes' \subseteq codes \cup ({at} \ added)
  BY DEF Recorded
<1>3. at \notin receipts /\ ~ OnRecord(at)
  BY <1>1 DEF Fresh, Ignored, Acknowledged, Known, Repeated, Marks, OnRecord
<1>4. at \in added => Unlocking
  BY DEF Marks, Draftable, MenuInput, Shortcut
<1>5. \A m : (Kind(m))' = Kind(m) /\ (Keyed(m))' = Keyed(m) /\ (OnRecord(m))' = OnRecord(m)
  BY DEF Kind, Keyed, OnRecord
<1>6. EffectOnce'
  BY <1>2, <1>5 DEF Marks, EffectOnce, UnlocksAgain
<1>7. Marks'
  <2>1. \A m \in receipts' : Keyed(m) /\ ~ Attachment(m)
    BY <1>2 DEF Marks
  <2>2. \A m \in codes' : ~ OnRecord(m) /\ m \notin added /\ (Keyed(m) => m \in receipts')
    BY <1>2, <1>3 DEF Marks
  <2>3. \A m \in Msgs : effects[m] > 0 => m \in receipts' \cup added \/ OnRecord(m)
    BY <1>2 DEF Marks
  <2> QED
    BY <1>5, <1>6, <2>1, <2>2, <2>3 DEF Marks, Attachment, Log
<1>8. effects[at] = 0 \/ (effects[at] = 1 /\ at \in added /\ Unlocking)
  <2>1. effects[at] \in Nat
    BY <1>1 DEF Shapes
  <2>2. effects[at] <= 1
    BY <1>1, <1>3 DEF Marks, EffectOnce, UnlocksAgain
  <2>3. effects[at] > 0 => at \in added
    BY <1>1, <1>3 DEF Marks
  <2> QED
    BY <1>4, <2>1, <2>2, <2>3
<1>9. Step'
  <2>1. (Shortcut(at) => Keyed(at))'
    BY DEF Shortcut, Unlocking, Kind, Keyed
  <2>2. (Keyed(at) => at \in receipts)'
    BY <1>2 DEF Keyed
  <2>3. (effects[at] = 0 \/ (effects[at] = 1 /\ at \in added /\ Unlocking))'
    BY <1>8 DEF Unlocking
  <2> QED
    BY <2>1, <2>2, <2>3 DEF Step, Drafting, Starting
<1> QED
  BY <1>1, <1>2, <1>7, <1>9 DEF Shapes

LEMMA RouteKeeps ==
    ASSUME IInv, Route
    PROVE  IInv'
<1>1. /\ pc = "route" /\ pc \in Handling
      /\ UNCHANGED <<sent, offer, acked, sync, mon, handled, draft, added, gone, home,
                     requests, cleared, current, call, effects>>
  BY FailsFacts DEF Route, wechat, drafts, tasks, Handling, Steps
<1>2. Pieces'
  BY <1>1, PiecesKept DEF IInv
<1>3. CASE /\ \/ pc' \in {"answer", "handled"} /\ UNCHANGED at
              \/ pc' = "poll" /\ at' = 0
           /\ UNCHANGED <<receipts, codes>>
  <2>1. Cursors' /\ Place' /\ pc' \in Steps /\ at' \in Upto
    BY <1>1, <1>3, HandlerKeeps DEF Handling, Steps
  <2>2. Marks' /\ Step' /\ Shapes'
    BY <1>1, <1>3, <2>1, MarksKept, StepFree, ShapesKept DEF IInv, Drafting
  <2> QED
    BY <1>2, <2>1, <2>2 DEF IInv
<1>4. CASE /\ Fresh /\ (Attachment(at) \/ ~ MenuInput(at))
           /\ pc' = "draft" /\ UNCHANGED <<at, receipts, codes>>
  <2>1. Cursors' /\ Place' /\ pc' \in Steps /\ at' \in Upto
    BY <1>1, <1>4, HandlerKeeps DEF Handling, Steps
  <2>2. at \notin receipts /\ Kind(at) \in Draftable /\ ~ OnRecord(at)
    BY <1>1, <1>4, PastMenus
  <2>3. at' \notin receipts' /\ (Kind(at) \in Draftable)' /\ (~ OnRecord(at))'
    BY <1>1, <1>4, <2>2 DEF Kind, OnRecord
  <2>4. Step'
    BY <1>4, <2>3 DEF Step, Drafting, Starting
  <2>5. Marks' /\ Shapes'
    BY <1>1, <1>4, <2>1, MarksKept, ShapesKept DEF IInv
  <2> QED
    BY <1>2, <2>1, <2>4, <2>5 DEF IInv
<1>5. CASE /\ Fresh /\ ~Attachment(at) /\ MenuInput(at) /\ (Shortcut(at) => Keyed(at))
           /\ receipts' = Recorded
           /\ codes' = IF Unlocking THEN codes \cup ({at} \ added) ELSE codes
           /\ pc' = "act" /\ UNCHANGED <<menu, at>>
  <2>1. Cursors' /\ Place' /\ pc' \in Steps /\ at' \in Upto
    BY <1>1, <1>5, HandlerKeeps DEF Handling, Steps
  <2>2. Marks' /\ Step' /\ receipts' \cup codes' \subseteq Log
    BY <1>1, <1>5, RouteActs
  <2>3. Shapes'
    BY <1>1, <2>1, <2>2 DEF IInv, Shapes, Log
  <2> QED
    BY <1>2, <2>1, <2>2, <2>3 DEF IInv
<1> QED
  <2>1. CASE pc = "route" /\ Stay /\ Ignored /\ pc' \in {"answer", "handled"} /\ UNCHANGED <<menu, receipts, codes>>
    BY <1>3, <2>1 DEF Stay
  <2>2. CASE Stay /\ Goto("answer") /\ UNCHANGED <<receipts, codes>>
    BY <1>3, <2>2 DEF Stay, Goto
  <2>3. CASE Stay /\ Fresh /\ (Attachment(at) \/ ~MenuInput(at)) /\ Enter /\ UNCHANGED <<receipts, codes>>
    BY <1>3, <1>4, <2>3 DEF Stay, Goto, Enter
  <2>4. CASE /\ Stay /\ Fresh /\ ~Attachment(at) /\ MenuInput(at) /\ (Shortcut(at) => Keyed(at))
             /\ receipts' = Recorded
             /\ codes' = IF Unlocking THEN codes \cup ({at} \ added) ELSE codes
             /\ Goto("act") /\ UNCHANGED menu
    BY <1>5, <2>4 DEF Stay, Goto
  <2>5. CASE Fails("route") /\ UNCHANGED <<menu, receipts, codes>>
    BY <1>3, <2>5, FailsFacts
  <2> QED
    BY <2>1, <2>2, <2>3, <2>4, <2>5 DEF Route

\* What an operation of the menu may do: count as an effect of its message
\* and release requests that are on record.
MenuMoves ==
    /\ effects' = effects \/ Did(at)
    /\ cleared \subseteq cleared' /\ \A m \in cleared' \ cleared : m \in Msgs /\ OnRecord(m)
    /\ current' \in Intents

LEMMA ShowMoves ==
    ASSUME Shapes, NEW p, Show(p) \/ Notice
    PROVE  MenuMoves /\ UNCHANGED effects
BY DEF Show, Notice, MenuMoves, Shapes

LEMMA ExecuteMoves ==
    ASSUME Shapes, NEW a, Execute(a)
    PROVE  MenuMoves
<1>1. CASE Notice \/ (a \in Pages /\ Show(a)) \/ (a = "running" /\ Show("session"))
  BY <1>1, ShowMoves
<1>2. CASE \E p \in {"session", "task"} : Show(p)
  BY <1>2, ShowMoves
<1>3. CASE Retarget
  BY <1>3 DEF Retarget, MenuMoves
<1>4. CASE Did(at) /\ UNCHANGED <<cleared, current>>
  BY <1>4 DEF MenuMoves, Shapes
<1>5. CASE \E r \in {m \in Msgs : requests[m] # NoRequest /\ m \notin cleared} :
             cleared' = cleared \cup {r} /\ Did(at) /\ UNCHANGED current
  BY <1>5 DEF MenuMoves, Shapes, OnRecord
<1> QED
  BY <1>1, <1>2, <1>3, <1>4, <1>5 DEF Execute

LEMMA CommandMoves ==
    ASSUME Shapes, Command
    PROVE  MenuMoves
<1>1. CASE menu' = Closed /\ UNCHANGED <<effects, cleared, locked, current>>
  BY <1>1 DEF MenuMoves, Shapes
<1>2. CASE \E p \in {"read", "confirm_redeliver", "unavailable"} : Show(p)
  BY <1>2, ShowMoves
<1> QED
  BY <1>1, <1>2, ExecuteMoves DEF Command

LEMMA MenuActMoves ==
    ASSUME IInv, MenuAct
    PROVE  /\ pc = "act" /\ MenuMoves
           /\ (pc' = "answer" /\ UNCHANGED at) \/ (pc' = "poll" /\ at' = 0)
           /\ UNCHANGED <<sent, offer, acked, sync, mon, handled, receipts, draft, added, gone, home,
                          requests, call, codes>>
           /\ effects' # effects => Keyed(at) /\ (Unlocking => Kind(at) = "code")
<1> USE DEF IInv
<1>1. UNCHANGED <<sent, offer, acked, sync, mon, handled, receipts, draft, added, gone, home,
                  requests, call, codes>>
  BY DEF MenuAct, wechat, drafts
<1>2. pc = "act" /\ ((pc' = "answer" /\ UNCHANGED at) \/ (pc' = "poll" /\ at' = 0))
  BY FailsFacts DEF MenuAct, Stay, Goto
<1>3. Shortcut(at) => Keyed(at) /\ ~ Unlocking
  BY <1>2 DEF Step, Shortcut
<1> DEFINE Goal == MenuMoves /\ (effects' # effects => Keyed(at) /\ (Unlocking => Kind(at) = "code"))
<1> SUFFICES Goal
  BY <1>1, <1>2
<1>4. ASSUME NEW p, Show(p) \/ Notice PROVE Goal
  BY <1>4, ShowMoves
<1>5. ASSUME Unlock, Keyed(at) PROVE Goal
  BY <1>5 DEF Unlock, MenuMoves, Shapes
<1>6. CASE Shortcut(at) /\ IF locked THEN Show("home") ELSE Command
  BY <1>3, <1>4, <1>6, CommandMoves
<1>7. CASE /\ menu' = Closed
           /\ UNCHANGED <<effects, cleared, locked, current>>
  BY <1>7 DEF MenuMoves, Shapes
<1>8. CASE Keyed(at) /\ ~ Unlocking /\ \E a \in Options[menu.page] : Execute(a)
  BY <1>8, ExecuteMoves
<1>9. CASE \/ (Fails("act") /\ Notice)
           \/ (Fails("act") /\ Keyed(at) /\ Unlocking /\ ~Stale /\ Unlock /\ UNCHANGED menu)
  BY <1>4, <1>5, <1>9
<1> QED
  <2>1. CASE /\ pc = "act" /\ Goto("answer") /\ Stay
             /\ \/ Shortcut(at) /\ IF locked THEN Show("home") ELSE Command
                \/ Kind(at) = "open" /\ Show("home")
                \/ Kind(at) # "open" /\ ~Shortcut(at) /\ Stale /\ Show("home")
    BY <1>4, <1>6, <2>1
  <2>2. CASE \/ ~Keyed(at) /\ Notice
             \/ /\ Keyed(at) /\ Unlocking
                /\ \/ Notice
                   \/ Unlock /\ menu' = [page |-> "home", closed |-> FALSE, fresh |-> TRUE]
             \/ Keyed(at) /\ ~Unlocking /\ locked /\ menu.page # "locked" /\ Show("home")
    BY <1>4, <1>5, <2>2
  <2> QED
    BY <1>7, <1>8, <1>9, <2>1, <2>2 DEF MenuAct

LEMMA MenuActKeeps ==
    ASSUME IInv, MenuAct
    PROVE  IInv'
<1> USE DEF IInv
<1>1. /\ pc = "act" /\ MenuMoves
      /\ (pc' = "answer" /\ UNCHANGED at) \/ (pc' = "poll" /\ at' = 0)
      /\ UNCHANGED <<sent, offer, acked, sync, mon, handled, receipts, draft, added, gone, home,
                     requests, call, codes>>
      /\ effects' # effects => Keyed(at) /\ (Unlocking => Kind(at) = "code")
  BY MenuActMoves
<1>2. Cursors' /\ Place' /\ pc' \in Steps /\ at' \in Upto
  BY <1>1, HandlerKeeps DEF Handling, Steps
<1>3. Pieces' /\ Step'
  BY <1>1, PiecesKept, StepFree DEF Drafting
<1>4. at \in Log /\ at \in Msgs /\ Kind(at) \in AllKinds /\ Keyed(at) \in BOOLEAN
  BY <1>1, AtFacts DEF Handling, Steps
<1>5. /\ effects' \in [Msgs -> Nat]
      /\ \A m \in Msgs \ {at} : effects'[m] = effects[m]
      /\ effects'[at] = effects[at] \/ (effects' # effects /\ effects'[at] = effects[at] + 1)
  <2>1. effects \in [Msgs -> Nat]
    BY DEF Shapes
  <2>2. CASE effects' = effects
    BY <2>1, <2>2
  <2>3. CASE effects' = [effects EXCEPT ![at] = @ + 1]
    BY <1>4, <2>1, <2>3
  <2> QED
    BY <1>1, <2>2, <2>3 DEF MenuMoves, Did
<1>6. \A m : (Kind(m))' = Kind(m) /\ (Keyed(m))' = Keyed(m) /\ (OnRecord(m))' = OnRecord(m)
  BY <1>1 DEF Kind, Keyed, OnRecord
<1>7. effects' # effects =>
        /\ at \in receipts
        /\ effects[at] = 0 \/ (effects[at] = 1 /\ Kind(at) = "code" /\ at \in added \cap receipts)
  BY <1>1 DEF Step
<1>8. EffectOnce'
  <2>1. effects'[at] <= 1 \/ (effects'[at] = 2 /\ UnlocksAgain(at))
    BY <1>4, <1>5, <1>7 DEF UnlocksAgain, Marks, EffectOnce, Shapes
  <2>2. \A m \in Msgs : effects'[m] <= 1 \/ (effects'[m] = 2 /\ UnlocksAgain(m))
    BY <1>5, <2>1 DEF Marks, EffectOnce
  <2> QED
    BY <1>1, <1>6, <2>2 DEF EffectOnce, UnlocksAgain
<1>9. Marks'
  <2>1. \A m \in cleared' : OnRecord(m)
    BY <1>1 DEF MenuMoves, Marks
  <2>2. \A m \in Msgs : effects'[m] > 0 => m \in receipts \cup added \/ OnRecord(m)
    BY <1>5, <1>7 DEF Marks
  <2> QED
    BY <1>1, <1>6, <1>8, <2>1, <2>2 DEF Marks, Attachment, Log
<1>10. cleared' \subseteq Log /\ current' \in Intents
  BY <1>1 DEF MenuMoves, Marks, Shapes
<1>11. Shapes'
  BY <1>1, <1>2, <1>5, <1>10 DEF Shapes, Log
<1> QED
  BY <1>2, <1>3, <1>9, <1>11

-----------------------------------------------------------------------------
(* The drafts.                                                               *)

\* A request is never forgotten, so a submission that is on record stays so.
LEMMA PrunableFacts ==
    ASSUME IInv
    PROVE  Prunable <=> ~ draft.live \/ Taken
<1>1. draft.submit \in Upto /\ draft.submit # 0 => draft.submit \in Msgs
  BY Bounds DEF IInv, Shapes, DraftRow
<1>2. \A m \in cleared : OnRecord(m)
  BY DEF IInv, Marks
<1> QED
  BY <1>1, <1>2 DEF Prunable, Found, Taken, OnRecord

\* A dropped draft: its pieces were submitted, or have expired.
LEMMA PrunedPieces ==
    ASSUME IInv, Prunable, Pruned, UNCHANGED <<sent, added, requests, home>>
    PROVE  Pieces' /\ draft' = NoDraft
<1> USE DEF IInv
<1>1. /\ draft' = NoDraft /\ gone \subseteq gone'
      /\ ~ draft.live => draft.pieces \subseteq gone' \cup Submitted
  BY DEF Pruned
<1>2. NoDraft.pieces = {} /\ NoDraft.submit = 0
  BY DEF NoDraft
<1>3. draft.pieces \subseteq gone' \cup Submitted
  <2>1. CASE ~ draft.live
    BY <1>1, <2>1
  <2>2. CASE Taken
    <3>1. draft.submit \in Msgs
      BY <2>2, Bounds DEF Shapes, DraftRow, Taken
    <3> QED
      BY <2>2, <3>1 DEF Pieces, Submitted
  <2> QED
    BY <2>1, <2>2, PrunableFacts
<1>4. Submitted' = Submitted
  BY DEF Submitted
<1>5. DraftKept'
  BY <1>1, <1>2, <1>3, <1>4 DEF Pieces, DraftKept, DraftCommand, Kind
<1> QED
  BY <1>1, <1>2, <1>5 DEF Pieces, Taken

LEMMA NoDraftShape ==
    NoDraft \in DraftRow /\ NoDraft.submit = 0 /\ NoDraft.pieces = {}
BY Bounds DEF NoDraft, DraftRow, Target

LEMMA PruneDraftsKeeps ==
    ASSUME IInv, PruneDrafts
    PROVE  IInv'
<1> USE DEF IInv
<1>1. /\ pc \notin Starting /\ Prunable /\ Pruned
      /\ UNCHANGED <<sent, offer, acked, sync, mon, handled, receipts, added, home, menu,
                     requests, cleared, current, call, effects, codes, pc, at>>
  BY DEF PruneDrafts, wechat, tasks, Starting
<1>2. Pieces' /\ draft' = NoDraft
  BY <1>1, PrunedPieces
<1>3. Cursors' /\ Marks' /\ Place'
  <2>1. Place'
    BY <1>1 DEF Place, Log
  <2> QED
    BY <1>1, <2>1, CursorsKept, MarksKept
<1>4. Step'
  BY <1>1 DEF Step, Shortcut, Unlocking, Kind, Keyed, OnRecord, Drafting, Starting
<1>5. Shapes'
  BY <1>1, <1>2, NoDraftShape, Bounds DEF Shapes, Log
<1> QED
  BY <1>2, <1>3, <1>4, <1>5

\* A message without a mark has done nothing yet.
LEMMA FirstEffect ==
    ASSUME IInv, at \in Msgs, at \notin receipts \cup added, ~ OnRecord(at), Did(at)
    PROVE  /\ effects' \in [Msgs -> Nat] /\ effects'[at] = 1
           /\ \A m \in Msgs \ {at} : effects'[m] = effects[m]
<1>1. effects \in [Msgs -> Nat]
  BY DEF IInv, Shapes
<1>2. effects[at] = 0
  BY <1>1 DEF IInv, Marks
<1> QED
  BY <1>1, <1>2 DEF Did

\* A message gets its receipt of the drafts.
LEMMA MarksAdded ==
    ASSUME IInv, at \in Log, Keyed(at), at \notin receipts \cup added, Kind(at) \in Draftable,
           added' = added \cup {at},
           (Did(at) /\ ~ OnRecord(at)) \/ UNCHANGED effects,
           UNCHANGED <<sent, receipts, requests, cleared, codes>>
    PROVE  Marks' /\ effects' \in [Msgs -> Nat]
<1> USE DEF IInv
<1>1. at \in Msgs
  BY LogFacts
<1>2. \A m : (Kind(m))' = Kind(m) /\ (Keyed(m))' = Keyed(m) /\ (OnRecord(m))' = OnRecord(m)
  BY DEF Kind, Keyed, OnRecord
<1>3. /\ effects' \in [Msgs -> Nat]
      /\ \A m \in Msgs \ {at} : effects'[m] = effects[m]
      /\ effects'[at] <= 1 \/ effects'[at] = effects[at]
  BY <1>1, FirstEffect DEF Shapes
<1>4. EffectOnce'
  <2>1. \A m \in Msgs : effects'[m] <= 1 \/ (effects'[m] = 2 /\ Kind(m) = "code" /\ m \in added' \cap receipts)
    BY <1>1, <1>3 DEF Marks, EffectOnce, UnlocksAgain
  <2> QED
    BY <1>2, <2>1 DEF EffectOnce, UnlocksAgain
<1>5. \A m \in codes : m # at
  BY DEF Marks
<1>6. \A m \in Msgs : effects'[m] > 0 => m \in receipts \cup added' \/ OnRecord(m)
  BY <1>3 DEF Marks
<1> QED
  BY <1>2, <1>3, <1>4, <1>5, <1>6 DEF Marks, Attachment, Log

\* A step that changes the draft and its receipts.
LEMMA ShapesDraft ==
    ASSUME Shapes,
           UNCHANGED <<sent, offer, acked, sync, mon, receipts, codes, cleared, requests, call, current>>,
           added' \subseteq Log, draft' \in DraftRow, draft'.submit <= Len(sent'),
           effects' \in [Msgs -> Nat], home' \in [Msgs -> Target],
           pc' \in Steps, at' \in Upto
    PROVE  Shapes'
<1>1. Log' = Log
  BY DEF Log
<1>2. receipts \cup codes \cup cleared \subseteq Log
  BY DEF Shapes
<1>3. UNION {receipts', added', codes', cleared'} \subseteq Log'
  BY <1>1, <1>2
<1> QED
  BY <1>3 DEF Shapes

LEMMA DraftFacts ==
    ASSUME IInv, pc = "draft"
    PROVE  /\ pc \in Handling /\ at \in Log /\ at \in Msgs /\ at # 0
           /\ at \notin receipts /\ Kind(at) \in Draftable /\ ~ OnRecord(at)
BY AtFacts DEF IInv, Step, Drafting, Handling, Steps

LEMMA DiscardKeeps ==
    ASSUME IInv, pc = "draft", Keyed(at), at \notin added, Discard,
           UNCHANGED <<sent, receipts, requests, cleared, codes>>
    PROVE  Marks' /\ Pieces' /\ draft' = NoDraft /\ effects' \in [Msgs -> Nat] /\ added' \subseteq Log
<1> USE DEF IInv
<1>1. /\ Kind(at) = "discard" /\ draft' = NoDraft /\ added' = added \cup {at}
      /\ gone' = gone \cup draft.pieces /\ Did(at) /\ UNCHANGED home
  BY DEF Discard
<1>2. Marks' /\ effects' \in [Msgs -> Nat]
  BY <1>1, DraftFacts, MarksAdded
<1>3. added' \subseteq Log
  BY <1>1, DraftFacts DEF Shapes
<1>4. Submitted' = Submitted /\ \A m : (DraftCommand(m))' = DraftCommand(m)
  BY DEF Submitted, DraftCommand, Kind
<1>5. DraftCommand(at)
  BY <1>1 DEF DraftCommand
<1>6. DraftKept'
  BY <1>1, <1>4, <1>5 DEF Pieces, DraftKept
<1>7. Pieces'
  BY <1>1, <1>6, NoDraftShape DEF Pieces, Taken
<1> QED
  BY <1>1, <1>2, <1>3, <1>7

\* A draft that is not dropped has no submission on record, and so shares no
\* piece with a request.
LEMMA OpenDraft ==
    ASSUME IInv, draft = NoDraft \/ ~ Prunable
    PROVE  ~ Taken /\ \A m \in Msgs : draft.pieces \cap requests[m].pieces = {}
<1>1. ~ Taken
  BY PrunableFacts, NoDraftShape DEF Taken
<1> QED
  BY <1>1 DEF IInv, Pieces

LEMMA AddPieceKeeps ==
    ASSUME IInv, pc = "draft", Keyed(at), at \notin added, draft = NoDraft \/ ~ Prunable, AddPiece,
           UNCHANGED <<sent, receipts, requests, cleared, codes, current>>
    PROVE  /\ Marks' /\ Pieces' /\ effects' \in [Msgs -> Nat] /\ added' \subseteq Log
           /\ draft' \in DraftRow /\ draft'.submit = draft.submit /\ home' \in [Msgs -> Target]
<1> USE DEF IInv
<1>0. at \in Log /\ at \in Msgs /\ current \in Intents /\ draft \in DraftRow /\ home \in [Msgs -> Target]
  BY DraftFacts DEF Shapes
<1>1. /\ ~ DraftCommand(at) /\ (draft # NoDraft => draft.target = current)
      /\ draft' = Extended /\ added' = added \cup {at}
      /\ home' = [home EXCEPT ![at] = draft'.target] /\ Did(at) /\ UNCHANGED gone
  BY DEF AddPiece
<1>2. /\ draft' \in DraftRow /\ draft'.target = current /\ draft'.pieces = draft.pieces \cup {at}
      /\ draft'.submit = draft.submit
  <2>1. draft' = [target |-> current, text |-> draft.text \/ Kind(at) # "attach",
                  pieces |-> draft.pieces \cup {at}, submit |-> draft.submit, live |-> TRUE]
    BY <1>1 DEF Extended
  <2>2. draft.text \in BOOLEAN /\ draft.pieces \subseteq Msgs /\ draft.submit \in Upto
    BY <1>0 DEF DraftRow
  <2>3. (draft.text \/ Kind(at) # "attach") \in BOOLEAN
    OBVIOUS
  <2> QED
    BY <1>0, <2>1, <2>2, <2>3 DEF DraftRow, Target
<1>3. /\ home' \in [Msgs -> Target] /\ home'[at] = current
      /\ \A p \in Msgs \ {at} : home'[p] = home[p]
  BY <1>0, <1>1, <1>2 DEF Target
<1>4. Marks' /\ effects' \in [Msgs -> Nat]
  BY <1>1, DraftFacts, MarksAdded
<1>5. added' \subseteq Log
  BY <1>0, <1>1 DEF Shapes
<1>6. Submitted' = Submitted /\ \A m : (DraftCommand(m))' = DraftCommand(m)
  BY DEF Submitted, DraftCommand, Kind
<1>7. \A m \in Msgs : requests[m].pieces \subseteq added /\ requests[m].pieces \subseteq Msgs /\ at \notin requests[m].pieces
  BY LogFacts DEF Pieces, Shapes
<1>8. DraftKept'
  <2>1. \A m \in added' : ~ DraftCommand(m) => m \in draft'.pieces \cup Submitted \cup gone
    BY <1>1, <1>2 DEF Pieces, DraftKept
  <2>2. \A m \in Msgs : \A p \in requests[m].pieces : requests[m].target = home'[p]
    BY <1>3, <1>7 DEF Pieces, DraftKept
  <2> QED
    BY <1>1, <1>6, <2>1, <2>2 DEF DraftKept, Pieces
<1>9. ~ Taken' /\ \A m \in Msgs : draft'.pieces \cap requests[m].pieces = {}
  <2>1. ~ Taken'
    BY <1>2, OpenDraft DEF Taken, OnRecord
  <2> QED
    BY <1>2, <1>7, <2>1, OpenDraft
<1>10. \A p \in draft'.pieces : home'[p] = draft'.target
  <2>1. \A p \in draft.pieces : p \in Msgs /\ p # at /\ home[p] = current
    BY <1>0, <1>1, NoDraftShape DEF Pieces, DraftRow
  <2> QED
    BY <1>2, <1>3, <2>1
<1>11. draft'.pieces \subseteq added'
  BY <1>1, <1>2 DEF Pieces
<1>12. Pieces'
  BY <1>0, <1>1, <1>2, <1>7, <1>8, <1>9, <1>10, <1>11 DEF Pieces
<1> QED
  BY <1>2, <1>3, <1>4, <1>5, <1>12

LEMMA SubmitKeeps ==
    ASSUME IInv, pc = "draft", Keyed(at), at \notin added, draft = NoDraft \/ ~ Prunable, Submit,
           UNCHANGED <<sent, at, receipts, requests, cleared, codes>>
    PROVE  /\ Pieces' /\ Step' /\ draft' \in DraftRow /\ draft'.submit = at
           /\ call' \in [expect : Target, target : Target]
<1> USE DEF IInv
<1>0. /\ at \in Log /\ at \in Msgs /\ at # 0 /\ draft \in DraftRow
      /\ at \notin receipts /\ Kind(at) \in Draftable /\ ~ OnRecord(at)
  BY DraftFacts DEF Shapes
<1>1. /\ Kind(at) = "submit" /\ draft.text /\ draft' = [draft EXCEPT !.submit = at]
      /\ call' = [expect |-> draft.target, target |-> "none"]
      /\ pc' = "capture" /\ UNCHANGED <<added, gone, home, effects>>
  BY DEF Submit, Submittable, Submitting, Goto, NoCall
<1>2. draft # NoDraft /\ draft.target \in Intents /\ draft.target # "none"
  BY <1>1, IngressAssumption DEF NoDraft, Pieces
<1>3. /\ draft' \in DraftRow /\ draft'.submit = at /\ draft'.target = draft.target
      /\ draft'.pieces = draft.pieces
  BY <1>0, <1>1, Bounds DEF DraftRow
<1>4. call' \in [expect : Target, target : Target] /\ call'.expect = draft.target
  BY <1>1, <1>2 DEF Target
<1>5. DraftKept'
  BY <1>1, <1>3 DEF Pieces, DraftKept, DraftCommand, Kind, Submitted
<1>6. ~ Taken'
  BY <1>0, <1>3 DEF Taken, OnRecord
<1>7. Pieces'
  BY <1>1, <1>2, <1>3, <1>5, <1>6, OpenDraft DEF Pieces
<1>8. (Kind(at))' = Kind(at) /\ (Keyed(at))' = Keyed(at) /\ (OnRecord(at))' = OnRecord(at)
  BY DEF Kind, Keyed, OnRecord
<1>9. Step'
  BY <1>0, <1>1, <1>2, <1>3, <1>4, <1>8 DEF Step, Drafting, Starting
<1> QED
  BY <1>3, <1>4, <1>7, <1>9

LEMMA HandleDraftKeeps ==
    ASSUME IInv, HandleDraft
    PROVE  IInv'
<1> USE DEF IInv
<1>1. /\ pc = "draft"
      /\ UNCHANGED <<sent, offer, acked, sync, mon, handled, receipts, requests, cleared, current,
                     codes>>
  BY FailsFacts DEF HandleDraft, wechat, tasks
<1>2. pc \in Handling /\ {"answer", "capture"} \subseteq Handling
  BY <1>1 DEF Handling, Steps
<1>3. /\ at \in Log /\ at \in Msgs /\ at # 0
      /\ at \notin receipts /\ Kind(at) \in Draftable /\ ~ OnRecord(at)
  BY <1>1, DraftFacts
<1>4. CASE /\ (pc' = "answer" /\ UNCHANGED at) \/ (pc' = "poll" /\ at' = 0)
           /\ UNCHANGED <<draft, added, gone, home, call, effects>>
  <2>1. Cursors' /\ Place' /\ pc' \in Steps /\ at' \in Upto
    BY <1>1, <1>2, <1>4, HandlerKeeps
  <2>2. Marks' /\ Pieces' /\ Step' /\ Shapes'
    BY <1>1, <1>4, <2>1, MarksKept, PiecesKept, StepFree, ShapesKept DEF Drafting
  <2> QED
    BY <2>1, <2>2
<1>5. CASE /\ Keyed(at) /\ at \notin added /\ (draft = NoDraft \/ ~ Prunable) /\ UNCHANGED at
           /\ Discard
  <2>1. pc' = "answer" /\ UNCHANGED <<home, call>>
    BY <1>5 DEF Discard, Goto
  <2>2. Cursors' /\ Place' /\ pc' \in Steps /\ at' \in Upto
    BY <1>1, <1>2, <1>5, <2>1, HandlerKeeps
  <2>3. Marks' /\ Pieces' /\ draft' = NoDraft /\ effects' \in [Msgs -> Nat] /\ added' \subseteq Log
    BY <1>1, <1>5, DiscardKeeps
  <2>4. Step'
    BY <2>1, StepFree DEF Drafting
  <2>s. draft' \in DraftRow /\ draft'.submit <= Len(sent')
    <3>1. Len(sent') \in Nat
      BY <1>1, Bounds DEF Shapes
    <3> QED
      BY <2>3, <3>1, NoDraftShape
  <2>h. home' \in [Msgs -> Target]
    BY <2>1 DEF Shapes
  <2>5. Shapes'
    BY <1>1, <2>1, <2>2, <2>3, <2>s, <2>h, ShapesDraft
  <2> QED
    BY <2>2, <2>3, <2>4, <2>5
<1>6. CASE /\ Keyed(at) /\ at \notin added /\ (draft = NoDraft \/ ~ Prunable) /\ UNCHANGED at
           /\ Submit
  <2>1. pc' = "capture" /\ UNCHANGED <<added, gone, home, effects>>
    BY <1>6 DEF Submit, Goto
  <2>2. Cursors' /\ Place' /\ pc' \in Steps /\ at' \in Upto
    BY <1>1, <1>2, <1>6, <2>1, HandlerKeeps
  <2>3. /\ Pieces' /\ Step' /\ draft' \in DraftRow /\ draft'.submit = at
        /\ call' \in [expect : Target, target : Target]
    BY <1>1, <1>6, SubmitKeeps
  <2>4. Marks'
    BY <1>1, <2>1, MarksKept
  <2>5. at <= Len(sent')
    <3>1. Len(sent) \in Nat
      BY Bounds DEF Shapes
    <3> QED
      BY <1>1, <1>3, <3>1 DEF Log
  <2>6. Shapes'
    BY <1>1, <2>1, <2>2, <2>3, <2>5 DEF Shapes, Log
  <2> QED
    BY <2>2, <2>3, <2>4, <2>6
<1>7. CASE /\ Keyed(at) /\ at \notin added /\ (draft = NoDraft \/ ~ Prunable) /\ UNCHANGED at
           /\ AddPiece
  <2>1. pc' = "answer" /\ UNCHANGED <<gone, call>>
    BY <1>7 DEF AddPiece, Goto
  <2>2. Cursors' /\ Place' /\ pc' \in Steps /\ at' \in Upto
    BY <1>1, <1>2, <1>7, <2>1, HandlerKeeps
  <2>3. /\ Marks' /\ Pieces' /\ effects' \in [Msgs -> Nat] /\ added' \subseteq Log
        /\ draft' \in DraftRow /\ draft'.submit = draft.submit /\ home' \in [Msgs -> Target]
    BY <1>1, <1>7, AddPieceKeeps
  <2>4. Step'
    BY <2>1, StepFree DEF Drafting
  <2>s. draft'.submit <= Len(sent')
    BY <1>1, <2>3 DEF Shapes
  <2>5. Shapes'
    BY <1>1, <2>1, <2>2, <2>3, <2>s, ShapesDraft
  <2> QED
    BY <2>2, <2>3, <2>4, <2>5
<1>8. CASE /\ Keyed(at) /\ at \notin added /\ Work /\ call' = NoCall
           /\ pc' = "capture" /\ UNCHANGED <<at, draft, added, gone, home, effects>>
  <2>1. Cursors' /\ Place' /\ pc' \in Steps /\ at' \in Upto
    BY <1>1, <1>2, <1>8, HandlerKeeps
  <2>2. Marks' /\ Pieces'
    BY <1>1, <1>8, MarksKept, PiecesKept
  <2>3. call'.expect = "none" /\ call' \in [expect : Target, target : Target] /\ draft' = NoDraft
    BY <1>8 DEF NoCall, Target, Work
  <2>4. (Kind(at))' = Kind(at) /\ (Keyed(at))' = Keyed(at) /\ (OnRecord(at))' = OnRecord(at)
    BY <1>1, <1>8 DEF Kind, Keyed, OnRecord
  <2>5. Step'
    BY <1>1, <1>3, <1>8, <2>3, <2>4 DEF Step, Drafting, Starting
  <2>6. Shapes'
    BY <1>1, <1>8, <2>1, <2>3 DEF Shapes, Log
  <2> QED
    BY <2>1, <2>2, <2>5, <2>6
<1> QED
  <2>1. CASE Fails("draft") /\ UNCHANGED <<drafts, call, effects>>
    BY <1>4, <2>1, FailsFacts DEF drafts
  <2>2. CASE Stay /\ Goto("answer") /\ UNCHANGED <<drafts, call, effects>>
    BY <1>4, <2>2 DEF drafts, Stay, Goto
  <2>3. CASE /\ draft = NoDraft \/ ~Prunable
             /\ Stay /\ Keyed(at) /\ at \notin added /\ (Discard \/ Submit \/ AddPiece)
    BY <1>5, <1>6, <1>7, <2>3 DEF Stay
  <2>4. CASE /\ Stay /\ Keyed(at) /\ at \notin added /\ Work /\ call' = NoCall
             /\ Goto("capture") /\ UNCHANGED <<drafts, effects>>
    BY <1>8, <2>4 DEF drafts, Stay, Goto
  <2> QED
    BY <2>1, <2>2, <2>3, <2>4 DEF HandleDraft

-----------------------------------------------------------------------------
(* startCodexTask, and the end of a submission.                              *)

LEMMA StartFacts ==
    ASSUME IInv, pc \in Starting
    PROVE  /\ pc \in Handling /\ at \in Log /\ at \in Msgs /\ at # 0 /\ Keyed(at)
           /\ at \notin receipts \cup added /\ Kind(at) \in Draftable
           /\ call.expect = "none" => draft = NoDraft
           /\ call.expect # "none" => /\ Kind(at) = "submit" /\ draft.submit = at
                                      /\ draft.target = call.expect
<1>1. pc \in Handling /\ pc \in Drafting
  BY DEF Starting, Drafting, Handling, Steps
<1> QED
  BY <1>1, AtFacts DEF IInv, Step

LEMMA CaptureKeeps ==
    ASSUME IInv, Capture
    PROVE  IInv'
<1> USE DEF IInv
<1>1. /\ pc = "capture" /\ pc \in Starting
      /\ UNCHANGED <<sent, offer, acked, sync, mon, handled, receipts, draft, added, gone, home,
                     requests, cleared, current, effects, codes>>
  BY FailsFacts DEF Capture, wechat, drafts, tasks, Starting
<1>2. /\ pc \in Handling /\ at \in Log /\ at \in Msgs /\ at # 0 /\ Keyed(at)
      /\ at \notin receipts \cup added /\ Kind(at) \in Draftable /\ ~ OnRecord(at)
      /\ call.expect = "none" => draft = NoDraft
      /\ call.expect # "none" => /\ Kind(at) = "submit" /\ draft.submit = at
                                 /\ draft.target = call.expect
  BY <1>1, StartFacts DEF Step
<1>3. Marks' /\ Pieces'
  BY <1>1, MarksKept, PiecesKept
<1>4. CASE pc' = "poll" /\ at' = 0 /\ UNCHANGED call
  <2>1. Cursors' /\ Place' /\ pc' \in Steps /\ at' \in Upto
    BY <1>1, <1>2, <1>4, HandlerKeeps
  <2>2. Step' /\ Shapes'
    BY <1>1, <1>4, <2>1, PlacePolling, ShapesKept
  <2> QED
    BY <1>3, <2>1, <2>2
<1>5. CASE /\ call' = [call EXCEPT !.target = current] /\ UNCHANGED at
           /\ pc' = IF TargetChanged THEN "answer" ELSE "begin"
  <2>1. Cursors' /\ Place' /\ pc' \in Steps /\ at' \in Upto
    BY <1>1, <1>2, <1>5, HandlerKeeps DEF Handling, Steps
  <2>2. call' \in [expect : Target, target : Target] /\ call'.expect = call.expect /\ call'.target = current
    BY <1>5 DEF Shapes, Target
  <2>3. Shapes'
    BY <1>1, <2>1, <2>2 DEF Shapes, Log
  <2>4. (Kind(at))' = Kind(at) /\ (Keyed(at))' = Keyed(at) /\ (OnRecord(at))' = OnRecord(at)
    BY <1>1, <1>5 DEF Kind, Keyed, OnRecord
  <2>5. CASE TargetChanged
    BY <1>3, <1>5, <2>1, <2>3, <2>5, StepFree DEF Drafting
  <2>6. CASE ~ TargetChanged
    <3>1. pc' = "begin" /\ (call.expect # "none" => current = call.expect)
      BY <1>5, <2>6 DEF TargetChanged
    <3>2. current \in Intents
      BY DEF Shapes
    <3>3. Step'
      BY <1>1, <1>2, <1>5, <2>2, <2>4, <3>1, <3>2 DEF Step, Drafting, Starting
    <3> QED
      BY <1>3, <2>1, <2>3, <3>3
  <2> QED
    BY <2>5, <2>6
<1> QED
  BY <1>4, <1>5, FailsFacts DEF Capture, Goto, Stay

\* The record of a submission takes the pieces of its draft.
LEMMA RecordPieces ==
    ASSUME IInv, pc = "begin", NEW r \in RequestRow, r.target = call.target,
           r.pieces = IF call.expect = "none" THEN {} ELSE draft.pieces,
           requests' = [requests EXCEPT ![at] = r],
           UNCHANGED <<sent, draft, added, gone, home>>
    PROVE  Pieces'
<1> USE DEF IInv
<1>1. /\ at \in Msgs /\ at # 0 /\ ~ OnRecord(at)
      /\ call.expect = "none" => draft = NoDraft
      /\ call.expect # "none" => draft.submit = at /\ draft.target = call.target
      /\ call.target \in Intents
  BY StartFacts DEF Step, Starting
<1>2. requests \in [Msgs -> RequestRow] /\ requests' \in [Msgs -> RequestRow]
  BY DEF Shapes
<1>3. /\ requests'[at] = r /\ \A m \in Msgs \ {at} : requests'[m] = requests[m]
      /\ requests[at].pieces = {}
  BY <1>1, <1>2 DEF OnRecord, NoRequest
<1>4. r # NoRequest
  BY <1>1, IngressAssumption DEF NoRequest
<1>5. r.pieces = draft.pieces
  BY <1>1, NoDraftShape
<1>6. Submitted \subseteq Submitted'
  BY <1>3 DEF Submitted
<1>7. \A m \in Msgs : draft.pieces \cap requests[m].pieces = {}
  BY <1>1, NoDraftShape DEF Pieces, Taken
<1>8. \A p \in r.pieces : r.target = home[p]
  BY <1>1, <1>5, NoDraftShape DEF Pieces
<1>9. DraftKept'
  <2>1. \A m \in added : ~ DraftCommand(m) => m \in draft.pieces \cup Submitted' \cup gone
    BY <1>6 DEF Pieces, DraftKept
  <2>2. \A m, n \in Msgs : m # n => requests'[m].pieces \cap requests'[n].pieces = {}
    BY <1>3, <1>5, <1>7 DEF Pieces, DraftKept
  <2>3. \A m \in Msgs : \A p \in requests'[m].pieces : requests'[m].target = home[p]
    BY <1>3, <1>8 DEF Pieces, DraftKept
  <2>4. \A m : (DraftCommand(m))' = DraftCommand(m)
    BY DEF DraftCommand, Kind
  <2> QED
    BY <2>1, <2>2, <2>3, <2>4 DEF DraftKept
<1>10. CASE call.expect = "none"
  <2>1. draft.pieces = {} /\ draft.submit = 0 /\ draft = NoDraft
    BY <1>1, <1>10, NoDraftShape
  <2>2. \A m \in Msgs : requests'[m].pieces \subseteq added
    BY <1>3, <1>5, <2>1 DEF Pieces
  <2> QED
    BY <1>9, <2>1, <2>2 DEF Pieces, Taken
<1>11. CASE call.expect # "none"
  <2>1. draft.submit = at
    BY <1>1, <1>11
  <2>2. Taken' /\ draft'.pieces \subseteq requests'[draft'.submit].pieces
    BY <1>1, <1>3, <1>4, <1>5, <2>1 DEF Taken, OnRecord
  <2>3. \A m \in Msgs : requests'[m].pieces \subseteq added
    BY <1>3, <1>5 DEF Pieces
  <2> QED
    BY <1>9, <2>2, <2>3 DEF Pieces
<1> QED
  BY <1>10, <1>11

LEMMA BeginRecords ==
    ASSUME IInv, pc = "begin", Did(at), UNCHANGED at,
           requests' = [requests EXCEPT ![at] =
               [target |-> call.target, pieces |-> IF call.expect = "none" THEN {} ELSE draft.pieces]],
           pc' = IF call.expect = "none" THEN "handled" ELSE "settle",
           UNCHANGED <<sent, receipts, draft, added, gone, home, cleared, call, codes>>
    PROVE  Marks' /\ Pieces' /\ Step' /\ effects' \in [Msgs -> Nat] /\ requests' \in [Msgs -> RequestRow]
<1> USE DEF IInv
<1> DEFINE r == [target |-> call.target, pieces |-> IF call.expect = "none" THEN {} ELSE draft.pieces]
<1>1. /\ at \in Log /\ at \in Msgs /\ at # 0 /\ Keyed(at) /\ ~ OnRecord(at)
      /\ at \notin receipts \cup added /\ Kind(at) \in Draftable
      /\ call.expect # "none" => /\ Kind(at) = "submit" /\ draft.submit = at
                                 /\ draft.target = call.expect
      /\ call.target \in Intents
  BY StartFacts DEF Step, Starting
<1>2. /\ r \in RequestRow /\ r.target = call.target
      /\ r.pieces = IF call.expect = "none" THEN {} ELSE draft.pieces
      /\ r # NoRequest
  <2>1. draft.pieces \subseteq Msgs
    BY DEF Shapes, DraftRow
  <2>2. r.target # NoRequest.target
    BY <1>1, IngressAssumption DEF NoRequest
  <2> QED
    BY <1>1, <2>1, <2>2 DEF RequestRow, Target
<1>3. requests' = [requests EXCEPT ![at] = r]
  OBVIOUS
<1> HIDE DEF r
<1>4. Pieces'
  BY <1>2, <1>3, RecordPieces
<1>5. requests \in [Msgs -> RequestRow] /\ requests' \in [Msgs -> RequestRow]
  BY <1>2, <1>3 DEF Shapes
<1>6. /\ (OnRecord(at))' /\ \A m \in Msgs : OnRecord(m) => requests'[m] # NoRequest
      /\ \A m \in Msgs \ {at} : requests'[m] = requests[m]
  BY <1>1, <1>2, <1>3, <1>5 DEF OnRecord
<1>7. /\ effects' \in [Msgs -> Nat] /\ effects'[at] = 1
      /\ \A m \in Msgs \ {at} : effects'[m] = effects[m]
  BY <1>1, FirstEffect
<1>8. \A m : (Kind(m))' = Kind(m) /\ (Keyed(m))' = Keyed(m)
  BY DEF Kind, Keyed
<1>9. EffectOnce'
  <2>1. \A m \in Msgs : effects'[m] <= 1 \/ (effects'[m] = 2 /\ UnlocksAgain(m))
    BY <1>7 DEF Marks, EffectOnce
  <2> QED
    BY <1>8, <2>1 DEF EffectOnce, UnlocksAgain
<1>10. Marks'
  <2>0. codes \subseteq Msgs /\ cleared \subseteq Msgs /\ at \notin codes
    BY <1>1, LogFacts DEF Shapes, Marks
  <2>1. \A m \in Msgs : requests'[m] # NoRequest => m \in Log /\ Keyed(m)
    BY <1>1, <1>6 DEF Marks, OnRecord
  <2>2. \A m \in cleared : requests'[m] # NoRequest
    BY <1>6, <2>0 DEF Marks
  <2>3. \A m \in codes : requests'[m] = NoRequest /\ m \notin added /\ (Keyed(m) => m \in receipts)
    BY <1>6, <2>0 DEF Marks, OnRecord
  <2>4. \A m \in Msgs : effects'[m] > 0 => m \in receipts \cup added \/ requests'[m] # NoRequest
    BY <1>6, <1>7 DEF Marks, OnRecord
  <2> QED
    BY <1>8, <1>9, <2>1, <2>2, <2>3, <2>4 DEF Marks, Attachment, OnRecord, Log
<1>11. Step'
  <2>1. CASE call.expect = "none"
    BY <2>1, StepFree DEF Drafting
  <2>2. CASE call.expect # "none"
    <3>1. pc' = "settle" /\ at' \notin receipts' \cup added' /\ (Kind(at) \in Draftable)' /\ (Keyed(at))'
      BY <1>1, <1>8, <2>2
    <3>2. (Kind(at) = "submit" /\ draft.submit = at /\ draft.target = call.expect)'
      BY <1>1, <1>8, <2>2
    <3> QED
      BY <1>6, <2>2, <3>1, <3>2 DEF Step, Drafting, Starting
  <2> QED
    BY <2>1, <2>2
<1> QED
  BY <1>4, <1>5, <1>7, <1>10, <1>11

LEMMA BeginKeeps ==
    ASSUME IInv, Begin
    PROVE  IInv'
<1> USE DEF IInv
<1>1. /\ pc = "begin" /\ pc \in Handling
      /\ UNCHANGED <<sent, offer, acked, sync, mon, handled, receipts, draft, added, gone, home,
                     cleared, current, call, codes>>
  BY FailsFacts DEF Begin, wechat, drafts, Handling, Steps
<1>2. CASE /\ (pc' = "answer" /\ UNCHANGED at) \/ (pc' = "poll" /\ at' = 0)
           /\ UNCHANGED <<requests, effects>>
  <2>1. Cursors' /\ Place' /\ pc' \in Steps /\ at' \in Upto
    BY <1>1, <1>2, HandlerKeeps DEF Handling, Steps
  <2>2. Marks' /\ Pieces' /\ Step' /\ Shapes'
    BY <1>1, <1>2, <2>1, MarksKept, PiecesKept, StepFree, ShapesKept DEF Drafting
  <2> QED
    BY <2>1, <2>2
<1>3. CASE /\ requests' = [requests EXCEPT ![at] =
                [target |-> call.target, pieces |-> IF call.expect = "none" THEN {} ELSE draft.pieces]]
           /\ Did(at) /\ pc' = IF call.expect = "none" THEN "handled" ELSE "settle"
           /\ UNCHANGED at
  <2>1. Cursors' /\ Place' /\ pc' \in Steps /\ at' \in Upto
    BY <1>1, <1>3, HandlerKeeps DEF Handling, Steps
  <2>2. Marks' /\ Pieces' /\ Step' /\ effects' \in [Msgs -> Nat] /\ requests' \in [Msgs -> RequestRow]
    BY <1>1, <1>3, BeginRecords
  <2>3. Shapes'
    BY <1>1, <2>1, <2>2 DEF Shapes, Log
  <2> QED
    BY <2>1, <2>2, <2>3
<1> QED
  BY <1>2, <1>3, FailsFacts DEF Begin, Goto

LEMMA SettleKeeps ==
    ASSUME IInv, Settle
    PROVE  IInv'
<1> USE DEF IInv
<1>1. /\ pc = "settle" /\ pc \in Handling
      /\ UNCHANGED <<sent, offer, acked, sync, mon, handled, receipts, gone, home,
                     requests, cleared, current, call, codes, effects>>
  BY FailsFacts DEF Settle, wechat, tasks, Handling, Steps
<1>2. /\ at \in Log /\ at \in Msgs /\ at # 0 /\ Keyed(at) /\ at \notin receipts \cup added
      /\ Kind(at) = "submit" /\ Kind(at) \in Draftable /\ draft.submit = at /\ OnRecord(at)
  BY <1>1, StartFacts DEF Step, Starting
<1>3. CASE pc' = "poll" /\ at' = 0 /\ UNCHANGED <<draft, added>>
  <2>1. Cursors' /\ Place' /\ pc' \in Steps /\ at' \in Upto
    BY <1>1, <1>3, HandlerKeeps
  <2>2. Marks' /\ Pieces' /\ Step' /\ Shapes'
    BY <1>1, <1>3, <2>1, MarksKept, PiecesKept, PlacePolling, ShapesKept
  <2> QED
    BY <2>1, <2>2
<1>4. CASE draft' = NoDraft /\ added' = added \cup {at} /\ pc' = "handled" /\ UNCHANGED at
  <2>1. Cursors' /\ Place' /\ pc' \in Steps /\ at' \in Upto
    BY <1>1, <1>4, HandlerKeeps DEF Handling, Steps
  <2>2. Marks'
    BY <1>1, <1>2, <1>4, MarksAdded
  <2>3. Step'
    BY <1>4, StepFree DEF Drafting
  <2>4. draft.pieces \subseteq Submitted
    <3>1. Taken
      BY <1>2 DEF Taken
    <3> QED
      BY <1>2, <3>1 DEF Pieces, Submitted
  <2>5. DraftKept'
    <3>1. Submitted' = Submitted /\ \A m : (DraftCommand(m))' = DraftCommand(m)
      BY <1>1 DEF Submitted, DraftCommand, Kind
    <3>2. DraftCommand(at)
      BY <1>2 DEF DraftCommand
    <3> QED
      BY <1>1, <1>4, <2>4, <3>1, <3>2 DEF Pieces, DraftKept
  <2>6. Pieces'
    BY <1>1, <1>4, <2>5, NoDraftShape DEF Pieces, Taken
  <2>7. draft' \in DraftRow /\ draft'.submit <= Len(sent') /\ added' \subseteq Log
    <3>1. Len(sent') \in Nat
      BY <1>1, Bounds DEF Shapes
    <3> QED
      BY <1>2, <1>4, <3>1, NoDraftShape DEF Shapes
  <2>e. effects' \in [Msgs -> Nat] /\ home' \in [Msgs -> Target]
    BY <1>1 DEF Shapes
  <2>8. Shapes'
    BY <1>1, <2>1, <2>7, <2>e, ShapesDraft
  <2> QED
    BY <2>1, <2>2, <2>3, <2>6, <2>8
<1> QED
  BY <1>3, <1>4, FailsFacts DEF Settle, Goto, Stay

-----------------------------------------------------------------------------
(* The console, an executor, time and crashes.                               *)

\* A step beside the handler that leaves the input page of the menus alone
\* while it is looked at.
LEMMA BesideKeeps ==
    ASSUME IInv,
           UNCHANGED <<sent, offer, acked, sync, mon, handled, receipts, draft, added, gone, home,
                       requests, cleared, call, effects, codes, pc, at>>,
           pc = "act" => UNCHANGED menu, current' \in Intents
    PROVE  IInv'
<1> USE DEF IInv
<1>1. Cursors' /\ Marks' /\ Pieces'
  BY CursorsKept, MarksKept, PiecesKept
<1>2. Place'
  BY DEF Place, Log
<1>3. Step'
  BY DEF Step, Shortcut, Unlocking, Kind, Keyed, OnRecord
<1>4. Shapes'
  BY DEF Shapes, Log
<1> QED
  BY <1>1, <1>2, <1>3, <1>4

LEMMA ConsoleKeeps ==
    ASSUME IInv, Console
    PROVE  IInv'
<1>1. current \in Intents
  BY DEF IInv, Shapes
<1> QED
  BY <1>1, BesideKeeps DEF Console, wechat, drafts, tasks

LEMMA BusyPageKeeps ==
    ASSUME IInv, BusyPage
    PROVE  IInv'
<1>1. current \in Intents
  BY DEF IInv, Shapes
<1> QED
  BY <1>1, BesideKeeps DEF BusyPage, wechat, drafts, tasks

LEMMA TimePassesKeeps ==
    ASSUME IInv, TimePasses
    PROVE  IInv'
<1> USE DEF IInv
<1>1. UNCHANGED <<sent, offer, acked, sync, mon, handled, receipts, added, gone, home,
                  requests, cleared, current, call, effects, codes, pc, at>>
  BY DEF TimePasses, wechat, tasks
<1>2. CASE pc # "act" /\ UNCHANGED draft
  <2>1. current' \in Intents
    BY <1>1 DEF Shapes
  <2> QED
    BY <1>1, <1>2, <2>1, BesideKeeps
<1>3. CASE draft.live /\ draft' = [draft EXCEPT !.live = FALSE] /\ UNCHANGED menu
  <2>1. draft \in DraftRow
    BY DEF Shapes
  <2>2. /\ draft' \in DraftRow /\ draft'.pieces = draft.pieces /\ draft'.submit = draft.submit
        /\ draft'.target = draft.target
    BY <1>3, <2>1 DEF DraftRow
  <2>3. draft # NoDraft
    BY <1>3 DEF NoDraft
  <2>4. Cursors' /\ Marks' /\ Place'
    <3>1. Place'
      BY <1>1 DEF Place, Log
    <3> QED
      BY <1>1, <3>1, CursorsKept, MarksKept
  <2>5. Step'
    BY <1>1, <1>3, <2>2, <2>3 DEF Step, Shortcut, Unlocking, Kind, Keyed, OnRecord
  <2>6. Pieces'
    <3>1. DraftKept'
      BY <1>1, <2>2 DEF Pieces, DraftKept, DraftCommand, Kind, Submitted
    <3>2. Taken' = Taken
      BY <1>1, <2>2 DEF Taken, OnRecord
    <3> QED
      BY <1>1, <2>2, <2>3, <3>1, <3>2 DEF Pieces
  <2>7. Shapes'
    BY <1>1, <2>2 DEF Shapes, Log
  <2> QED
    BY <2>4, <2>5, <2>6, <2>7
<1> QED
  BY <1>2, <1>3 DEF TimePasses

LEMMA CrashKeeps ==
    ASSUME IInv, Crash
    PROVE  IInv'
<1> USE DEF IInv
<1>1. /\ mon' = sync /\ pc' = "poll" /\ at' = 0 /\ call' = NoCall
      /\ UNCHANGED <<sent, offer, acked, sync, receipts, added, home, requests, cleared, current,
                     handled, effects, codes>>
  BY DEF Crash, Goto, wechat, tasks
<1>2. Pieces' /\ draft' \in DraftRow /\ draft'.submit <= Len(sent')
  <2>1. CASE draft # NoDraft /\ Prunable /\ Pruned
    <3>1. Pieces' /\ draft' = NoDraft
      BY <1>1, <2>1, PrunedPieces
    <3>2. Len(sent') \in Nat
      BY <1>1, Bounds DEF Shapes
    <3> QED
      BY <3>1, <3>2, NoDraftShape
  <2>2. CASE UNCHANGED <<draft, gone>>
    BY <1>1, <2>2, PiecesKept DEF Shapes
  <2> QED
    BY <2>1, <2>2 DEF Crash
<1>3. Marks' /\ Place' /\ Step'
  BY <1>1, MarksKept, PlacePolling
<1>4. Cursors'
  BY <1>1 DEF Cursors
<1>5. call' \in [expect : Target, target : Target] /\ mon' \in Cursor /\ pc' \in Steps /\ at' \in Upto
  BY <1>1, Bounds DEF NoCall, Target, Shapes, Steps
<1>6. Shapes'
  BY <1>1, <1>2, <1>5 DEF Shapes, Log
<1> QED
  BY <1>2, <1>3, <1>4, <1>6

-----------------------------------------------------------------------------
(* The invariant and what it says.                                           *)

LEMMA InitInvariant ==
    ASSUME Init
    PROVE  IInv
<1>1. Init
  OBVIOUS
<1>2. Shapes
  <2>1. sent \in Seq(Message) /\ Len(sent) = 0
    BY <1>1 DEF Init
  <2>2. NoSync \in Cursor /\ NoOffer \in [buf : Upto, from : Upto, to : Upto]
        /\ NoCall \in [expect : Target, target : Target] /\ NoRequest \in RequestRow
    BY Bounds DEF NoSync, Cursor, NoOffer, NoCall, NoRequest, RequestRow, Target
  <2>3. "none" \in Target /\ "poll" \in Steps
    BY DEF Target, Steps
  <2>4. requests \in [Msgs -> RequestRow] /\ effects \in [Msgs -> Nat] /\ home \in [Msgs -> Target]
    BY <1>1, <2>2, <2>3 DEF Init
  <2>5. UNION {receipts, added, codes, cleared} \subseteq Log
    BY <1>1 DEF Init
  <2>6. draft \in DraftRow /\ draft.submit <= Len(sent)
    BY <1>1, <2>1, NoDraftShape DEF Init
  <2> QED
    BY <1>1, <2>1, <2>2, <2>3, <2>4, <2>5, <2>6, Bounds DEF Init, Shapes
<1>3. Cursors
  <2>1. \A m \in Msgs : ~ (m <= 0)
    BY Bounds
  <2> QED
    BY <1>1, <2>1 DEF Init, Cursors, NoSync
<1>4. Place /\ Step
  BY <1>1 DEF Init, Place, Step, Handling, Drafting, Starting
<1>5. \A m \in Msgs : requests[m] = NoRequest /\ effects[m] = 0
  BY <1>1 DEF Init
<1>6. Marks
  <2>1. EffectOnce
    BY <1>5 DEF EffectOnce
  <2> QED
    BY <1>1, <1>5, <2>1 DEF Init, Marks, OnRecord
<1>7. Pieces
  <2>1. \A m \in Msgs : requests[m].pieces = {}
    BY <1>5 DEF NoRequest
  <2>2. DraftKept
    BY <1>1, <2>1 DEF Init, DraftKept
  <2> QED
    BY <1>1, <2>1, <2>2, NoDraftShape DEF Init, Pieces, Taken
<1> QED
  BY <1>2, <1>3, <1>4, <1>6, <1>7 DEF IInv

LEMMA StepInvariant ==
    ASSUME IInv, [Next]_vars
    PROVE  IInv'
<1>1. CASE UNCHANGED vars
  <2>1. current' \in Intents
    BY <1>1 DEF vars, IInv, Shapes
  <2> QED
    BY <1>1, <2>1, BesideKeeps DEF vars, wechat, drafts, tasks
<1>2. CASE Monitor
  BY <1>2, PollKeeps, ConsumeKeeps, CommitKeeps, RouteKeeps, AnswerKeeps, MenuActKeeps,
     HandleDraftKeeps, CaptureKeeps, BeginKeeps, SettleKeeps DEF Monitor, Handler
<1>3. CASE SessionExpired \/ PruneDrafts \/ Console \/ BusyPage \/ TimePasses \/ Crash
  BY <1>3, SessionExpiredKeeps, PruneDraftsKeeps, ConsoleKeeps, BusyPageKeeps, TimePassesKeeps,
     CrashKeeps
<1> QED
  BY <1>1, <1>2, <1>3 DEF Next

\* The invariant of the intake, through batches delivered in part and again,
\* failed saves, new sessions and crashes between any two of them.
THEOREM IngressInvariant == Spec => []IInv
BY InitInvariant, StepInvariant, PTL DEF Spec

\* processBatch and Commit: a cursor that was committed or presented to WeChat
\* leaves no message behind that was not handled.
THEOREM MessagesNotSkipped == Spec => []NoMessageSkipped
<1>1. IInv => NoMessageSkipped
  BY DEF IInv, Cursors, NoMessageSkipped
<1> QED
  BY <1>1, IngressInvariant, PTL

\* recordReceipt, draft_receipts and the record of a request together make a
\* message act once, but for a draft text that unlocks when it comes again.
THEOREM MessagesActOnce == Spec => []EffectOnce
<1>1. IInv => EffectOnce
  BY DEF IInv, Marks
<1> QED
  BY <1>1, IngressInvariant, PTL

\* numberMenus.handle: what was typed on the unlock page is in no request and
\* in no draft, however it is delivered again.
THEOREM CodesKeptBack == Spec => []CodeNeverWork
<1>1. ASSUME IInv PROVE CodeNeverWork
  <2>1. draft.pieces \subseteq added /\ Submitted \subseteq added
    BY <1>1 DEF IInv, Pieces, Submitted
  <2> QED
    BY <1>1, <2>1 DEF IInv, Marks, OnRecord, CodeNeverWork
<1> QED
  BY <1>1, IngressInvariant, PTL

\* handleDraft and pruneDrafts: a piece has one fate, is submitted once, and
\* to the conversation it was collected for.
THEOREM DraftsKept == Spec => []DraftKept
<1>1. IInv => DraftKept
  BY DEF IInv, Pieces
<1> QED
  BY <1>1, IngressInvariant, PTL

=============================================================================
