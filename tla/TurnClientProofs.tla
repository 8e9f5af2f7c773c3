--------------------------- MODULE TurnClientProofs ---------------------------
(***************************************************************************)
(* What a call of the client says of its turn is so, for every value of    *)
(* the constants: however many calls, other clients, messages of a turn,   *)
(* places in a channel and exits of the subprocess.                        *)
(*                                                                         *)
(* The events of a call's turn that are not collected yet lie in its       *)
(* channel and in the pipe: its feed.  The argument is that the feed is in *)
(* order and true to the turn (InOrder), and that what the call has put    *)
(* together is what the turn's first messages say, with the rest of the    *)
(* turn still in the feed (Heard); so nothing is missing when the terminal *)
(* event comes, which is the last of the feed.                             *)
(***************************************************************************)
EXTENDS TurnClient, SequenceTheorems, WellFoundedInduction, TLAPS

-----------------------------------------------------------------------------
(* The invariant *)

Messages == {"message_started", "message_delta", "message_completed"}
Statuses == {"none", "active"} \cup Over
States == {"idle", "resuming", "check", "starting", "collect", "interrupt", "confirm",
           "confirm_failed", "returned", "closed"}
Line == [kind: Messages \cup {"terminal", "answer"}, turn: Turns, item: Nat,
         phase: Phases \cup Over \cup {"ok", "error"}]
Item == [phase: Phases, state: {"open", "text", "done"}]
Turn == [status: Statuses, items: Seq(Item)]
Msg == [phase: Phases \cup {NoPhase}, text: BOOLEAN]
Part == [item: Nat, whole: BOOLEAN]

Shapes ==
    /\ alive \in BOOLEAN
    /\ turn \in [Turns -> Turn]
    /\ pipe \in Seq(Line) /\ Len(pipe) <= 1
    /\ pc \in [Calls -> States]
    /\ chan \in [Calls -> Seq(Line)]
    /\ msgs \in [Calls -> [Items -> Msg]]
    /\ parts \in [Calls -> Seq(Part)]
    /\ DOMAIN out = Calls
    /\ notice \in [Calls -> {"armed", "sending", "off"}]

\* A call that has not asked for its turn, and one that listens to it.
Before(c) == pc[c] \in {"idle", "resuming", "check"}
Listening(c) == pc[c] \in {"starting", "collect"}

\* A turn that has a status has begun, once; its messages come one by one.
Codexed(c) ==
    /\ turn[c].status = "none" => turn[c].items = <<>>
    /\ turn[c].status = "active" => alive
    /\ <<"start", c>> \in reqs => turn[c].status = "none"
    /\ Len(turn[c].items) <= MaxItems
    /\ \A i \in 1..Len(turn[c].items) :
         i < Len(turn[c].items) \/ turn[c].status = "completed" => turn[c].items[i].state = "done"

\* A call that has not asked for its turn has none, and nothing of one; the
\* channel of the thread is that of the call that listens.
Called(c) ==
    /\ Before(c) => /\ turn[c].status = "none" /\ <<"start", c>> \notin reqs
                    /\ parts[c] = <<>> /\ msgs[c] = [i \in Items |-> NoMsg]
    /\ Listening(c) => turnCh = c
    /\ ~ Listening(c) => chan[c] = <<>>
    /\ out[c].kind # "none" => pc[c] \in {"returned", "closed"}

\* A line is an event of turn c, and what it says of a turn t is so.
Of(e, c) == e.turn = c /\ e.kind # "answer"
True(e, t) ==
    \/ e.kind = "terminal" /\ e.phase = t.status /\ t.status \in Over
    \/ /\ e.kind \in Messages /\ e.item \in 1..Len(t.items) /\ e.phase = t.items[e.item].phase
       /\ e.kind = "message_completed" => t.items[e.item].state = "done"

\* One event of a turn may be before another.
First(e, f) ==
    /\ e.kind # "terminal"
    /\ \/ f.kind = "terminal"
       \/ /\ e.item <= f.item
          /\ e.kind = "message_completed" \/ f.kind = "message_started" => e.item < f.item

InOrder(s, c, t) ==
    /\ \A p \in 1..Len(s) : Of(s[p], c) => True(s[p], t)
    /\ \A p, q \in 1..Len(s) : p < q /\ Of(s[p], c) /\ Of(s[q], c) => First(s[p], s[q])

\* The feed still has an event of a kind for a message.
Pending(s, c, kind, i) == \E p \in 1..Len(s) : Of(s[p], c) /\ s[p].kind = kind /\ s[p].item = i

\* Of turn t the first k messages are collected, m and r being what there is
\* of them, and the feed s has what is known of the others.
Heard(s, c, t, m, r, k) ==
    /\ r = Said(t.items)[k]
    /\ r = <<>> => \A i \in 1..k : t.items[i].phase = "commentary"
    /\ \A i \in 1..k : t.items[i].state = "done"
    /\ \A p \in 1..Len(s) : Of(s[p], c) /\ s[p].kind # "terminal" => s[p].item > k
    /\ \A i \in 1..Len(t.items) : t.items[i].state = "done" => i <= k \/ Pending(s, c, "message_completed", i)
    /\ \A i \in 1..Len(t.items) : m[i].phase = t.items[i].phase \/ Pending(s, c, "message_started", i)
    /\ \A i \in Items : m[i].text => i <= Len(t.items) /\ m[i].phase = t.items[i].phase

Feed(c) == chan[c] \o pipe

\* A line that is not read when its process is gone may be lost: it is of a
\* turn that is over, and if it is of a message, of one that was interrupted.
Unread(c) ==
    \A p \in 1..Len(pipe) : Of(pipe[p], c) /\ pipe[p].kind # "terminal" =>
        turn[c].status \in {"active", "interrupted"}

\* A call that may still come to report the reply of its turn from its events.
Following(c) == c \notin dropped /\ Listening(c) /\ turn[c].status \in {"none", "active", "completed"}

Followed(c) ==
    Following(c) => \E k \in 0..Len(turn[c].items) : Heard(Feed(c), c, turn[c], msgs[c], parts[c], k)

\* TellsTheTurn for one call.
Tells(c) ==
    /\ (out[c].kind = "reply" /\ c \notin dropped) => out[c].reply = TurnReply(c)
    /\ out[c].kind = "reply" => turn[c].status = "completed"
    /\ out[c].kind = "interrupted" => turn[c].status = "interrupted"
    /\ out[c].kind = "failed" => turn[c].status \in Over

CallInv(c) ==
    /\ Codexed(c) /\ Called(c) /\ InOrder(Feed(c), c, turn[c]) /\ Unread(c)
    /\ Followed(c) /\ Tells(c)

TInv == Shapes /\ \A c \in Calls : CallInv(c)

-----------------------------------------------------------------------------
(* What the messages of a turn say *)

\* A set of numbers that is not empty has a least element.
LEMMA LeastNat ==
    ASSUME NEW T \in SUBSET Nat, T # {}
    PROVE  \E x \in T : \A y \in T : x <= y
<1>1. PICK x \in T : \A y \in T : ~ (<<y, x>> \in OpToRel(<, Nat))
  <2> HIDE DEF OpToRel
  <2> QED BY NatLessThanWellFounded, WFMin, Zenon
<1>2. \A y \in T : ~ (y < x)
  BY <1>1 DEF OpToRel
<1> QED
  BY <1>2

\* Induction over the numbers, for a property given as a set.
LEMMA SetInduction ==
    ASSUME NEW S, 0 \in S, \A n \in Nat : n \in S => n + 1 \in S
    PROVE  Nat \subseteq S
<1> SUFFICES ASSUME Nat \ S # {} PROVE FALSE
  OBVIOUS
<1>1. PICK x \in Nat \ S : \A y \in Nat \ S : x <= y
  BY LeastNat
<1>2. x # 0 /\ x - 1 \in Nat /\ x - 1 \in S
  BY <1>1
<1> QED
  BY <1>1, <1>2

Whole(n) == [item |-> n, whole |-> TRUE]

\* g says what the first n messages contribute.
SaysIt(g, items, n) ==
    /\ g = [m \in 0..n |-> g[m]]
    /\ \A m \in 0..n : g[m] = IF m = 0 THEN <<>>
                              ELSE IF items[m].phase = "commentary" THEN g[m - 1]
                              ELSE Append(g[m - 1], Whole(m))

\* The recursion of Said has a solution, up to any number of messages.
LEMMA SayingsExist ==
    ASSUME NEW items
    PROVE  \A n \in Nat : \E g : SaysIt(g, items, n)
<1> DEFINE S == {n \in Nat : \E g : SaysIt(g, items, n)}
<1>1. 0 \in S
  <2>1. SaysIt([m \in 0..0 |-> <<>>], items, 0)
    BY DEF SaysIt
  <2> QED
    BY <2>1
<1>2. ASSUME NEW n \in Nat, n \in S PROVE n + 1 \in S
  <2>1. PICK g : SaysIt(g, items, n)
    BY <1>2
  <2>2. PICK x : x = IF items[n + 1].phase = "commentary" THEN g[n] ELSE Append(g[n], Whole(n + 1))
    OBVIOUS
  <2> DEFINE h == [m \in 0..(n + 1) |-> IF m = n + 1 THEN x ELSE g[m]]
  <2>3. \A m \in 0..n : h[m] = g[m]
    OBVIOUS
  <2>4. h[n + 1] = x /\ h = [m \in 0..(n + 1) |-> h[m]]
    OBVIOUS
  <2> HIDE DEF h
  <2>5. ASSUME NEW m \in 0..(n + 1)
        PROVE  h[m] = IF m = 0 THEN <<>>
                      ELSE IF items[m].phase = "commentary" THEN h[m - 1]
                      ELSE Append(h[m - 1], Whole(m))
    <3>1. CASE m = n + 1
      <4>1. m - 1 = n /\ n \in 0..n /\ m # 0
        BY <3>1
      <4> QED
        BY <3>1, <4>1, <2>2, <2>3, <2>4
    <3>2. CASE m \in 0..n
      <4>1. m = 0 \/ m - 1 \in 0..n
        BY <3>2
      <4> QED
        BY <3>2, <4>1, <2>1, <2>3 DEF SaysIt
    <3> QED
      BY <3>1, <3>2
  <2>6. SaysIt(h, items, n + 1)
    BY <2>4, <2>5 DEF SaysIt
  <2> QED
    BY <2>6
<1> QED
  BY <1>1, <1>2, SetInduction

\* So Said is one.
LEMMA SaidSays ==
    ASSUME NEW items \in Seq(Item)
    PROVE  SaysIt(Said(items), items, Len(items))
<1> DEFINE Is(g) == g = [n \in 0..Len(items) |-> IF n = 0 THEN <<>>
                                  ELSE IF items[n].phase = "commentary" THEN g[n - 1]
                                  ELSE Append(g[n - 1], [item |-> n, whole |-> TRUE])]
<1>1. Said(items) = CHOOSE g : Is(g)
  BY DEF Said
<1>2. PICK g : SaysIt(g, items, Len(items))
  BY SayingsExist
<1>3. Is(g)
  BY <1>2 DEF SaysIt, Whole
<1>4. Is(Said(items))
  BY <1>1, <1>3
<1> QED
  BY <1>4 DEF SaysIt, Whole

LEMMA SaidNothing ==
    ASSUME NEW a \in Seq(Item)
    PROVE  Said(a)[0] = <<>>
<1>1. 0 \in 0..Len(a)
  OBVIOUS
<1> QED
  BY <1>1, SaidSays DEF SaysIt

\* What the first messages contribute depends on nothing but their phases.
LEMMA SaidOfFirst ==
    ASSUME NEW a \in Seq(Item), NEW b \in Seq(Item), NEW k \in Nat, k <= Len(a), k <= Len(b),
           \A i \in 1..k : a[i].phase = b[i].phase
    PROVE  Said(a)[k] = Said(b)[k]
<1> DEFINE S == {n \in Nat : n <= k => Said(a)[n] = Said(b)[n]}
<1>0. SaysIt(Said(a), a, Len(a)) /\ SaysIt(Said(b), b, Len(b))
  BY SaidSays
<1>1. 0 \in S
  BY SaidNothing
<1>2. ASSUME NEW n \in Nat, n \in S PROVE n + 1 \in S
  <2> SUFFICES ASSUME n + 1 <= k PROVE Said(a)[n + 1] = Said(b)[n + 1]
    OBVIOUS
  <2>1. Said(a)[n] = Said(b)[n] /\ a[n + 1].phase = b[n + 1].phase
    BY <1>2
  <2>2. n + 1 \in 0..Len(a) /\ n + 1 \in 0..Len(b) /\ n + 1 # 0 /\ (n + 1) - 1 = n
    OBVIOUS
  <2>3. Said(a)[n + 1] = IF a[n + 1].phase = "commentary" THEN Said(a)[n] ELSE Append(Said(a)[n], Whole(n + 1))
    BY <1>0, <2>2 DEF SaysIt
  <2>4. Said(b)[n + 1] = IF b[n + 1].phase = "commentary" THEN Said(b)[n] ELSE Append(Said(b)[n], Whole(n + 1))
    BY <1>0, <2>2 DEF SaysIt
  <2> QED
    BY <2>1, <2>3, <2>4
<1> HIDE DEF S
<1>3. k \in S
  BY <1>1, <1>2, SetInduction
<1> QED
  BY <1>3 DEF S

LEMMA SaidNext ==
    ASSUME NEW a \in Seq(Item), NEW k \in Nat, k < Len(a)
    PROVE  Said(a)[k + 1] = IF a[k + 1].phase = "commentary" THEN Said(a)[k]
                            ELSE Append(Said(a)[k], Whole(k + 1))
<1>1. k + 1 \in 0..Len(a) /\ k + 1 # 0 /\ (k + 1) - 1 = k
  OBVIOUS
<1> QED
  BY <1>1, SaidSays DEF SaysIt

-----------------------------------------------------------------------------
(* The feed of a call *)

\* A turn goes on: its messages stay, and its end is final.
Grows(t, u) ==
    /\ Len(t.items) <= Len(u.items)
    /\ \A i \in 1..Len(t.items) : /\ u.items[i].phase = t.items[i].phase
                                  /\ t.items[i].state = "done" => u.items[i].state = "done"
    /\ t.status \in Over => u.status = t.status

LEMMA TrueStays ==
    ASSUME NEW t \in Turn, NEW u \in Turn, Grows(t, u), NEW e, True(e, t)
    PROVE  True(e, u)
<1>1. t.items \in Seq(Item) /\ u.items \in Seq(Item)
  BY DEF Turn
<1>2. Len(t.items) \in Nat /\ Len(u.items) \in Nat
  BY <1>1
<1> QED
  BY <1>2 DEF True, Grows

\* A part of the feed that hangs together is in order as well.
LEMMA OrderKept ==
    ASSUME NEW s \in Seq(Line), NEW r \in Seq(Line), NEW d \in Nat, Len(r) + d <= Len(s),
           \A p \in 1..Len(r) : r[p] = s[p + d],
           NEW t \in Turn, NEW u \in Turn, Grows(t, u), NEW c, InOrder(s, c, t)
    PROVE  InOrder(r, c, u)
<1>1. \A p \in 1..Len(r) : p + d \in 1..Len(s)
  OBVIOUS
<1>2. \A p, q \in 1..Len(r) : p < q => p + d < q + d
  OBVIOUS
<1>3. ASSUME NEW p \in 1..Len(r), Of(r[p], c) PROVE True(r[p], u)
  <2>1. True(s[p + d], t)
    BY <1>1, <1>3 DEF InOrder
  <2> QED
    BY <2>1, TrueStays
<1>4. ASSUME NEW p \in 1..Len(r), NEW q \in 1..Len(r), p < q, Of(r[p], c), Of(r[q], c)
      PROVE  First(r[p], r[q])
  BY <1>1, <1>2, <1>4 DEF InOrder
<1> QED
  BY <1>3, <1>4 DEF InOrder

LEMMA OrderStays ==
    ASSUME NEW s, NEW t \in Turn, NEW u \in Turn, Grows(t, u), NEW c, InOrder(s, c, t)
    PROVE  InOrder(s, c, u)
BY TrueStays DEF InOrder

\* An event that is true and may come last keeps the order.
LEMMA OrderGrows ==
    ASSUME NEW s \in Seq(Line), NEW e \in Line,
           NEW t \in Turn, NEW u \in Turn, Grows(t, u), NEW c, InOrder(s, c, t),
           Of(e, c) => True(e, u) /\ \A p \in 1..Len(s) : Of(s[p], c) => First(s[p], e)
    PROVE  InOrder(Append(s, e), c, u)
<1> DEFINE r == Append(s, e)
<1>1. /\ Len(r) = Len(s) + 1 /\ Len(s) \in Nat
      /\ \A p \in 1..Len(s) : r[p] = s[p]
      /\ r[Len(s) + 1] = e
  OBVIOUS
<1> HIDE DEF r
<1>2. ASSUME NEW p \in 1..Len(r), Of(r[p], c) PROVE True(r[p], u)
  <2>1. CASE p = Len(s) + 1
    BY <1>1, <1>2, <2>1
  <2>2. CASE p \in 1..Len(s)
    <3>1. True(s[p], t)
      BY <1>1, <1>2, <2>2 DEF InOrder
    <3> QED
      BY <1>1, <2>2, <3>1, TrueStays
  <2> QED
    BY <1>1, <2>1, <2>2
<1>3. ASSUME NEW p \in 1..Len(r), NEW q \in 1..Len(r), p < q, Of(r[p], c), Of(r[q], c)
      PROVE  First(r[p], r[q])
  <2>1. p \in 1..Len(s)
    BY <1>1, <1>3
  <2>2. CASE q = Len(s) + 1
    BY <1>1, <1>3, <2>1, <2>2
  <2>3. CASE q \in 1..Len(s)
    BY <1>1, <1>3, <2>1, <2>3 DEF InOrder
  <2> QED
    BY <1>1, <2>2, <2>3
<1> QED
  BY <1>2, <1>3 DEF InOrder, r

LEMMA PendingGrows ==
    ASSUME NEW s \in Seq(Line), NEW e \in Line, NEW c, NEW kind, NEW i
    PROVE  Pending(Append(s, e), c, kind, i) <=>
             Pending(s, c, kind, i) \/ (Of(e, c) /\ e.kind = kind /\ e.item = i)
<1> DEFINE r == Append(s, e)
<1>1. /\ Len(r) = Len(s) + 1 /\ Len(s) \in Nat
      /\ \A p \in 1..Len(s) : r[p] = s[p]
      /\ r[Len(s) + 1] = e
  OBVIOUS
<1> HIDE DEF r
<1>2. 1..Len(r) = 1..Len(s) \cup {Len(s) + 1}
  BY <1>1
<1>3. Pending(r, c, kind, i) <=> Pending(s, c, kind, i) \/ (Of(e, c) /\ e.kind = kind /\ e.item = i)
  BY <1>1, <1>2 DEF Pending
<1> QED
  BY <1>3 DEF r

LEMMA PendingShrinks ==
    ASSUME NEW s \in Seq(Line), s # <<>>, NEW c, NEW kind, NEW i, Pending(s, c, kind, i)
    PROVE  \/ Pending(Tail(s), c, kind, i)
           \/ Of(Head(s), c) /\ Head(s).kind = kind /\ Head(s).item = i
<1>1. PICK p \in 1..Len(s) : Of(s[p], c) /\ s[p].kind = kind /\ s[p].item = i
  BY DEF Pending
<1>2. CASE p = 1
  BY <1>1, <1>2
<1>3. CASE p # 1
  <2>1. p - 1 \in 1..Len(Tail(s)) /\ Tail(s)[p - 1] = s[(p - 1) + 1] /\ (p - 1) + 1 = p
    BY <1>3, HeadTailProperties
  <2> QED
    BY <1>1, <2>1 DEF Pending
<1> QED
  BY <1>2, <1>3

-----------------------------------------------------------------------------
(* What is collected *)

\* The turn goes on and notifies of it: what is collected is what it was.
LEMMA HeardGrows ==
    ASSUME NEW s \in Seq(Line), NEW e \in Line, NEW c, NEW t \in Turn, NEW u \in Turn, Grows(t, u),
           NEW m, NEW r, NEW k \in 0..Len(t.items), Heard(s, c, t, m, r, k),
           Of(e, c) /\ e.kind # "terminal" => e.item > k,
           \A i \in 1..Len(u.items) : u.items[i].state = "done" =>
              \/ i <= Len(t.items) /\ t.items[i].state = "done"
              \/ Of(e, c) /\ e.kind = "message_completed" /\ e.item = i,
           \A i \in 1..Len(u.items) : i <= Len(t.items) \/ (Of(e, c) /\ e.kind = "message_started" /\ e.item = i)
    PROVE  k \in 0..Len(u.items) /\ Heard(Append(s, e), c, u, m, r, k)
<1> DEFINE w == Append(s, e)
<1>1. /\ Len(w) = Len(s) + 1 /\ Len(s) \in Nat
      /\ \A p \in 1..Len(s) : w[p] = s[p]
      /\ w[Len(s) + 1] = e
  OBVIOUS
<1>2. \A kind, i : Pending(w, c, kind, i) <=>
             Pending(s, c, kind, i) \/ (Of(e, c) /\ e.kind = kind /\ e.item = i)
  BY PendingGrows
<1> HIDE DEF w
<1>3. t.items \in Seq(Item) /\ u.items \in Seq(Item) /\ Len(t.items) \in Nat /\ Len(u.items) \in Nat
  BY DEF Turn
<1>4. k \in 0..Len(u.items) /\ \A i \in 1..k : i \in 1..Len(t.items)
  BY <1>3 DEF Grows
<1>5. \A i \in 1..Len(t.items) : u.items[i].phase = t.items[i].phase
  BY DEF Grows
<1>6. r = Said(u.items)[k]
  <2>1. Said(t.items)[k] = Said(u.items)[k]
    <3>1. k \in Nat /\ k <= Len(t.items) /\ k <= Len(u.items)
      BY <1>3, <1>4
    <3>2. \A i \in 1..k : t.items[i].phase = u.items[i].phase
      BY <1>4, <1>5
    <3> QED
      BY <1>3, <3>1, <3>2, SaidOfFirst
  <2> QED
    BY <2>1 DEF Heard
<1>7. r = <<>> => \A i \in 1..k : u.items[i].phase = "commentary"
  BY <1>4, <1>5 DEF Heard
<1>8. \A i \in 1..k : u.items[i].state = "done"
  BY <1>4 DEF Heard, Grows
<1>9. ASSUME NEW p \in 1..Len(w), Of(w[p], c), w[p].kind # "terminal" PROVE w[p].item > k
  <2>1. p \in 1..Len(s) \/ p = Len(s) + 1
    BY <1>1
  <2> QED
    BY <1>1, <1>9, <2>1 DEF Heard
<1>10. ASSUME NEW i \in 1..Len(u.items), u.items[i].state = "done"
       PROVE  i <= k \/ Pending(w, c, "message_completed", i)
  <2>1. CASE i <= Len(t.items) /\ t.items[i].state = "done"
    <3>1. i \in 1..Len(t.items)
      BY <1>3, <2>1
    <3> QED
      BY <1>2, <2>1, <3>1 DEF Heard
  <2>2. CASE Of(e, c) /\ e.kind = "message_completed" /\ e.item = i
    BY <1>2, <2>2
  <2> QED
    BY <1>10, <2>1, <2>2
<1>11. ASSUME NEW i \in 1..Len(u.items)
       PROVE  m[i].phase = u.items[i].phase \/ Pending(w, c, "message_started", i)
  <2>1. CASE i <= Len(t.items)
    <3>1. i \in 1..Len(t.items)
      BY <1>3, <2>1
    <3> QED
      BY <1>2, <1>5, <3>1 DEF Heard
  <2>2. CASE Of(e, c) /\ e.kind = "message_started" /\ e.item = i
    BY <1>2, <2>2
  <2> QED
    BY <2>1, <2>2
<1>12. ASSUME NEW i \in Items, m[i].text
       PROVE  i <= Len(u.items) /\ m[i].phase = u.items[i].phase
  <2>1. i <= Len(t.items) /\ m[i].phase = t.items[i].phase
    BY <1>12 DEF Heard
  <2>2. i \in 1..Len(t.items) /\ i <= Len(u.items)
    BY <1>3, <2>1, TurnClientAssumption DEF Items, Grows
  <2> QED
    BY <1>5, <2>1, <2>2
<1> QED
  BY <1>4, <1>6, <1>7, <1>8, <1>9, <1>10, <1>11, <1>12 DEF Heard, w

\* A line of another turn, an answer or the terminal event need not stay.
LEMMA HeardForgets ==
    ASSUME NEW s \in Seq(Line), NEW e \in Line, NEW c,
           ~ Of(e, c) \/ e.kind = "terminal",
           NEW t \in Turn, NEW m, NEW r, NEW k \in 0..Len(t.items), Heard(Append(s, e), c, t, m, r, k)
    PROVE  Heard(s, c, t, m, r, k)
<1> DEFINE w == Append(s, e)
<1>1. /\ Len(w) = Len(s) + 1 /\ Len(s) \in Nat
      /\ \A p \in 1..Len(s) : w[p] = s[p] /\ p \in 1..Len(w)
  OBVIOUS
<1>2. \A kind, i : Pending(w, c, kind, i) <=>
             Pending(s, c, kind, i) \/ (Of(e, c) /\ e.kind = kind /\ e.item = i)
  BY PendingGrows
<1> HIDE DEF w
<1>3. \A kind, i : kind # "terminal" => (Pending(w, c, kind, i) <=> Pending(s, c, kind, i))
  BY <1>2
<1>4. Heard(w, c, t, m, r, k)
  BY DEF w
<1> QED
  BY <1>1, <1>3, <1>4 DEF Heard

\* What the order of the feed says of its head.
LEMMA HeadFirst ==
    ASSUME NEW s \in Seq(Line), s # <<>>, NEW c, NEW t, InOrder(s, c, t), Of(Head(s), c)
    PROVE  /\ True(Head(s), t)
           /\ \A q \in 1..Len(Tail(s)) : Of(Tail(s)[q], c) => First(Head(s), Tail(s)[q])
<1>1. Len(s) \in Nat \ {0} /\ Head(s) = s[1]
  OBVIOUS
<1>2. True(Head(s), t)
  BY <1>1 DEF InOrder
<1>3. ASSUME NEW q \in 1..Len(Tail(s)), Of(Tail(s)[q], c) PROVE First(Head(s), Tail(s)[q])
  <2>1. q + 1 \in 1..Len(s) /\ 1 < q + 1 /\ 1 \in 1..Len(s) /\ Tail(s)[q] = s[q + 1]
    BY <1>1, HeadTailProperties
  <2> QED
    BY <1>1, <1>3, <2>1 DEF InOrder
<1> QED
  BY <1>2, <1>3

\* An event of another turn is passed over.
LEMMA HeardForeign ==
    ASSUME NEW s \in Seq(Line), s # <<>>, NEW c, NEW t \in Turn, NEW m, NEW r, NEW k \in 0..Len(t.items),
           Heard(s, c, t, m, r, k), ~ Of(Head(s), c)
    PROVE  Heard(Tail(s), c, t, m, r, k)
<1>1. \A kind, i : Pending(s, c, kind, i) => Pending(Tail(s), c, kind, i)
  BY PendingShrinks
<1>2. \A q \in 1..Len(Tail(s)) : q + 1 \in 1..Len(s) /\ Tail(s)[q] = s[q + 1]
  BY HeadTailProperties
<1> QED
  BY <1>1, <1>2 DEF Heard

LEMMA PhaseNoted ==
    ASSUME NEW m \in [Items -> Msg], NEW i \in Items, NEW x
    PROVE  LET n == [m EXCEPT ![i].phase = x]
           IN  /\ \A j \in Items : n[j].text = m[j].text
               /\ \A j \in Items \ {i} : n[j] = m[j]
               /\ n[i].phase = x
<1>1. m[i] \in Msg
  OBVIOUS
<1>2. PICK y : y = [m[i] EXCEPT !.phase = x]
  OBVIOUS
<1>3. y.phase = x /\ y.text = m[i].text
  BY <1>1, <1>2 DEF Msg
<1>4. [m EXCEPT ![i].phase = x] = [m EXCEPT ![i] = y]
  BY <1>2
<1> QED
  BY <1>3, <1>4

LEMMA TextNoted ==
    ASSUME NEW m \in [Items -> Msg], NEW i \in Items
    PROVE  LET n == [m EXCEPT ![i].text = TRUE]
           IN  /\ \A j \in Items : n[j].phase = m[j].phase
               /\ \A j \in Items \ {i} : n[j] = m[j]
<1>1. m[i] \in Msg
  OBVIOUS
<1>2. PICK y : y = [m[i] EXCEPT !.text = TRUE]
  OBVIOUS
<1>3. y.phase = m[i].phase
  BY <1>1, <1>2 DEF Msg
<1>4. [m EXCEPT ![i].text = TRUE] = [m EXCEPT ![i] = y]
  BY <1>2
<1> QED
  BY <1>3, <1>4

\* The start of a message, and a delta.
LEMMA HeardStarted ==
    ASSUME NEW s \in Seq(Line), s # <<>>, NEW c, NEW t \in Turn, NEW m \in [Items -> Msg], NEW r,
           NEW k \in 0..Len(t.items), Len(t.items) <= MaxItems,
           Heard(s, c, t, m, r, k), InOrder(s, c, t), Of(Head(s), c), Head(s).kind = "message_started"
    PROVE  Heard(Tail(s), c, t, [m EXCEPT ![Head(s).item].phase = Head(s).phase], r, k)
<1> DEFINE e == Head(s)
           n == [m EXCEPT ![e.item].phase = e.phase]
<1>1. e.item \in 1..Len(t.items) /\ e.phase = t.items[e.item].phase
  BY HeadFirst DEF True
<1>2. \A q \in 1..Len(Tail(s)) : q + 1 \in 1..Len(s) /\ Tail(s)[q] = s[q + 1]
  BY HeadTailProperties
<1>3. \A kind, i : Pending(s, c, kind, i) => Pending(Tail(s), c, kind, i) \/ (kind = e.kind /\ i = e.item)
  BY PendingShrinks
<1>4. Len(t.items) \in Nat /\ MaxItems \in Nat
  BY TurnClientAssumption DEF Turn
<1>5. /\ \A i \in Items : n[i].text = m[i].text
      /\ \A i \in Items \ {e.item} : n[i] = m[i]
      /\ e.item \in Items /\ n[e.item].phase = e.phase
  <2>1. e.item \in Items
    BY <1>1, <1>4 DEF Items
  <2> QED
    BY <2>1, PhaseNoted
<1> HIDE DEF e, n
<1>6. \A i \in 1..Len(t.items) : n[i].phase = t.items[i].phase \/ Pending(Tail(s), c, "message_started", i)
  BY <1>1, <1>3, <1>4, <1>5 DEF Heard, Items
<1>7. \A i \in Items : n[i].text => i <= Len(t.items) /\ n[i].phase = t.items[i].phase
  BY <1>1, <1>5 DEF Heard
<1>8. \A i \in 1..Len(t.items) : t.items[i].state = "done" => i <= k \/ Pending(Tail(s), c, "message_completed", i)
  BY <1>3 DEF Heard, e
<1>9. Heard(Tail(s), c, t, n, r, k)
  BY <1>2, <1>6, <1>7, <1>8 DEF Heard
<1> QED
  BY <1>9 DEF n, e

LEMMA HeardDelta ==
    ASSUME NEW s \in Seq(Line), s # <<>>, NEW c, NEW t \in Turn, NEW m \in [Items -> Msg], NEW r,
           NEW k \in 0..Len(t.items), Len(t.items) <= MaxItems,
           Heard(s, c, t, m, r, k), InOrder(s, c, t), Of(Head(s), c), Head(s).kind = "message_delta"
    PROVE  Heard(Tail(s), c, t, [m EXCEPT ![Head(s).item].text = TRUE], r, k)
<1> DEFINE e == Head(s)
           n == [m EXCEPT ![e.item].text = TRUE]
<1>1. e.item \in 1..Len(t.items) /\ e.phase = t.items[e.item].phase
  BY HeadFirst DEF True
<1>2. \A q \in 1..Len(Tail(s)) : q + 1 \in 1..Len(s) /\ Tail(s)[q] = s[q + 1]
  BY HeadTailProperties
<1>3. \A kind, i : Pending(s, c, kind, i) => Pending(Tail(s), c, kind, i) \/ (kind = e.kind /\ i = e.item)
  BY PendingShrinks
<1>4. Len(t.items) \in Nat /\ MaxItems \in Nat
  BY TurnClientAssumption DEF Turn
<1>5. /\ \A i \in Items : n[i].phase = m[i].phase
      /\ \A i \in Items \ {e.item} : n[i] = m[i]
      /\ e.item \in Items
  <2>1. e.item \in Items
    BY <1>1, <1>4 DEF Items
  <2> QED
    BY <2>1, TextNoted
<1>6. ~ Pending(Tail(s), c, "message_started", e.item)
  <2> SUFFICES ASSUME NEW q \in 1..Len(Tail(s)), Of(Tail(s)[q], c),
                      Tail(s)[q].kind = "message_started", Tail(s)[q].item = e.item
               PROVE  FALSE
    BY DEF Pending
  <2>1. First(e, Tail(s)[q])
    BY HeadFirst
  <2> QED
    BY <1>1, <1>4, <2>1 DEF First
<1> HIDE DEF e, n
<1>7. \A i \in 1..Len(t.items) : n[i].phase = t.items[i].phase \/ Pending(Tail(s), c, "message_started", i)
  BY <1>3, <1>4, <1>5 DEF Heard, Items, e
<1>8. \A i \in Items : n[i].text => i <= Len(t.items) /\ n[i].phase = t.items[i].phase
  BY <1>1, <1>4, <1>5, <1>6, <1>7 DEF Heard
<1>9. \A i \in 1..Len(t.items) : t.items[i].state = "done" => i <= k \/ Pending(Tail(s), c, "message_completed", i)
  BY <1>3 DEF Heard, e
<1>10. Heard(Tail(s), c, t, n, r, k)
  BY <1>2, <1>7, <1>8, <1>9 DEF Heard
<1> QED
  BY <1>10 DEF n, e

\* The end of a message: it is the next one, and joins the reply.
LEMMA HeardCompleted ==
    ASSUME NEW s \in Seq(Line), s # <<>>, NEW c, NEW t \in Turn, NEW m \in [Items -> Msg], NEW r \in Seq(Part),
           NEW k \in 0..Len(t.items), Len(t.items) <= MaxItems,
           \A i \in 1..Len(t.items) : i < Len(t.items) => t.items[i].state = "done",
           Heard(s, c, t, m, r, k), InOrder(s, c, t), Of(Head(s), c), Head(s).kind = "message_completed",
           NEW ph, Head(s).phase # NoPhase => ph = Head(s).phase, Head(s).phase = NoPhase => ph = m[Head(s).item].phase,
           NEW w, ph = "commentary" => w = r, ph # "commentary" => w = Append(r, Whole(Head(s).item))
    PROVE  /\ k + 1 \in 0..Len(t.items)
           /\ Heard(Tail(s), c, t, [m EXCEPT ![Head(s).item].phase = ph], w, k + 1)
<1> DEFINE e == Head(s)
           n == [m EXCEPT ![e.item].phase = ph]
<1>1. /\ e.item \in 1..Len(t.items) /\ e.phase = t.items[e.item].phase /\ t.items[e.item].state = "done"
      /\ \A q \in 1..Len(Tail(s)) : Of(Tail(s)[q], c) => First(e, Tail(s)[q])
  BY HeadFirst DEF True
<1>2. \A q \in 1..Len(Tail(s)) : q + 1 \in 1..Len(s) /\ Tail(s)[q] = s[q + 1]
  BY HeadTailProperties
<1>3. \A kind, i : Pending(s, c, kind, i) => Pending(Tail(s), c, kind, i) \/ (kind = e.kind /\ i = e.item)
  BY PendingShrinks
<1>4. Len(t.items) \in Nat /\ MaxItems \in Nat /\ t.items \in Seq(Item) /\ k \in Nat
  BY TurnClientAssumption DEF Turn
<1>5. \A q \in 1..Len(Tail(s)) : Of(Tail(s)[q], c) /\ Tail(s)[q].kind # "terminal" => Tail(s)[q].item > e.item
  <2> SUFFICES ASSUME NEW q \in 1..Len(Tail(s)), Of(Tail(s)[q], c), Tail(s)[q].kind # "terminal"
               PROVE  Tail(s)[q].item > e.item
    OBVIOUS
  <2>1. First(e, Tail(s)[q])
    BY <1>1
  <2>2. Tail(s)[q] \in Line
    BY HeadTailProperties
  <2>3. Tail(s)[q].item \in Nat
    BY <2>2 DEF Line
  <2> QED
    BY <1>1, <1>4, <2>1, <2>3 DEF First
<1>6. e.item = k + 1
  <2>1. e.item > k
    <3>1. 1 \in 1..Len(s) /\ e = s[1]
      OBVIOUS
    <3> QED
      BY <3>1 DEF Heard
  <2>2. ASSUME e.item # k + 1 PROVE FALSE
    <3>1. k + 1 \in 1..Len(t.items) /\ k + 1 < e.item /\ k + 1 < Len(t.items)
      BY <1>1, <1>4, <2>1, <2>2
    <3>2. Pending(s, c, "message_completed", k + 1)
      BY <1>4, <3>1 DEF Heard
    <3>3. PICK q \in 1..Len(Tail(s)) : /\ Of(Tail(s)[q], c) /\ Tail(s)[q].item = k + 1
                                      /\ Tail(s)[q].kind = "message_completed"
      BY <1>3, <2>2, <3>2 DEF Pending
    <3>4. Tail(s)[q].item > e.item
      BY <1>5, <3>3
    <3> QED
      BY <1>1, <1>4, <3>1, <3>3, <3>4
  <2> QED
    BY <2>2
<1>7. /\ \A i \in Items : n[i].text = m[i].text
      /\ \A i \in Items \ {e.item} : n[i] = m[i]
      /\ e.item \in Items /\ n[e.item].phase = ph
  <2>1. e.item \in Items
    BY <1>1, <1>4 DEF Items
  <2> QED
    BY <2>1, PhaseNoted
<1>8. ph = t.items[e.item].phase
  <2>1. CASE e.phase # NoPhase
    BY <1>1, <2>1
  <2>2. CASE e.phase = NoPhase
    <3>1. ~ Pending(s, c, "message_started", e.item)
      <4>1. ~ Pending(Tail(s), c, "message_started", e.item)
        <5> SUFFICES ASSUME NEW q \in 1..Len(Tail(s)), Of(Tail(s)[q], c), Tail(s)[q].item = e.item,
                            Tail(s)[q].kind = "message_started"
                     PROVE  FALSE
          BY DEF Pending
        <5>1. Tail(s)[q].item > e.item
          BY <1>5
        <5>2. ~ (e.item > e.item)
          BY <1>1, <1>4
        <5> QED
          BY <5>1, <5>2
      <4> QED
        BY <1>3, <4>1
    <3> QED
      BY <1>1, <2>2, <3>1 DEF Heard
  <2> QED
    BY <2>1, <2>2
<1>9. k + 1 \in 0..Len(t.items) /\ k < Len(t.items) /\ \A i \in 1..(k + 1) : i \in 1..k \/ i = k + 1
  BY <1>1, <1>4, <1>6
<1> HIDE DEF e, n
<1>10. w = Said(t.items)[k + 1]
  <2>1. r = Said(t.items)[k]
    BY DEF Heard
  <2> QED
    BY <1>4, <1>6, <1>8, <1>9, <2>1, SaidNext DEF Whole, e
<1>11. w = <<>> => \A i \in 1..(k + 1) : t.items[i].phase = "commentary"
  <2>1. Append(r, Whole(e.item)) # <<>>
    <3>1. Whole(e.item) \in Part
      BY <1>1, <1>4 DEF Whole, Part
    <3> QED
      BY <3>1, AppendProperties
  <2>2. w = <<>> => ph = "commentary" /\ r = <<>>
    BY <2>1 DEF e
  <2> QED
    BY <1>6, <1>8, <1>9, <2>2 DEF Heard
<1>12. \A i \in 1..(k + 1) : t.items[i].state = "done"
  BY <1>1, <1>6, <1>9 DEF Heard
<1>13. \A i \in 1..Len(t.items) : n[i].phase = t.items[i].phase \/ Pending(Tail(s), c, "message_started", i)
  BY <1>3, <1>4, <1>7, <1>8 DEF Heard, Items, e
<1>14. \A i \in Items : n[i].text => i <= Len(t.items) /\ n[i].phase = t.items[i].phase
  BY <1>1, <1>7, <1>8 DEF Heard
<1>15. \A i \in 1..Len(t.items) : t.items[i].state = "done" =>
          i <= k + 1 \/ Pending(Tail(s), c, "message_completed", i)
  BY <1>3, <1>4, <1>6 DEF Heard
<1>16. Heard(Tail(s), c, t, n, w, k + 1)
  BY <1>5, <1>6, <1>10, <1>11, <1>12, <1>13, <1>14, <1>15 DEF Heard
<1> QED
  BY <1>9, <1>16 DEF n, e

\* When the terminal event comes, everything of the turn is collected.
LEMMA HeardAll ==
    ASSUME NEW s \in Seq(Line), s # <<>>, NEW c, NEW t \in Turn, NEW m, NEW r, NEW k \in 0..Len(t.items),
           \A i \in 1..Len(t.items) : t.items[i].state = "done",
           Heard(s, c, t, m, r, k), InOrder(s, c, t), Of(Head(s), c), Head(s).kind = "terminal"
    PROVE  /\ r = Said(t.items)[Len(t.items)]
           /\ r = <<>> => \A i \in Items : m[i].text => m[i].phase = "commentary"
<1>1. \A q \in 1..Len(Tail(s)) : ~ Of(Tail(s)[q], c)
  BY HeadFirst DEF First
<1>2. \A i : ~ Pending(s, c, "message_completed", i)
  <2> SUFFICES ASSUME NEW i, Pending(s, c, "message_completed", i) PROVE FALSE
    OBVIOUS
  <2>1. ~ Pending(Tail(s), c, "message_completed", i)
    BY <1>1 DEF Pending
  <2> QED
    BY <2>1, PendingShrinks
<1>3. Len(t.items) \in Nat /\ k \in Nat
  BY DEF Turn
<1>4. k = Len(t.items)
  <2>1. ASSUME k # Len(t.items) PROVE FALSE
    <3>1. Len(t.items) \in 1..Len(t.items) /\ ~ (Len(t.items) <= k)
      BY <1>3, <2>1
    <3> QED
      BY <1>2, <3>1 DEF Heard
  <2> QED
    BY <2>1
<1>5. ASSUME r = <<>>, NEW i \in Items, m[i].text PROVE m[i].phase = "commentary"
  <2>1. i <= Len(t.items) /\ m[i].phase = t.items[i].phase
    BY <1>5 DEF Heard
  <2>2. i \in 1..k
    BY <1>3, <1>4, <2>1, TurnClientAssumption DEF Items
  <2> QED
    BY <1>5, <2>1, <2>2 DEF Heard
<1> QED
  BY <1>4, <1>5 DEF Heard

-----------------------------------------------------------------------------
(* What a step may do to a call *)

LEMMA JoinedOne ==
    ASSUME NEW s \in Seq(Line), NEW e \in Line
    PROVE  s \o <<e>> = Append(s, e)
BY AppendIsConcat

LEMMA Joined ==
    ASSUME NEW s \in Seq(Line), NEW p \in Seq(Line), Len(p) <= 1
    PROVE  /\ s \o p \in Seq(Line)
           /\ p = <<>> => s \o p = s
           /\ p # <<>> => /\ p = <<Head(p)>> /\ Head(p) \in Line /\ Tail(p) = <<>>
                          /\ s \o p = Append(s, Head(p))
           /\ \A i \in 1..Len(p) : p # <<>> /\ p[i] = Head(p)
<1>1. s \o p \in Seq(Line)
  BY ConcatProperties
<1>2. p = <<>> => s \o p = s
  BY ConcatEmptySeq
<1>3. ASSUME p # <<>>
      PROVE  p = <<Head(p)>> /\ Head(p) \in Line /\ Tail(p) = <<>> /\ s \o p = Append(s, Head(p))
  <2>1. Len(p) = 1 /\ Head(p) \in Line
    <3>1. Len(p) \in Nat \ {0}
      BY <1>3, EmptySeq
    <3>2. Len(p) = 1
      <4>1. PICK n \in Nat \ {0} : n = Len(p)
        BY <3>1
      <4>2. n <= 1
        BY <4>1
      <4> QED
        BY <4>1, <4>2
    <3>3. Head(p) \in Line
      BY <1>3, HeadTailProperties
    <3> QED
      BY <3>2, <3>3
  <2>2. p = <<Head(p)>>
    <3>1. <<Head(p)>> \in Seq(Line) /\ Len(<<Head(p)>>) = 1 /\ \A i \in 1..1 : p[i] = <<Head(p)>>[i]
      BY <2>1
    <3> QED
      BY <2>1, <3>1, SeqEqual
  <2>3. Tail(p) = <<>>
    <3>1. Tail(p) \in Seq(Line) /\ Len(Tail(p)) = 0
      BY <1>3, <2>1, HeadTailProperties
    <3> QED
      BY <3>1, EmptySeq
  <2> QED
    BY <2>1, <2>2, <2>3, JoinedOne
<1>4. \A i \in 1..Len(p) : p # <<>> /\ p[i] = Head(p)
  BY DEF Line
<1> QED
  BY <1>1, <1>2, <1>3, <1>4

LEMMA GrowsItself == ASSUME NEW t \in Turn PROVE Grows(t, t)
<1>1. Len(t.items) \in Nat
  BY DEF Turn
<1> QED
  BY <1>1 DEF Grows

\* What a call has is left alone.
Same(c) ==
    /\ pc'[c] = pc[c] /\ chan'[c] = chan[c] /\ msgs'[c] = msgs[c] /\ parts'[c] = parts[c]
    /\ out'[c] = out[c]

\* Codex, the pipe or other calls go on.
LEMMA Untouched ==
    ASSUME Shapes, Shapes', NEW c \in Calls, CallInv(c), Same(c), turn'[c] = turn[c],
           dropped \subseteq dropped',
           turn[c].status = "active" /\ alive => alive',
           <<"start", c>> \in reqs' => <<"start", c>> \in reqs,
           Listening(c) => turnCh' = c,
           pipe' = pipe \/ \E e \in Line : ~ Of(e, c) /\ pipe = <<>> /\ pipe' = <<e>>
    PROVE  CallInv(c)'
<1>1. Codexed(c)'
  BY DEF CallInv, Codexed
<1>2. Called(c)'
  BY DEF CallInv, Called, Same, Before, Listening
<1>3. Tells(c)'
  BY DEF CallInv, Tells, Same, TurnReply
<1>4. /\ chan[c] \in Seq(Line) /\ turn[c] \in Turn /\ c \in Turns
      /\ pipe \in Seq(Line) /\ pipe' \in Seq(Line) /\ Len(pipe) <= 1 /\ Len(pipe') <= 1
  BY DEF Shapes, Turns
<1>5. Following(c)' => Following(c)
  BY DEF Following, Listening, Same
<1>6. CASE pipe' = pipe
  <2>1. InOrder(Feed(c), c, turn[c])'
    BY <1>6 DEF CallInv, Feed, Same
  <2>2. Unread(c)'
    BY <1>6 DEF CallInv, Unread
  <2>3. Followed(c)'
    BY <1>5, <1>6 DEF CallInv, Followed, Feed, Same
  <2> QED
    BY <1>1, <1>2, <1>3, <2>1, <2>2, <2>3 DEF CallInv
<1>7. CASE pipe' # pipe
  <2>1. PICK e \in Line : ~ Of(e, c) /\ pipe = <<>> /\ pipe' = <<e>>
    BY <1>7
  <2>2. Feed(c) = chan[c] /\ Feed(c)' = Append(chan[c], e)
    BY <1>4, <2>1, Joined, JoinedOne DEF Feed, Same
  <2>3. InOrder(chan[c], c, turn[c]) /\ Grows(turn[c], turn[c])
    BY <1>4, <2>2, GrowsItself DEF CallInv
  <2>4. InOrder(Feed(c), c, turn[c])'
    BY <1>4, <2>1, <2>2, <2>3, OrderGrows
  <2>5. Unread(c)'
    BY <2>1 DEF Unread
  <2>6. Followed(c)'
    <3> SUFFICES ASSUME Following(c)'
                 PROVE  \E k \in 0..Len(turn[c].items) :
                          Heard(Append(chan[c], e), c, turn[c], msgs[c], parts[c], k)
      BY <2>2 DEF Followed, Same
    <3>1. PICK k \in 0..Len(turn[c].items) : Heard(chan[c], c, turn[c], msgs[c], parts[c], k)
      BY <1>5, <2>2 DEF CallInv, Followed
    <3>2. \A i \in 1..Len(turn[c].items) : i <= Len(turn[c].items)
      BY <1>4 DEF Turn
    <3> QED
      BY <1>4, <2>1, <2>3, <3>1, <3>2, HeardGrows
  <2> QED
    BY <1>1, <1>2, <1>3, <2>4, <2>5, <2>6 DEF CallInv
<1> QED
  BY <1>6, <1>7

LEMMA HeardOfItems ==
    ASSUME NEW s, NEW c, NEW t, NEW u, u.items = t.items, NEW m, NEW r, NEW k, Heard(s, c, t, m, r, k)
    PROVE  Heard(s, c, u, m, r, k)
BY DEF Heard

\* The turn of the call begins.
LEMMA Begins ==
    ASSUME Shapes, Shapes', NEW c \in Calls, CallInv(c), Same(c), dropped' = dropped, turnCh' = turnCh,
           alive, alive' = alive, pipe' = pipe, <<"start", c>> \in reqs, <<"start", c>> \notin reqs',
           turn'[c] = [turn[c] EXCEPT !.status = "active"]
    PROVE  CallInv(c)'
<1>1. c \in Turns /\ turn[c] \in Turn /\ turn'[c] \in Turn
  BY DEF Shapes, Turns
<1>2. turn'[c].status = "active" /\ turn'[c].items = turn[c].items
  BY <1>1 DEF Turn
<1>3. turn[c].status = "none" /\ turn[c].items = <<>> /\ ~ Before(c)
  BY DEF CallInv, Codexed, Called
<1>4. Len(turn[c].items) = 0 /\ MaxItems \in Nat
  BY <1>3, TurnClientAssumption
<1>5. Codexed(c)'
  <2>1. \A i \in 1..Len(turn'[c].items) : FALSE
    BY <1>2, <1>4
  <2> QED
    BY <1>2, <1>4, <2>1 DEF Codexed
<1>6. Called(c)'
  BY <1>3 DEF CallInv, Called, Same, Before, Listening
<1>7. Grows(turn[c], turn'[c])
  <2>1. \A i \in 1..Len(turn[c].items) : FALSE
    BY <1>4
  <2> QED
    BY <1>2, <1>3, <1>4, <2>1 DEF Grows, Over
<1>8. InOrder(Feed(c), c, turn[c])'
  <2>1. Feed(c)' = Feed(c)
    BY DEF Feed, Same
  <2>3. InOrder(Feed(c), c, turn[c])
    BY DEF CallInv
  <2>4. InOrder(Feed(c), c, turn'[c])
    BY <1>1, <1>7, <2>3, OrderStays
  <2> QED
    BY <2>1, <2>4
<1>9. Unread(c)'
  BY <1>2 DEF Unread
<1>10. Followed(c)'
  BY <1>2, <1>3, HeardOfItems DEF CallInv, Followed, Following, Listening, Feed, Same
<1>11. Tells(c)'
  BY <1>3 DEF CallInv, Tells, Same, Over
<1> QED
  BY <1>5, <1>6, <1>8, <1>9, <1>10, <1>11 DEF CallInv

\* The turn of the call notifies of what it does.
LEMMA Notifies ==
    ASSUME Shapes, Shapes', NEW c \in Calls, CallInv(c), Same(c), dropped' = dropped, turnCh' = turnCh,
           alive' = alive, reqs' = reqs, turn[c].status = "active",
           NEW e \in Line, Of(e, c), pipe = <<>>, pipe' = <<e>>,
           NEW u, u = turn'[c], Grows(turn[c], u), True(e, u), Codexed(c)',
           IF e.kind = "terminal" THEN u.status \in Over ELSE u.status = "active",
           \A f \in Line : Of(f, c) /\ True(f, turn[c]) /\ f.kind # "terminal" => First(f, e),
           e.kind # "terminal" => \A k \in 0..Len(turn[c].items) :
              (\A i \in 1..k : turn[c].items[i].state = "done") => e.item > k,
           \A i \in 1..Len(u.items) : u.items[i].state = "done" =>
              \/ i <= Len(turn[c].items) /\ turn[c].items[i].state = "done"
              \/ Of(e, c) /\ e.kind = "message_completed" /\ e.item = i,
           \A i \in 1..Len(u.items) :
              i <= Len(turn[c].items) \/ (Of(e, c) /\ e.kind = "message_started" /\ e.item = i)
    PROVE  CallInv(c)'
<1>1. /\ c \in Turns /\ turn[c] \in Turn /\ u \in Turn /\ chan[c] \in Seq(Line)
      /\ pipe \in Seq(Line) /\ Len(pipe) <= 1
  BY DEF Shapes, Turns
<1>2. Called(c)'
  BY DEF CallInv, Called, Same, Before, Listening
<1>3. Feed(c) = chan[c] /\ Feed(c)' = Append(chan[c], e)
  BY <1>1, Joined, JoinedOne DEF Feed, Same
<1>4. InOrder(chan[c], c, turn[c])
  BY <1>3 DEF CallInv
<1>5. ASSUME NEW p \in 1..Len(chan[c]), Of(chan[c][p], c) PROVE First(chan[c][p], e)
  <2>1. chan[c][p] \in Line /\ True(chan[c][p], turn[c])
    <3>1. chan[c][p] \in Line
      BY <1>1, ElementOfSeq
    <3> QED
      BY <1>4, <1>5, <3>1 DEF InOrder
  <2>2. chan[c][p].kind # "terminal"
    BY <2>1 DEF True, Over, Messages
  <2> QED
    BY <1>5, <2>1, <2>2
<1>6. InOrder(Feed(c), c, turn[c])'
  BY <1>1, <1>3, <1>4, <1>5, OrderGrows
<1>7. Unread(c)'
  <2>1. \A p \in 1..Len(<<e>>) : <<e>>[p] = e
    OBVIOUS
  <2> QED
    BY <2>1 DEF Unread
<1>8. Followed(c)'
  <2> SUFFICES ASSUME Following(c)'
               PROVE  \E k \in 0..Len(u.items) : Heard(Append(chan[c], e), c, u, msgs[c], parts[c], k)
    BY <1>3 DEF Followed, Same
  <2>1. Following(c)
    BY DEF Following, Listening, Same, Over
  <2>2. PICK k \in 0..Len(turn[c].items) : Heard(chan[c], c, turn[c], msgs[c], parts[c], k)
    BY <1>3, <2>1 DEF CallInv, Followed
  <2>3. e.kind # "terminal" => e.item > k
    BY <2>2 DEF Heard
  <2> QED
    BY <1>1, <2>2, <2>3, HeardGrows
<1>9. Tells(c)'
  BY DEF CallInv, Tells, Same, Over
<1> QED
  BY <1>2, <1>6, <1>7, <1>8, <1>9 DEF CallInv

\* The process dies with the turn of the call.
LEMMA Exits ==
    ASSUME Shapes, Shapes', NEW c \in Calls, CallInv(c), Same(c), dropped' = dropped, turnCh' = turnCh,
           pipe' = pipe, reqs' = {}, turn[c].status = "active",
           turn'[c] = [turn[c] EXCEPT !.status = "interrupted"]
    PROVE  CallInv(c)'
<1>1. c \in Turns /\ turn[c] \in Turn /\ turn'[c] \in Turn
  BY DEF Shapes, Turns
<1>2. turn'[c].status = "interrupted" /\ turn'[c].items = turn[c].items
  BY <1>1 DEF Turn
<1>3. Codexed(c)'
  BY <1>2 DEF CallInv, Codexed
<1>4. Called(c)'
  BY DEF CallInv, Called, Same, Before, Listening
<1>5. Grows(turn[c], turn'[c])
  <2>1. Len(turn[c].items) \in Nat
    BY <1>1 DEF Turn
  <2> QED
    BY <1>2, <2>1 DEF Grows, Over
<1>6. InOrder(Feed(c), c, turn[c])'
  <2>1. Feed(c)' = Feed(c)
    BY DEF Feed, Same
  <2>2. InOrder(Feed(c), c, turn'[c])
    BY <1>1, <1>5, OrderStays DEF CallInv
  <2> QED
    BY <2>1, <2>2
<1>7. Unread(c)'
  BY <1>2 DEF Unread
<1>8. Followed(c)'
  BY <1>2 DEF Followed, Following
<1>9. Tells(c)'
  BY DEF CallInv, Tells, Same, Over
<1> QED
  BY <1>3, <1>4, <1>6, <1>7, <1>8, <1>9 DEF CallInv

\* A line leaves the pipe for the channel, or is lost.
LEMMA Reads ==
    ASSUME Shapes, Shapes', NEW c \in Calls, CallInv(c), turn' = turn, alive' = alive, reqs' = reqs,
           turnCh' = turnCh, pc' = pc, msgs' = msgs, parts' = parts, out' = out, dropped \subseteq dropped',
           pipe # <<>>, pipe' = <<>>, NEW e, e = Head(pipe),
           \/ Listening(c) /\ chan'[c] = Append(chan[c], e)
           \/ chan'[c] = chan[c] /\ (c \in dropped' \/ ~ Listening(c) \/ ~ Of(e, c))
           \/ chan'[c] = chan[c] /\ ~ alive
    PROVE  CallInv(c)'
<1>1. /\ c \in Turns /\ turn[c] \in Turn /\ chan[c] \in Seq(Line) /\ chan'[c] \in Seq(Line)
      /\ pipe \in Seq(Line) /\ Len(pipe) <= 1
  BY DEF Shapes, Turns
<1>2. e \in Line /\ Feed(c) = Append(chan[c], e) /\ Feed(c)' = chan'[c]
  BY <1>1, Joined, ConcatEmptySeq DEF Feed
<1>3. Codexed(c)' /\ Tells(c)'
  BY DEF CallInv, Codexed, Tells, TurnReply
<1>4. Called(c)'
  BY DEF CallInv, Called, Before, Listening
<1>5. Unread(c)'
  <2>1. \A p \in 1..Len(<<>>) : FALSE
    OBVIOUS
  <2> QED
    BY <2>1 DEF Unread
<1>6. Following(c)' => Following(c)
  BY DEF Following, Listening
<1>7. CASE chan'[c] = Append(chan[c], e)
  <2>1. Feed(c)' = Feed(c)
    BY <1>2, <1>7
  <2>2. InOrder(Feed(c), c, turn[c])'
    BY <2>1 DEF CallInv
  <2>3. Followed(c)'
    BY <1>6, <2>1 DEF CallInv, Followed
  <2> QED
    BY <1>3, <1>4, <1>5, <2>2, <2>3 DEF CallInv
<1>8. CASE chan'[c] = chan[c] /\ (~ alive \/ c \in dropped' \/ ~ Listening(c) \/ ~ Of(e, c))
  <2>1. InOrder(Append(chan[c], e), c, turn[c])
    BY <1>2 DEF CallInv
  <2>2. InOrder(Feed(c), c, turn[c])'
    <3>1. /\ Len(chan[c]) + 0 <= Len(Append(chan[c], e)) /\ Append(chan[c], e) \in Seq(Line)
          /\ \A p \in 1..Len(chan[c]) : chan[c][p] = Append(chan[c], e)[p + 0]
      BY <1>1, <1>2, AppendProperties
    <3>2. InOrder(chan[c], c, turn[c])
      BY <1>1, <2>1, <3>1, GrowsItself, OrderKept
    <3> QED
      BY <1>2, <1>8, <3>2
  <2>3. Followed(c)'
    <3> SUFFICES ASSUME Following(c)'
                 PROVE  \E k \in 0..Len(turn[c].items) : Heard(chan[c], c, turn[c], msgs[c], parts[c], k)
      BY <1>2, <1>8 DEF Followed
    <3>1. PICK k \in 0..Len(turn[c].items) : Heard(Append(chan[c], e), c, turn[c], msgs[c], parts[c], k)
      BY <1>2, <1>6 DEF CallInv, Followed
    <3>2. ~ Of(e, c) \/ e.kind = "terminal"
      <4>1. CASE ~ alive
        <5>1. turn[c].status # "active" /\ turn[c].status # "interrupted"
          BY <1>6, <4>1 DEF CallInv, Codexed, Following
        <5>2. 1 \in 1..Len(pipe) /\ pipe[1] = e
          BY <1>1, EmptySeq
        <5> QED
          BY <5>1, <5>2 DEF CallInv, Unread
      <4>2. CASE c \in dropped' \/ ~ Listening(c) \/ ~ Of(e, c)
        BY <4>2 DEF Following, Listening
      <4> QED
        BY <1>8, <4>1, <4>2
    <3> QED
      BY <1>1, <1>2, <3>1, <3>2, HeardForgets
  <2> QED
    BY <1>3, <1>4, <1>5, <2>2, <2>3 DEF CallInv
<1> QED
  BY <1>7, <1>8

\* The call goes on, without its turn.
LEMMA Moves ==
    ASSUME Shapes, Shapes', NEW c \in Calls, CallInv(c), chan'[c] = chan[c], msgs'[c] = msgs[c],
           parts'[c] = parts[c], out'[c] = out[c], turn' = turn, alive' = alive, pipe' = pipe,
           dropped' = dropped, turnCh' = turnCh, Before(c)' => Before(c), Listening(c)' <=> Listening(c),
           out[c].kind # "none" => pc'[c] \in {"returned", "closed"},
           <<"start", c>> \in reqs' => <<"start", c>> \in reqs
    PROVE  CallInv(c)'
<1>1. Codexed(c)'
  BY DEF CallInv, Codexed
<1>2. Called(c)'
  BY DEF CallInv, Called
<1>3. Tells(c)'
  BY DEF CallInv, Tells, TurnReply
<1>4. InOrder(Feed(c), c, turn[c])' /\ Unread(c)'
  BY DEF CallInv, Feed, Unread
<1>5. Followed(c)'
  BY DEF CallInv, Followed, Feed, Following
<1> QED
  BY <1>1, <1>2, <1>3, <1>4, <1>5 DEF CallInv

\* A call that has not asked for its turn yet has nothing to hear.
LEMMA NothingOf ==
    ASSUME Shapes, NEW c \in Calls, CallInv(c), turn[c].status = "none"
    PROVE  /\ turn[c].items = <<>>
           /\ \A p \in 1..Len(pipe) : ~ Of(pipe[p], c)
           /\ \A p \in 1..Len(Feed(c)) : ~ Of(Feed(c)[p], c)
<1>1. turn[c].items = <<>>
  BY DEF CallInv, Codexed
<1>2. ASSUME NEW p \in 1..Len(Feed(c)), Of(Feed(c)[p], c) PROVE FALSE
  <2>1. True(Feed(c)[p], turn[c])
    BY <1>2 DEF CallInv, InOrder
  <2> QED
    BY <1>1, <2>1 DEF True, Over
<1>3. chan[c] \in Seq(Line) /\ pipe \in Seq(Line)
  BY DEF Shapes
<1>4. ASSUME NEW p \in 1..Len(pipe) PROVE ~ Of(pipe[p], c)
  <2>1. /\ Len(Feed(c)) = Len(chan[c]) + Len(pipe) /\ Len(chan[c]) \in Nat /\ Len(pipe) \in Nat
        /\ \A i \in 1..(Len(chan[c]) + Len(pipe)) :
             Feed(c)[i] = IF i <= Len(chan[c]) THEN chan[c][i] ELSE pipe[i - Len(chan[c])]
    BY <1>3, ConcatProperties DEF Feed
  <2>2. Len(chan[c]) + p \in 1..Len(Feed(c)) /\ Feed(c)[Len(chan[c]) + p] = pipe[p]
    <3>1. Len(chan[c]) + p \in 1..(Len(chan[c]) + Len(pipe)) /\ ~ (Len(chan[c]) + p <= Len(chan[c]))
          /\ (Len(chan[c]) + p) - Len(chan[c]) = p
      BY <2>1
    <3> QED
      BY <2>1, <3>1
  <2> QED
    BY <1>2, <2>2
<1> QED
  BY <1>1, <1>2, <1>4

\* The call asks for its turn.
LEMMA Starts ==
    ASSUME Shapes, Shapes', NEW c \in Calls, CallInv(c), pc[c] = "check", pc'[c] = "starting",
           chan'[c] = chan[c], msgs'[c] = msgs[c], parts'[c] = parts[c], out'[c] = out[c],
           turn' = turn, alive' = alive, pipe' = pipe, dropped' = dropped, turnCh' = c
    PROVE  CallInv(c)'
<1>1. c \in Turns /\ turn[c] \in Turn /\ Before(c) /\ ~ Listening(c)
  BY DEF Shapes, Turns, Before, Listening
<1>2. turn[c].status = "none" /\ parts[c] = <<>> /\ msgs[c] = [i \in Items |-> NoMsg]
  BY <1>1 DEF CallInv, Called
<1>3. Codexed(c)'
  BY <1>2 DEF CallInv, Codexed
<1>4. Called(c)'
  BY DEF CallInv, Called, Before, Listening
<1>5. Tells(c)'
  BY DEF CallInv, Tells, TurnReply
<1>6. InOrder(Feed(c), c, turn[c])' /\ Unread(c)'
  BY DEF CallInv, Feed, Unread
<1>7. Feed(c)' = Feed(c)
  BY DEF Feed
<1>8. Heard(Feed(c), c, turn[c], msgs[c], parts[c], 0)
  <2>1. turn[c].items = <<>> /\ \A p \in 1..Len(Feed(c)) : ~ Of(Feed(c)[p], c)
    BY <1>2, NothingOf
  <2>2. Said(turn[c].items)[0] = <<>>
    BY <1>1, SaidNothing DEF Turn
  <2>3. \A i \in 1..Len(turn[c].items) : FALSE
    BY <2>1
  <2>4. \A i \in Items : ~ msgs[c][i].text
    BY <1>2 DEF NoMsg
  <2>5. \A i \in 1..0 : FALSE
    OBVIOUS
  <2> QED
    BY <1>2, <2>1, <2>2, <2>3, <2>4, <2>5 DEF Heard
<1>9. Followed(c)'
  <2>1. Len(turn[c].items) \in Nat
    BY <1>1 DEF Turn
  <2>2. 0 \in 0..Len(turn[c].items)
    BY <2>1
  <2> QED
    BY <1>7, <1>8, <2>2 DEF Followed
<1> QED
  BY <1>3, <1>4, <1>5, <1>6, <1>9 DEF CallInv

\* The call stops listening, or has not listened.
LEMMA Leaves ==
    ASSUME Shapes, Shapes', NEW c \in Calls, CallInv(c), chan'[c] = <<>>, turn' = turn, alive' = alive,
           pipe' = pipe, dropped' = dropped, <<"start", c>> \in reqs' => <<"start", c>> \in reqs,
           pc'[c] \in {"interrupt", "confirm_failed", "returned"},
           out'[c].kind # "none" => pc'[c] = "returned", Tells(c)'
    PROVE  CallInv(c)'
<1>1. ~ Before(c)' /\ ~ Listening(c)'
  BY DEF Before, Listening
<1>2. Codexed(c)'
  BY DEF CallInv, Codexed
<1>3. Called(c)'
  BY <1>1 DEF Called
<1>4. Unread(c)'
  BY DEF CallInv, Unread
<1>5. Followed(c)'
  BY <1>1 DEF Followed, Following
<1>6. InOrder(Feed(c), c, turn[c])'
  <2>1. /\ c \in Turns /\ turn[c] \in Turn /\ chan[c] \in Seq(Line) /\ pipe \in Seq(Line)
        /\ Len(chan[c]) \in Nat /\ Len(pipe) \in Nat
    BY DEF Shapes, Turns
  <2>2. Feed(c)' = pipe
    BY <2>1, ConcatEmptySeq DEF Feed
  <2>3. /\ Feed(c) \in Seq(Line) /\ Len(Feed(c)) = Len(chan[c]) + Len(pipe)
        /\ \A i \in 1..(Len(chan[c]) + Len(pipe)) :
             Feed(c)[i] = IF i <= Len(chan[c]) THEN chan[c][i] ELSE pipe[i - Len(chan[c])]
    BY <2>1, ConcatProperties DEF Feed
  <2>4. ASSUME NEW p \in 1..Len(pipe) PROVE pipe[p] = Feed(c)[p + Len(chan[c])]
    <3>1. PICK n \in Nat : n = Len(chan[c])
      BY <2>1
    <3>2. p + n \in 1..(n + Len(pipe)) /\ ~ (p + n <= n) /\ (p + n) - n = p
      BY <2>1, <3>1
    <3>3. Feed(c)[p + n] = IF p + n <= n THEN chan[c][p + n] ELSE pipe[(p + n) - n]
      BY <2>3, <3>1, <3>2
    <3> QED
      BY <3>1, <3>2, <3>3
  <2>5. Len(pipe) + Len(chan[c]) <= Len(Feed(c))
    BY <2>1, <2>3
  <2>6. InOrder(Feed(c), c, turn[c])
    BY DEF CallInv
  <2>7. InOrder(pipe, c, turn[c])
    BY <2>1, <2>3, <2>4, <2>5, <2>6, GrowsItself, OrderKept
  <2> QED
    BY <2>2, <2>7
<1> QED
  BY <1>2, <1>3, <1>4, <1>5, <1>6 DEF CallInv

LEMMA JoinedTail ==
    ASSUME NEW s \in Seq(Line), NEW p \in Seq(Line), Len(p) <= 1, s # <<>>
    PROVE  /\ s \o p \in Seq(Line) /\ s \o p # <<>>
           /\ Head(s \o p) = Head(s) /\ Tail(s \o p) = Tail(s) \o p
<1>0. Tail(s) \in Seq(Line)
  BY HeadTailProperties
<1>1. CASE p = <<>>
  BY <1>0, <1>1, ConcatEmptySeq
<1>2. CASE p # <<>>
  <2>1. PICK e \in Line : e = Head(p)
    BY <1>2, Joined
  <2>2. s \o p = Append(s, e) /\ Tail(s) \o p = Append(Tail(s), e)
    BY <1>0, <1>2, <2>1, Joined
  <2>3. Head(Append(s, e)) = Head(s) /\ Tail(Append(s, e)) = Append(Tail(s), e)
    BY HeadTailAppend
  <2>4. Append(s, e) \in Seq(Line) /\ Append(s, e) # <<>>
    BY AppendProperties
  <2> QED
    BY <2>2, <2>3, <2>4
<1> QED
  BY <1>1, <1>2

\* What an event adds to what is collected.
Adds(c, e) ==
    \/ ~ Of(e, c) /\ msgs'[c] = msgs[c] /\ parts'[c] = parts[c]
    \/ /\ Of(e, c) /\ e.kind = "message_started" /\ parts'[c] = parts[c]
       /\ msgs'[c] = [msgs[c] EXCEPT ![e.item].phase = e.phase]
    \/ /\ Of(e, c) /\ e.kind = "message_delta" /\ parts'[c] = parts[c]
       /\ msgs'[c] = [msgs[c] EXCEPT ![e.item].text = TRUE]
    \/ /\ Of(e, c) /\ e.kind = "message_completed"
       /\ \E ph : /\ e.phase # NoPhase => ph = e.phase
                  /\ e.phase = NoPhase => ph = msgs[c][e.item].phase
                  /\ msgs'[c] = [msgs[c] EXCEPT ![e.item].phase = ph]
                  /\ ph = "commentary" => parts'[c] = parts[c]
                  /\ ph # "commentary" => parts'[c] = Append(parts[c], Whole(e.item))

\* The call takes an event of its channel that is not the end of its turn.
LEMMA Collects ==
    ASSUME Shapes, Shapes', NEW c \in Calls, CallInv(c), pc[c] = "collect", pc'[c] = "collect",
           chan[c] # <<>>, chan'[c] = Tail(chan[c]), out'[c] = out[c],
           turn' = turn, alive' = alive, reqs' = reqs, pipe' = pipe, dropped' = dropped, turnCh' = turnCh,
           NEW e, e = Head(chan[c]),
           Adds(c, e)
    PROVE  CallInv(c)'
<1>1. /\ c \in Turns /\ turn[c] \in Turn /\ chan[c] \in Seq(Line) /\ pipe \in Seq(Line) /\ Len(pipe) <= 1
      /\ msgs[c] \in [Items -> Msg] /\ parts[c] \in Seq(Part)
  BY DEF Shapes, Turns
<1>2. Codexed(c)' /\ Tells(c)' /\ Unread(c)'
  BY DEF CallInv, Codexed, Tells, TurnReply, Unread
<1>3. Called(c)'
  BY DEF CallInv, Called, Before, Listening
<1>4. PICK s \in Seq(Line) : s = Feed(c)
  BY <1>1, JoinedTail DEF Feed
<1>5. s # <<>> /\ Head(s) = e /\ Feed(c)' = Tail(s)
  BY <1>1, <1>4, JoinedTail DEF Feed
<1>6. PICK t \in Turn : t = turn[c]
  BY <1>1
<1>7. /\ InOrder(s, c, t) /\ Len(t.items) <= MaxItems
      /\ \A i \in 1..Len(t.items) : i < Len(t.items) => t.items[i].state = "done"
  BY <1>4, <1>6 DEF CallInv, Codexed
<1>8. InOrder(Feed(c), c, turn[c])'
  <2>1. /\ Tail(s) \in Seq(Line) /\ Len(Tail(s)) + 1 <= Len(s)
        /\ \A p \in 1..Len(Tail(s)) : Tail(s)[p] = s[p + 1]
    BY <1>5, HeadTailProperties
  <2>2. InOrder(Tail(s), c, t)
    BY <1>7, <2>1, GrowsItself, OrderKept
  <2> QED
    BY <1>5, <1>6, <2>2
<1>9. Followed(c)'
  <2> SUFFICES ASSUME Following(c)
               PROVE  \E k \in 0..Len(t.items) : Heard(Tail(s), c, t, msgs'[c], parts'[c], k)
    BY <1>5, <1>6 DEF Followed, Following, Listening
  <2>1. PICK k \in 0..Len(t.items) : Heard(s, c, t, msgs[c], parts[c], k)
    BY <1>4, <1>6 DEF CallInv, Followed
  <2>2. CASE ~ Of(e, c) /\ msgs'[c] = msgs[c] /\ parts'[c] = parts[c]
    BY <1>5, <2>1, <2>2, HeardForeign
  <2>3. CASE /\ Of(e, c) /\ e.kind = "message_started" /\ parts'[c] = parts[c]
             /\ msgs'[c] = [msgs[c] EXCEPT ![e.item].phase = e.phase]
    <3>1. Heard(Tail(s), c, t, [msgs[c] EXCEPT ![Head(s).item].phase = Head(s).phase], parts[c], k)
      BY <1>1, <1>5, <1>7, <2>1, <2>3, HeardStarted
    <3> QED
      BY <1>5, <2>3, <3>1
  <2>4. CASE /\ Of(e, c) /\ e.kind = "message_delta" /\ parts'[c] = parts[c]
             /\ msgs'[c] = [msgs[c] EXCEPT ![e.item].text = TRUE]
    <3>1. Heard(Tail(s), c, t, [msgs[c] EXCEPT ![Head(s).item].text = TRUE], parts[c], k)
      BY <1>1, <1>5, <1>7, <2>1, <2>4, HeardDelta
    <3> QED
      BY <1>5, <2>4, <3>1
  <2>5. CASE /\ Of(e, c) /\ e.kind = "message_completed"
             /\ \E ph : /\ e.phase # NoPhase => ph = e.phase
                        /\ e.phase = NoPhase => ph = msgs[c][e.item].phase
                        /\ msgs'[c] = [msgs[c] EXCEPT ![e.item].phase = ph]
                        /\ ph = "commentary" => parts'[c] = parts[c]
                        /\ ph # "commentary" => parts'[c] = Append(parts[c], Whole(e.item))
    <3>1. PICK ph : /\ e.phase # NoPhase => ph = e.phase
                    /\ e.phase = NoPhase => ph = msgs[c][e.item].phase
                    /\ msgs'[c] = [msgs[c] EXCEPT ![e.item].phase = ph]
                    /\ ph = "commentary" => parts'[c] = parts[c]
                    /\ ph # "commentary" => parts'[c] = Append(parts[c], Whole(e.item))
      BY <2>5
    <3>2. /\ k + 1 \in 0..Len(t.items)
          /\ Heard(Tail(s), c, t, [msgs[c] EXCEPT ![Head(s).item].phase = ph], parts'[c], k + 1)
      <4>0. PICK w : w = parts'[c]
        OBVIOUS
      <4>1. PICK m \in [Items -> Msg], r \in Seq(Part) : m = msgs[c] /\ r = parts[c]
        BY <1>1
      <4>2. /\ Heard(s, c, t, m, r, k) /\ Of(Head(s), c) /\ Head(s).kind = "message_completed"
            /\ Head(s).phase # NoPhase => ph = Head(s).phase
            /\ Head(s).phase = NoPhase => ph = m[Head(s).item].phase
            /\ ph = "commentary" => w = r
            /\ ph # "commentary" => w = Append(r, Whole(Head(s).item))
        BY <1>5, <2>1, <2>5, <3>1, <4>0, <4>1
      <4>3. k + 1 \in 0..Len(t.items) /\ Heard(Tail(s), c, t, [m EXCEPT ![Head(s).item].phase = ph], w, k + 1)
        BY <1>5, <1>7, <4>2, HeardCompleted
      <4> QED
        BY <4>0, <4>1, <4>3
    <3> QED
      BY <1>5, <3>1, <3>2
  <2> QED
    BY <2>2, <2>3, <2>4, <2>5 DEF Adds
<1> QED
  BY <1>2, <1>3, <1>8, <1>9 DEF CallInv

\* The reply of a turn that completed is the turn's, if it has one.
LEMMA Replies ==
    ASSUME Shapes, NEW c \in Calls, CallInv(c), pc[c] = "collect", chan[c] # <<>>,
           NEW e, e = Head(chan[c]), Of(e, c), e.kind = "terminal"
    PROVE  /\ e.phase = turn[c].status /\ turn[c].status \in Over
           /\ e.phase = "completed" /\ c \notin dropped /\ Reply(c) # <<>> => Reply(c) = TurnReply(c)
<1>1. /\ c \in Turns /\ turn[c] \in Turn /\ chan[c] \in Seq(Line) /\ pipe \in Seq(Line) /\ Len(pipe) <= 1
  BY DEF Shapes, Turns
<1>2. PICK s \in Seq(Line) : s = Feed(c)
  BY <1>1, JoinedTail DEF Feed
<1>3. s # <<>> /\ Head(s) = e
  BY <1>1, <1>2, JoinedTail DEF Feed
<1>4. PICK t \in Turn : t = turn[c]
  BY <1>1
<1>5. InOrder(s, c, t)
  BY <1>2, <1>4 DEF CallInv
<1>6. True(e, t)
  BY <1>3, <1>5, HeadFirst
<1>7. e.phase = t.status /\ t.status \in Over
  BY <1>6 DEF True, Messages
<1>8. ASSUME e.phase = "completed", c \notin dropped, Reply(c) # <<>>
      PROVE  Reply(c) = TurnReply(c)
  <2>1. Following(c) /\ \A i \in 1..Len(t.items) : t.items[i].state = "done"
    BY <1>4, <1>7, <1>8 DEF Following, Listening, CallInv, Codexed
  <2>2. PICK k \in 0..Len(t.items) : Heard(s, c, t, msgs[c], parts[c], k)
    BY <1>2, <1>4, <2>1 DEF CallInv, Followed
  <2>3. /\ parts[c] = Said(t.items)[Len(t.items)]
        /\ parts[c] = <<>> => \A i \in Items : msgs[c][i].text => msgs[c][i].phase = "commentary"
    BY <1>3, <1>5, <2>1, <2>2, HeardAll
  <2>4. parts[c] # <<>>
    <3>1. ASSUME parts[c] = <<>> PROVE Reply(c) = <<>>
      <4>1. {i \in Items : msgs[c][i].text /\ msgs[c][i].phase # "commentary"} = {}
        BY <2>3, <3>1
      <4> QED
        BY <3>1, <4>1 DEF Reply
    <3> QED
      BY <1>8, <3>1
  <2>5. Reply(c) = parts[c]
    BY <2>4 DEF Reply
  <2> QED
    BY <1>4, <2>3, <2>5 DEF TurnReply
<1> QED
  BY <1>4, <1>7, <1>8

-----------------------------------------------------------------------------
(* The invariant holds at first *)

THEOREM TInit == Init => TInv
<1> SUFFICES ASSUME Init PROVE TInv
  OBVIOUS
<1>1. Shapes
  <2>1. \A u \in Turns : [status |-> "none", items |-> <<>>] \in Turn
    BY EmptySeq DEF Turn, Statuses
  <2>2. [i \in Items |-> NoMsg] \in [Items -> Msg]
    BY DEF NoMsg, Msg
  <2>3. <<>> \in Seq(Line) /\ <<>> \in Seq(Part) /\ Len(<<>>) <= 1
    BY EmptySeq
  <2>4. alive \in BOOLEAN /\ turn \in [Turns -> Turn] /\ msgs \in [Calls -> [Items -> Msg]]
    BY <2>1, <2>2 DEF Init
  <2>5. pipe \in Seq(Line) /\ Len(pipe) <= 1 /\ chan \in [Calls -> Seq(Line)] /\ parts \in [Calls -> Seq(Part)]
    BY <2>3 DEF Init
  <2>6. /\ pc \in [Calls -> States] /\ DOMAIN out = Calls
        /\ notice \in [Calls -> {"armed", "sending", "off"}]
    BY DEF Init, States
  <2> QED
    BY <2>4, <2>5, <2>6 DEF Shapes
<1>2. ASSUME NEW c \in Calls PROVE CallInv(c)
  <2>1. turn[c].status = "none" /\ turn[c].items = <<>>
    BY DEF Init, Turns
  <2>2. pipe = <<>> /\ chan[c] = <<>> /\ parts[c] = <<>> /\ msgs[c] = [i \in Items |-> NoMsg]
    BY DEF Init
  <2>3. pc[c] = "idle" /\ out[c].kind = "none" /\ reqs = {}
    BY DEF Init, NoResult
  <2>4. Feed(c) = <<>>
    BY <2>2 DEF Feed
  <2>5. \A p \in 1..Len(<<>>) : FALSE
    OBVIOUS
  <2>6. Codexed(c)
    BY <2>1, <2>3, <2>5, TurnClientAssumption DEF Codexed
  <2>7. Called(c)
    BY <2>1, <2>2, <2>3 DEF Called, Listening
  <2>8. InOrder(Feed(c), c, turn[c]) /\ Unread(c)
    BY <2>2, <2>4, <2>5 DEF InOrder, Unread
  <2>9. Followed(c) /\ Tells(c)
    BY <2>3 DEF Followed, Following, Listening, Tells
  <2> QED
    BY <2>6, <2>7, <2>8, <2>9 DEF CallInv
<1> QED
  BY <1>1, <1>2 DEF TInv

-----------------------------------------------------------------------------
(* Types are kept *)

AnswerLine(c) == \A r \in {"ok", "error"} : Answer(c, r) \in Line

LEMMA Answers == \A c \in Calls : AnswerLine(c)
BY DEF AnswerLine, Answer, Event, Line, Turns

LEMMA Written ==
    ASSUME NEW e \in Line, Write(e)
    PROVE  pipe' \in Seq(Line) /\ Len(pipe') <= 1 /\ pipe = <<>> /\ pipe' = <<e>>
BY DEF Write

LEMMA ShapesOfReturn ==
    ASSUME Shapes, NEW d \in Calls, NEW kind, NEW reply, Return(d, kind, reply)
    PROVE  /\ pc' \in [Calls -> States] /\ chan' \in [Calls -> Seq(Line)] /\ parts' \in [Calls -> Seq(Part)]
           /\ msgs' \in [Calls -> [Items -> Msg]] /\ DOMAIN out' = Calls
           /\ pc'[d] = "returned" /\ chan'[d] = <<>> /\ out'[d] = [kind |-> kind, reply |-> reply]
           /\ turnCh' = IF turnCh = d THEN NoCall ELSE turnCh
           /\ \A c \in Calls \ {d} : Same(c)
<1>1. pc' \in [Calls -> States] /\ pc'[d] = "returned" /\ \A c \in Calls \ {d} : pc'[c] = pc[c]
  BY DEF Return, Goto, Shapes, States
<1>2. /\ chan' \in [Calls -> Seq(Line)] /\ parts' \in [Calls -> Seq(Part)] /\ chan'[d] = <<>>
      /\ \A c \in Calls \ {d} : chan'[c] = chan[c] /\ parts'[c] = parts[c]
  <2>1. <<>> \in Seq(Line) /\ <<>> \in Seq(Part)
    BY EmptySeq
  <2> QED
    BY <2>1 DEF Return, Forget, Shapes
<1>3. msgs' \in [Calls -> [Items -> Msg]] /\ \A c \in Calls \ {d} : msgs'[c] = msgs[c]
  <2>1. [i \in Items |-> NoMsg] \in [Items -> Msg]
    BY DEF NoMsg, Msg
  <2> QED
    BY <2>1 DEF Return, Forget, Shapes
<1>4. /\ DOMAIN out' = Calls /\ out'[d] = [kind |-> kind, reply |-> reply]
      /\ \A c \in Calls \ {d} : out'[c] = out[c]
  BY DEF Return, Shapes
<1>5. turnCh' = IF turnCh = d THEN NoCall ELSE turnCh
  BY DEF Return
<1> QED
  BY <1>1, <1>2, <1>3, <1>4, <1>5 DEF Same

-----------------------------------------------------------------------------
(* Codex *)

\* Codex answers, or nothing of interest happens.
LEMMA AnswersKeep ==
    ASSUME TInv, UNCHANGED <<alive, turn, pc, chan, msgs, parts, out, notice, dropped, turnCh>>,
           reqs' \subseteq reqs \cup {<<"begun", d>> : d \in Calls},
           \/ pipe' = pipe
           \/ \E d \in Calls, r \in {"ok", "error"} : Write(Answer(d, r))
    PROVE  TInv'
<1>1. pipe' = pipe \/ \E e \in Line : e.kind = "answer" /\ Write(e)
  BY Answers DEF AnswerLine, Answer, Event
<1>2. Shapes'
  BY <1>1, Written DEF TInv, Shapes
<1>3. ASSUME NEW c \in Calls PROVE CallInv(c)'
  <2>1. pipe' = pipe \/ \E e \in Line : ~ Of(e, c) /\ pipe = <<>> /\ pipe' = <<e>>
    BY <1>1, Written DEF Of
  <2>2. Same(c) /\ CallInv(c) /\ (Listening(c) => turnCh' = c)
    BY DEF Same, TInv, CallInv, Called
  <2>3. <<"start", c>> \in reqs' => <<"start", c>> \in reqs
    OBVIOUS
  <2> QED
    BY <1>2, <2>1, <2>2, <2>3, Untouched DEF TInv
<1> QED
  BY <1>2, <1>3 DEF TInv

LEMMA ResumeKeeps == ASSUME TInv, NEW c \in Calls, HandleResume(c) PROVE TInv'
BY AnswersKeep DEF HandleResume, Handle, Codex, client, call

LEMMA InterruptAnswerKeeps == ASSUME TInv, NEW c \in Calls, HandleInterrupt(c) PROVE TInv'
BY AnswersKeep DEF HandleInterrupt, Handle, Codex, client, call

\* A turn that none of the calls follows.
LEMMA OthersKeep ==
    ASSUME TInv, NEW u \in Turns, UNCHANGED <<alive, reqs, pc, chan, msgs, parts, out, notice, dropped>>,
           Shapes', \A c \in Calls : c # u => turn'[c] = turn[c],
           u \in Calls => CallInv(u)',
           \A c \in Calls : Listening(c) => turnCh' = c,
           pipe' = pipe \/ \E e \in Line : pipe = <<>> /\ pipe' = <<e>> /\ e.turn = u
    PROVE  TInv'
<1>1. ASSUME NEW c \in Calls PROVE CallInv(c)'
  <2>1. CASE c = u
    BY <2>1
  <2>2. CASE c # u
    <3>1. Same(c) /\ CallInv(c)
      BY DEF Same, TInv
    <3>2. pipe' = pipe \/ \E e \in Line : ~ Of(e, c) /\ pipe = <<>> /\ pipe' = <<e>>
      BY <2>2 DEF Of
    <3> QED
      BY <2>2, <3>1, <3>2, Untouched DEF TInv
  <2> QED
    BY <2>1, <2>2
<1> QED
  BY <1>1 DEF TInv

LEMMA StatusOf ==
    ASSUME Shapes, NEW u \in Turns, NEW s \in Statuses, turn' = [turn EXCEPT ![u].status = s]
    PROVE  /\ turn' \in [Turns -> Turn] /\ \A v \in Turns \ {u} : turn'[v] = turn[v]
           /\ turn'[u] = [turn[u] EXCEPT !.status = s]
           /\ turn'[u].status = s /\ turn'[u].items = turn[u].items
<1>1. turn[u] \in Turn /\ turn \in [Turns -> Turn]
  BY DEF Shapes
<1>2. PICK x : x = [turn[u] EXCEPT !.status = s]
  OBVIOUS
<1>3. x \in Turn /\ x.status = s /\ x.items = turn[u].items
  BY <1>1, <1>2 DEF Turn
<1>4. turn' = [turn EXCEPT ![u] = x]
  BY <1>2
<1> HIDE DEF Turn
<1> QED
  BY <1>1, <1>2, <1>3, <1>4

\* The turn of a call begins, and is answered for.
LEMMA StartKeeps ==
    ASSUME TInv, NEW d \in Calls, HandleStart(d)
    PROVE  TInv'
<1>1. CASE alive /\ <<"start", d>> \in reqs /\ Begin(d) /\ reqs' = (reqs \ {<<"start", d>>}) \cup {<<"begun", d>>}
           /\ UNCHANGED pipe
  <2>0. d \in Turns /\ "active" \in Statuses
    BY DEF Turns, Statuses
  <2>2. /\ turn' \in [Turns -> Turn] /\ \A c \in Turns \ {d} : turn'[c] = turn[c]
        /\ turn'[d] = [turn[d] EXCEPT !.status = "active"]
    BY <1>1, <2>0, StatusOf DEF Begin, TInv
  <2>3. UNCHANGED <<alive, pc, chan, msgs, parts, out, notice, dropped, turnCh>>
    BY DEF HandleStart, Codex, call
  <2>4. Shapes'
    BY <1>1, <2>2, <2>3 DEF TInv, Shapes
  <2>5. ASSUME NEW c \in Calls PROVE CallInv(c)'
    <3>1. CallInv(c) /\ Same(c)
      BY <2>3 DEF TInv, Same
    <3>2. CASE c = d
      <4>1. turn'[c] = [turn[c] EXCEPT !.status = "active"]
        BY <2>2, <3>2
      <4>2. <<"start", c>> \in reqs /\ <<"start", c>> \notin reqs'
        BY <1>1, <3>2
      <4> QED
        BY <1>1, <2>3, <2>4, <3>1, <4>1, <4>2, Begins DEF TInv
    <3>3. CASE c # d
      <4>1. turn'[c] = turn[c] /\ (<<"start", c>> \in reqs' => <<"start", c>> \in reqs)
        BY <1>1, <2>2, <3>3 DEF Turns
      <4>2. Listening(c) => turnCh' = c
        BY <2>3, <3>1 DEF CallInv, Called
      <4> QED
        BY <1>1, <2>3, <2>4, <3>1, <4>1, <4>2, Untouched DEF TInv
    <3> QED
      BY <3>2, <3>3
  <2> QED
    BY <2>4, <2>5 DEF TInv
<1>2. CASE Handle("begun", d) /\ Write(Answer(d, "ok")) /\ UNCHANGED turn
  BY <1>2, AnswersKeep DEF HandleStart, Handle, Codex, client, call
<1>3. CASE Handle("start", d) /\ Write(Answer(d, "error")) /\ UNCHANGED turn
  BY <1>3, AnswersKeep DEF HandleStart, Handle, Codex, client, call
<1> QED
  BY <1>1, <1>2, <1>3 DEF HandleStart

LEMMA BeginOtherKeeps ==
    ASSUME TInv, NEW u \in Others, BeginOther(u)
    PROVE  TInv'
<1>1. u \in Turns /\ u \notin Calls /\ "active" \in Statuses
  BY TurnAssumption DEF Turns, Statuses
<1>3. turn' \in [Turns -> Turn] /\ \A c \in Turns \ {u} : turn'[c] = turn[c]
  BY <1>1, StatusOf DEF BeginOther, Begin, TInv
<1>4. UNCHANGED <<alive, reqs, pipe, pc, chan, msgs, parts, out, notice, dropped, turnCh>>
  BY DEF BeginOther, Codex, call
<1>5. Shapes'
  BY <1>3, <1>4 DEF TInv, Shapes
<1>6. (\A c \in Calls : c # u => turn'[c] = turn[c]) /\ (\A c \in Calls : Listening(c) => turnCh' = c)
  BY <1>1, <1>3, <1>4 DEF Turns, TInv, CallInv, Called
<1> QED
  BY <1>1, <1>4, <1>5, <1>6, OthersKeep

LEMMA OtherCallKeeps ==
    ASSUME TInv, NEW u \in Others, OtherCall(u)
    PROVE  TInv'
<1>1. u \in Turns /\ u \notin Calls /\ "active" \in Statuses
  BY TurnAssumption DEF Turns, Statuses
<1>2. turn' = turn \/ turn' = [turn EXCEPT ![u].status = "active"]
  BY DEF OtherCall, Begin
<1>3. turn' \in [Turns -> Turn] /\ \A c \in Turns \ {u} : turn'[c] = turn[c]
  <2>1. CASE turn' = turn
    BY <2>1 DEF TInv, Shapes
  <2>2. CASE turn' = [turn EXCEPT ![u].status = "active"]
    BY <1>1, <2>2, StatusOf DEF TInv
  <2> QED
    BY <1>2, <2>1, <2>2
<1>4. UNCHANGED <<alive, reqs, pipe, pc, chan, msgs, parts, out, notice, dropped>>
  BY DEF OtherCall, call
<1>5. Shapes'
  BY <1>3, <1>4 DEF TInv, Shapes
<1>6. \A c \in Calls : c # u => turn'[c] = turn[c]
  BY <1>3 DEF Turns
<1>7. ASSUME NEW c \in Calls, Listening(c) PROVE turnCh' = c
  <2>1. turnCh = c
    BY <1>7 DEF TInv, CallInv, Called
  <2>2. c # NoCall /\ c # u
    BY <1>1, TurnAssumption DEF NoCall
  <2> QED
    BY <2>1, <2>2 DEF OtherCall, Taken
<1> QED
  BY <1>1, <1>4, <1>5, <1>6, <1>7, OthersKeep

LEMMA ItemsOf ==
    ASSUME Shapes, NEW u \in Turns, NEW new \in Seq(Item), turn' = [turn EXCEPT ![u].items = new]
    PROVE  /\ turn' \in [Turns -> Turn] /\ \A v \in Turns \ {u} : turn'[v] = turn[v]
           /\ turn'[u].status = turn[u].status /\ turn'[u].items = new
<1>1. turn[u] \in Turn /\ turn \in [Turns -> Turn]
  BY DEF Shapes
<1>2. PICK x : x = [turn[u] EXCEPT !.items = new]
  OBVIOUS
<1>3. x \in Turn /\ x.status = turn[u].status /\ x.items = new
  BY <1>1, <1>2 DEF Turn
<1>4. turn' = [turn EXCEPT ![u] = x]
  BY <1>2
<1> HIDE DEF Turn
<1> QED
  BY <1>1, <1>3, <1>4

\* A message of a call's turn begins.
LEMMA ItemStartedKeeps ==
    ASSUME TInv, NEW u \in Calls, ItemStarted(u)
    PROVE  TInv'
<1>1. /\ u \in Turns /\ turn[u] \in Turn /\ turn[u].items \in Seq(Item) /\ Len(turn[u].items) \in Nat
      /\ turn[u].status = "active" /\ CallInv(u) /\ Shapes
  BY DEF Turns, TInv, Shapes, Turn, ItemStarted, Turning
<1>2. PICK items \in Seq(Item), n \in Nat : items = turn[u].items /\ n = Len(items)
  BY <1>1
<1>3. PICK p \in Phases :
         /\ turn' = [turn EXCEPT ![u].items = Append(@, [phase |-> p, state |-> "open"])]
         /\ Write(Event("message_started", u, n + 1, p))
  BY <1>2 DEF ItemStarted
<1>4. PICK it \in Item : it = [phase |-> p, state |-> "open"]
  BY DEF Item
<1>5. PICK new \in Seq(Item) : new = Append(items, it)
  BY <1>2, <1>4, AppendProperties
<1>6. /\ Len(new) = n + 1 /\ new[n + 1] = it /\ it.phase = p /\ it.state = "open"
      /\ \A i \in 1..n : new[i] = items[i]
  BY <1>2, <1>4, <1>5, AppendProperties
<1>7. /\ turn' \in [Turns -> Turn] /\ \A v \in Turns \ {u} : turn'[v] = turn[v]
      /\ turn'[u].status = "active" /\ turn'[u].items = new
  <2>1. turn' = [turn EXCEPT ![u].items = new]
    BY <1>2, <1>3, <1>4, <1>5
  <2> QED
    BY <1>1, <2>1, ItemsOf
<1>8. PICK e \in Line : /\ e = Event("message_started", u, n + 1, p) /\ e.kind = "message_started"
                        /\ e.turn = u /\ e.item = n + 1 /\ e.phase = p
  <2>1. PICK e : e = Event("message_started", u, n + 1, p)
    OBVIOUS
  <2>2. e \in Line /\ e.kind = "message_started" /\ e.turn = u /\ e.item = n + 1 /\ e.phase = p
    BY <1>1, <2>1 DEF Event, Line, Messages
  <2> QED
    BY <2>1, <2>2
<1>9. pipe = <<>> /\ pipe' = <<e>> /\ pipe' \in Seq(Line) /\ Len(pipe') <= 1
  BY <1>3, <1>8, Written
<1>10. UNCHANGED <<alive, reqs, pc, chan, msgs, parts, out, notice, dropped, turnCh>>
  BY DEF ItemStarted, Turning, Codex, call
<1>11. Shapes'
  BY <1>7, <1>9, <1>10 DEF TInv, Shapes
<1>12. alive /\ n < MaxItems /\ \A i \in 1..n : items[i].state = "done"
  <2>1. DOMAIN items = 1..n
    BY <1>2
  <2> QED
    BY <1>2, <2>1 DEF ItemStarted, Turning, Complete
<1>13. Codexed(u)'
  <2>1. n + 1 <= MaxItems
    BY <1>12, TurnClientAssumption
  <2>2. \A i \in 1..(n + 1) : i < n + 1 => new[i].state = "done"
    BY <1>6, <1>12
  <2>3. <<"start", u>> \notin reqs
    BY <1>1 DEF CallInv, Codexed
  <2> QED
    BY <1>6, <1>7, <1>10, <1>12, <2>1, <2>2, <2>3 DEF Codexed
<1>14. Grows(turn[u], turn'[u]) /\ True(e, turn'[u]) /\ Of(e, u)
  <2>1. Grows(turn[u], turn'[u])
    BY <1>1, <1>2, <1>6, <1>7 DEF Grows, Over
  <2>2. True(e, turn'[u])
    BY <1>6, <1>7, <1>8 DEF True, Messages
  <2> QED
    BY <1>8, <2>1, <2>2 DEF Of
<1>15. ASSUME NEW f \in Line, True(f, turn[u]), f.kind # "terminal" PROVE First(f, e)
  <2>1. f.item \in 1..n
    BY <1>2, <1>15 DEF True
  <2> QED
    BY <1>8, <1>15, <2>1 DEF First
<1>16. \A k \in 0..n : e.item > k
  BY <1>8
<1>17. CallInv(u)'
  <2>1. Same(u)
    BY <1>10 DEF Same
  <2>2. \A i \in 1..Len(new) : new[i].state = "done" => i <= n /\ items[i].state = "done"
    <3>1. "open" # "done"
      OBVIOUS
    <3>2. ASSUME NEW i \in 1..Len(new), new[i].state = "done" PROVE i <= n /\ items[i].state = "done"
      <4>1. i \in 1..n \/ i = n + 1
        BY <1>6
      <4> QED
        BY <1>6, <3>1, <3>2, <4>1
    <3> QED
      BY <3>2
  <2>3. \A i \in 1..Len(new) : i <= n \/ e.item = i
    BY <1>6, <1>8
  <2>4. PICK t : t = turn'[u]
    OBVIOUS
  <2> QED
    BY <1>1, <1>2, <1>7, <1>8, <1>9, <1>10, <1>11, <1>13, <1>14, <1>15, <1>16, <2>1, <2>2, <2>3, <2>4, Notifies
<1>18. (\A c \in Calls : c # u => turn'[c] = turn[c]) /\ (\A c \in Calls : Listening(c) => turnCh' = c)
  BY <1>7, <1>10 DEF Turns, TInv, CallInv, Called
<1> QED
  BY <1>1, <1>8, <1>9, <1>10, <1>11, <1>17, <1>18, OthersKeep

\* A message of a call's turn goes on, or ends.
LEMMA ItemTextKeeps ==
    ASSUME TInv, NEW u \in Calls, NEW kind, NEW from, NEW to, ItemText(u, kind, from, to),
           "done" \notin from,
           \/ kind = "message_delta" /\ to = "text"
           \/ kind = "message_completed" /\ to = "done"
    PROVE  TInv'
<1>1. /\ u \in Turns /\ turn[u] \in Turn /\ turn[u].items \in Seq(Item) /\ Len(turn[u].items) \in Nat
      /\ turn[u].status = "active" /\ alive /\ CallInv(u) /\ Shapes
  BY DEF Turns, TInv, Shapes, Turn, ItemText, Turning
<1>2. PICK items \in Seq(Item), n \in Nat : items = turn[u].items /\ n = Len(items)
  BY <1>1
<1>3. /\ n > 0 /\ items[n].state \in from
      /\ turn' = [turn EXCEPT ![u].items[n].state = to]
      /\ Write(Event(kind, u, n, items[n].phase))
  BY <1>2 DEF ItemText
<1>4. PICK it \in Item : it = [items[n] EXCEPT !.state = to] /\ it.phase = items[n].phase /\ it.state = to
  <2>1. items[n] \in Item
    BY <1>2, <1>3, ElementOfSeq
  <2>2. PICK it : it = [items[n] EXCEPT !.state = to]
    OBVIOUS
  <2>3. it \in Item /\ it.phase = items[n].phase /\ it.state = to
    BY <2>1, <2>2 DEF Item
  <2> QED
    BY <2>2, <2>3
<1>5. PICK new \in Seq(Item) : /\ new = [items EXCEPT ![n] = it] /\ Len(new) = n
                               /\ \A i \in 1..n : new[i] = IF i = n THEN it ELSE items[i]
  <2>1. n \in 1..Len(items)
    BY <1>2, <1>3
  <2>2. PICK new : new = [items EXCEPT ![n] = it]
    OBVIOUS
  <2>3. /\ new \in Seq(Item) /\ Len(new) = Len(items)
        /\ \A i \in 1..Len(items) : new[i] = IF i = n THEN it ELSE items[i]
    BY <2>1, <2>2, ExceptSeq
  <2> QED
    BY <1>2, <2>2, <2>3
<1>6. \A i \in 1..n : new[i].phase = items[i].phase
  BY <1>4, <1>5
<1>7. /\ turn' \in [Turns -> Turn] /\ \A v \in Turns \ {u} : turn'[v] = turn[v]
      /\ turn'[u].status = "active" /\ turn'[u].items = new
  <2>1. turn' = [turn EXCEPT ![u].items =
                    [turn[u].items EXCEPT ![n] = [turn[u].items[n] EXCEPT !.state = to]]]
    BY <1>3
  <2>2. turn' = [turn EXCEPT ![u].items = new]
    BY <1>2, <1>4, <1>5, <2>1
  <2> QED
    BY <1>1, <2>2, ItemsOf
<1>8. PICK e \in Line : /\ e = Event(kind, u, n, items[n].phase) /\ e.kind = kind
                        /\ e.turn = u /\ e.item = n /\ e.phase = it.phase
  <2>1. PICK e : e = Event(kind, u, n, items[n].phase)
    OBVIOUS
  <2>2. items[n].phase \in Phases
    BY <1>4 DEF Item
  <2>3. e \in Line /\ e.kind = kind /\ e.turn = u /\ e.item = n /\ e.phase = items[n].phase
    BY <1>1, <2>1, <2>2 DEF Event, Line, Messages
  <2> QED
    BY <1>4, <2>1, <2>3
<1>9. pipe = <<>> /\ pipe' = <<e>> /\ pipe' \in Seq(Line) /\ Len(pipe') <= 1
  BY <1>3, <1>8, Written
<1>10. UNCHANGED <<alive, reqs, pc, chan, msgs, parts, out, notice, dropped, turnCh>>
  BY DEF ItemText, Turning, Codex, call
<1>11. Shapes'
  BY <1>7, <1>9, <1>10 DEF TInv, Shapes
<1>12. /\ n <= MaxItems /\ <<"start", u>> \notin reqs /\ items[n].state # "done"
       /\ \A i \in 1..n : i < n => items[i].state = "done"
  BY <1>1, <1>2, <1>3 DEF CallInv, Codexed
<1>13. Codexed(u)'
  <2>1. \A i \in 1..n : i < n => new[i].state = "done"
    BY <1>5, <1>12
  <2> QED
    BY <1>1, <1>5, <1>7, <1>10, <1>12, <2>1 DEF Codexed
<1>14. Grows(turn[u], turn'[u]) /\ True(e, turn'[u]) /\ Of(e, u)
  <2>1. \A i \in 1..n : items[i].state = "done" => new[i].state = "done"
    BY <1>5, <1>12
  <2>2. Grows(turn[u], turn'[u])
    BY <1>1, <1>2, <1>5, <1>6, <1>7, <2>1 DEF Grows, Over
  <2>3. n \in 1..n /\ new[n] = it
    BY <1>3, <1>5
  <2>4. True(e, turn'[u])
    BY <1>4, <1>5, <1>7, <1>8, <2>3 DEF True, Messages
  <2>5. Of(e, u)
    BY <1>8 DEF Of
  <2> QED
    BY <2>2, <2>4, <2>5
<1>15. ASSUME NEW f \in Line, True(f, turn[u]), f.kind # "terminal" PROVE First(f, e)
  <2>1. f.item \in 1..n /\ (f.kind = "message_completed" => items[f.item].state = "done")
    BY <1>2, <1>15 DEF True
  <2>2. f.kind = "message_completed" => f.item # n
    BY <1>12, <2>1
  <2>3. f.item <= n /\ (f.item # n => f.item < n)
    BY <2>1
  <2> QED
    BY <1>8, <1>15, <2>2, <2>3 DEF First
<1>16. ASSUME NEW k \in 0..n, \A i \in 1..k : items[i].state = "done" PROVE e.item > k
  <2>1. k # n
    <3>1. n \in 1..n
      BY <1>3
    <3> QED
      BY <1>12, <1>16, <3>1
  <2> QED
    BY <1>8, <2>1
<1>17. CallInv(u)'
  <2>1. Same(u) /\ e.kind # "terminal"
    BY <1>8, <1>10 DEF Same
  <2>2. ASSUME NEW i \in 1..Len(new), new[i].state = "done"
        PROVE  (i <= n /\ items[i].state = "done") \/ (e.kind = "message_completed" /\ e.item = i)
    <3>1. i \in 1..n /\ new[i] = IF i = n THEN it ELSE items[i]
      BY <1>5
    <3> QED
      BY <1>4, <1>8, <2>2, <3>1
  <2>3. \A i \in 1..Len(new) : i <= n
    BY <1>5
  <2>4. PICK t : t = turn'[u]
    OBVIOUS
  <2> QED
    BY <1>1, <1>2, <1>7, <1>9, <1>10, <1>11, <1>13, <1>14, <1>15, <1>16, <2>1, <2>2, <2>3, <2>4, Notifies
<1>18. (\A c \in Calls : c # u => turn'[c] = turn[c]) /\ (\A c \in Calls : Listening(c) => turnCh' = c)
  BY <1>7, <1>10 DEF Turns, TInv, CallInv, Called
<1> QED
  BY <1>1, <1>8, <1>9, <1>10, <1>11, <1>17, <1>18, OthersKeep

LEMMA ItemDeltaKeeps == ASSUME TInv, NEW u \in Calls, ItemDelta(u) PROVE TInv'
<1>1. ItemText(u, "message_delta", {"open"}, "text") /\ "done" \notin {"open"}
  BY DEF ItemDelta
<1> QED
  BY <1>1, ItemTextKeeps

LEMMA ItemCompletedKeeps == ASSUME TInv, NEW u \in Calls, ItemCompleted(u) PROVE TInv'
<1>1. ItemText(u, "message_completed", {"open", "text"}, "done") /\ "done" \notin {"open", "text"}
  BY DEF ItemCompleted
<1> QED
  BY <1>1, ItemTextKeeps

\* A turn ends.
LEMMA TurnEndsKeeps ==
    ASSUME TInv, NEW u \in Turns, TurnEnds(u)
    PROVE  TInv'
<1>1. /\ turn[u] \in Turn /\ turn[u].items \in Seq(Item) /\ Len(turn[u].items) \in Nat
      /\ turn[u].status = "active" /\ alive /\ Shapes
  BY DEF TInv, Shapes, Turn, TurnEnds, Turning
<1>2. PICK s \in Over : /\ s = "completed" => Complete(u)
                        /\ turn' = [turn EXCEPT ![u].status = s]
                        /\ Write(Event("terminal", u, 0, s))
  BY DEF TurnEnds
<1>3. s \in Statuses /\ s \notin {"none", "active"}
  BY DEF Statuses, Over
<1>4. /\ turn' \in [Turns -> Turn] /\ \A v \in Turns \ {u} : turn'[v] = turn[v]
      /\ turn'[u].status = s /\ turn'[u].items = turn[u].items
  BY <1>1, <1>2, <1>3, StatusOf
<1>5. PICK e \in Line : e = Event("terminal", u, 0, s) /\ e.kind = "terminal" /\ e.turn = u /\ e.phase = s
  <2>1. PICK e : e = Event("terminal", u, 0, s)
    OBVIOUS
  <2>2. e \in Line /\ e.kind = "terminal" /\ e.turn = u /\ e.phase = s
    BY <1>1, <2>1 DEF Event, Line, Messages
  <2> QED
    BY <2>1, <2>2
<1>6. pipe = <<>> /\ pipe' = <<e>> /\ pipe' \in Seq(Line) /\ Len(pipe') <= 1
  BY <1>2, <1>5, Written
<1>7. UNCHANGED <<alive, reqs, pc, chan, msgs, parts, out, notice, dropped, turnCh>>
  BY DEF TurnEnds, Turning, Codex, call
<1>8. Shapes'
  BY <1>4, <1>6, <1>7 DEF TInv, Shapes
<1>9. ASSUME u \in Calls PROVE CallInv(u)'
  <2>1. CallInv(u) /\ Same(u)
    BY <1>7, <1>9 DEF TInv, Same
  <2>2. <<"start", u>> \notin reqs
    BY <1>1, <2>1 DEF CallInv, Codexed
  <2>3. s = "completed" => \A i \in 1..Len(turn[u].items) : turn[u].items[i].state = "done"
    <3>1. DOMAIN turn[u].items = 1..Len(turn[u].items)
      BY <1>1
    <3> QED
      BY <1>2, <3>1 DEF Complete
  <2>4. Codexed(u)'
    BY <1>1, <1>3, <1>4, <1>7, <2>1, <2>2, <2>3 DEF CallInv, Codexed
  <2>5. Grows(turn[u], turn'[u])
    BY <1>1, <1>4 DEF Grows, Over
  <2>6. True(e, turn'[u]) /\ Of(e, u)
    BY <1>4, <1>5 DEF True, Of
  <2>7. \A f \in Line : f.kind # "terminal" => First(f, e)
    BY <1>5 DEF First
  <2>8. PICK t : t = turn'[u]
    OBVIOUS
  <2>9. /\ \A i \in 1..Len(t.items) : t.items[i].state = "done" =>
              i <= Len(turn[u].items) /\ turn[u].items[i].state = "done"
        /\ \A i \in 1..Len(t.items) : i <= Len(turn[u].items)
    BY <1>1, <1>4, <2>8
  <2> QED
    BY <1>1, <1>4, <1>5, <1>6, <1>7, <1>8, <1>9, <2>1, <2>4, <2>5, <2>6, <2>7, <2>8, <2>9, Notifies
<1>10. (\A c \in Calls : c # u => turn'[c] = turn[c]) /\ (\A c \in Calls : Listening(c) => turnCh' = c)
  BY <1>4, <1>7 DEF Turns, TInv, CallInv, Called
<1> QED
  BY <1>5, <1>6, <1>7, <1>8, <1>9, <1>10, OthersKeep

LEMMA ExitKeeps == ASSUME TInv, Exit PROVE TInv'
<1>1. Shapes /\ turn \in [Turns -> Turn]
  BY DEF TInv, Shapes
<1>2. UNCHANGED <<pipe, pc, chan, msgs, parts, out, notice, dropped, turnCh>> /\ reqs' = {} /\ alive' = FALSE
  BY DEF Exit, call
<1>3. ASSUME NEW u \in Turns
      PROVE  /\ turn[u].status = "active" => turn'[u] = [turn[u] EXCEPT !.status = "interrupted"]
             /\ turn[u].status # "active" => turn'[u] = turn[u]
             /\ turn'[u] \in Turn
  <2>1. turn'[u] = IF turn[u].status = "active" THEN [turn[u] EXCEPT !.status = "interrupted"] ELSE turn[u]
    BY DEF Exit
  <2>2. turn[u] \in Turn /\ [turn[u] EXCEPT !.status = "interrupted"] \in Turn
    BY <1>1 DEF Turn, Statuses, Over
  <2> QED
    BY <2>1, <2>2
<1>4. turn' \in [Turns -> Turn]
  <2>1. turn' = [u \in Turns |-> turn'[u]]
    BY DEF Exit
  <2> QED
    BY <1>3, <2>1
<1>5. Shapes'
  BY <1>1, <1>2, <1>4 DEF Shapes
<1>6. ASSUME NEW c \in Calls PROVE CallInv(c)'
  <2>1. c \in Turns /\ CallInv(c) /\ Same(c) /\ (Listening(c) => turnCh' = c)
    BY <1>2 DEF Turns, TInv, Same, CallInv, Called
  <2>2. CASE turn[c].status = "active"
    BY <1>1, <1>2, <1>3, <1>5, <2>1, <2>2, Exits
  <2>3. CASE turn[c].status # "active"
    BY <1>1, <1>2, <1>3, <1>5, <2>1, <2>3, Untouched
  <2> QED
    BY <2>2, <2>3
<1> QED
  BY <1>5, <1>6 DEF TInv

-----------------------------------------------------------------------------
(* The reader *)

LEMMA ReadKeeps == ASSUME TInv, Read PROVE TInv'
<1>1. /\ pipe # <<>> /\ pipe' = Tail(pipe)
      /\ UNCHANGED <<alive, turn, reqs, turnCh, pc, msgs, parts, out, notice>>
  BY DEF Read, codex
<1>2. pipe \in Seq(Line) /\ Len(pipe) <= 1 /\ chan \in [Calls -> Seq(Line)]
  BY DEF TInv, Shapes
<1>3. PICK e \in Line : e = Head(pipe) /\ pipe' = <<>>
  BY <1>1, <1>2, Joined
<1>4. \/ e.kind = "answer" /\ UNCHANGED <<chan, dropped>>
      \/ e.kind # "answer" /\ Dispatch(e)
  BY <1>3 DEF Read
<1>5. ASSUME NEW c \in Calls
      PROVE  /\ chan'[c] \in Seq(Line) /\ dropped \subseteq dropped'
             /\ \/ Listening(c) /\ chan'[c] = Append(chan[c], e)
                \/ chan'[c] = chan[c] /\ (c \in dropped' \/ ~ Listening(c) \/ ~ Of(e, c))
  <2>1. CASE e.kind = "answer" /\ UNCHANGED <<chan, dropped>>
    BY <1>2, <2>1 DEF Of
  <2>2. CASE e.kind # "answer" /\ Dispatch(e)
    <3>1. PICK room : /\ room = {d \in Reading : Len(chan[d]) < Cap}
                      /\ chan' = [d \in Calls |-> IF d \in room THEN Append(chan[d], e) ELSE chan[d]]
                      /\ dropped' = dropped \cup ((Reading \ room) \cap {e.turn})
      BY <2>2 DEF Dispatch
    <3>2. c \in Reading <=> Listening(c)
      BY DEF Reading, Listening, TInv, CallInv, Called
    <3>3. chan[c] \in Seq(Line) /\ Append(chan[c], e) \in Seq(Line)
      BY <1>2, AppendProperties
    <3>4. CASE c \in room
      BY <3>1, <3>2, <3>3, <3>4
    <3>5. CASE c \notin room
      BY <3>1, <3>2, <3>3, <3>5 DEF Of
    <3> QED
      BY <3>4, <3>5
  <2> QED
    BY <1>4, <2>1, <2>2
<1>6. chan' \in [Calls -> Seq(Line)] /\ dropped \subseteq dropped'
  <2>1. chan' = [c \in Calls |-> chan'[c]]
    BY <1>2, <1>4 DEF Dispatch
  <2>2. dropped \subseteq dropped'
    BY <1>4 DEF Dispatch
  <2> QED
    BY <1>5, <2>1, <2>2
<1>7. Shapes'
  <2>1. pipe' \in Seq(Line) /\ Len(pipe') <= 1
    BY <1>3, EmptySeq
  <2> QED
    BY <1>1, <1>6, <2>1 DEF TInv, Shapes
<1>8. ASSUME NEW c \in Calls PROVE CallInv(c)'
  BY <1>1, <1>3, <1>5, <1>6, <1>7, Reads DEF TInv
<1> QED
  BY <1>7, <1>8 DEF TInv

LEMMA WaitForExitKeeps == ASSUME TInv, WaitForExit PROVE TInv'
<1>1. /\ ~ alive /\ pipe' = <<>>
      /\ UNCHANGED <<alive, turn, reqs, turnCh, pc, chan, msgs, parts, out, notice, dropped>>
  BY DEF WaitForExit, codex, call
<1>2. Shapes'
  <2>1. pipe' \in Seq(Line) /\ Len(pipe') <= 1
    BY <1>1, EmptySeq
  <2> QED
    BY <1>1, <2>1 DEF TInv, Shapes
<1>3. ASSUME NEW c \in Calls PROVE CallInv(c)'
  <2>1. CallInv(c) /\ Same(c) /\ (Listening(c) => turnCh' = c)
    BY <1>1 DEF TInv, Same, CallInv, Called
  <2>2. CASE pipe = <<>>
    BY <1>1, <1>2, <2>1, <2>2, Untouched DEF TInv
  <2>3. CASE pipe # <<>>
    <3>1. PICK e : e = Head(pipe)
      OBVIOUS
    <3> QED
      BY <1>1, <1>2, <2>1, <2>3, <3>1, Reads DEF TInv
  <2> QED
    BY <2>2, <2>3
<1> QED
  BY <1>2, <1>3 DEF TInv

-----------------------------------------------------------------------------
(* The calls *)

\* Nothing of a call changes, or only the notice.
LEMMA NoticeKeeps ==
    ASSUME TInv, UNCHANGED <<alive, turn, reqs, turnCh, pipe, pc, chan, msgs, parts, out, dropped>>,
           notice' \in [Calls -> {"armed", "sending", "off"}]
    PROVE  TInv'
<1>1. Shapes'
  BY DEF TInv, Shapes
<1>2. ASSUME NEW c \in Calls PROVE CallInv(c)'
  <2>1. CallInv(c) /\ Same(c) /\ (Listening(c) => turnCh' = c)
    BY DEF TInv, Same, CallInv, Called
  <2> QED
    BY <1>1, <2>1, Untouched DEF TInv
<1> QED
  BY <1>1, <1>2 DEF TInv

LEMMA ServiceStopsKeeps == ASSUME TInv, ServiceStops PROVE TInv'
<1>1. notice' = notice /\ notice \in [Calls -> {"armed", "sending", "off"}]
  BY DEF ServiceStops, TInv, Shapes
<1> QED
  BY <1>1, NoticeKeeps DEF ServiceStops, codex, client, call

LEMMA CancelKeeps == ASSUME TInv, NEW d \in Calls, Cancel(d) PROVE TInv'
<1>1. notice' = notice /\ notice \in [Calls -> {"armed", "sending", "off"}]
  BY DEF Cancel, TInv, Shapes
<1> QED
  BY <1>1, NoticeKeeps DEF Cancel, codex, client, call

LEMMA SendSlowKeeps == ASSUME TInv, NEW d \in Calls, SendSlow(d) PROVE TInv'
<1>1. notice' \in [Calls -> {"armed", "sending", "off"}]
  BY DEF SendSlow, TInv, Shapes
<1> QED
  BY <1>1, NoticeKeeps DEF SendSlow, Reporting, codex, client

\* A call leaves, and nothing of the others changes.
LEMMA ReturnKeeps ==
    ASSUME TInv, NEW d \in Calls, NEW kind, NEW reply, Return(d, kind, reply),
           UNCHANGED <<alive, turn, pipe, notice, dropped>>, reqs' = reqs,
           kind = "reply" => turn[d].status = "completed" /\ (d \notin dropped => reply = TurnReply(d)),
           kind = "interrupted" => turn[d].status = "interrupted",
           kind = "failed" => turn[d].status \in Over
    PROVE  TInv'
<1>1. /\ pc' \in [Calls -> States] /\ chan' \in [Calls -> Seq(Line)] /\ parts' \in [Calls -> Seq(Part)]
      /\ msgs' \in [Calls -> [Items -> Msg]] /\ DOMAIN out' = Calls
      /\ pc'[d] = "returned" /\ chan'[d] = <<>> /\ out'[d] = [kind |-> kind, reply |-> reply]
      /\ turnCh' = IF turnCh = d THEN NoCall ELSE turnCh
      /\ \A c \in Calls \ {d} : Same(c)
  BY ShapesOfReturn DEF TInv
<1>2. Shapes'
  BY <1>1 DEF TInv, Shapes
<1>3. ASSUME NEW c \in Calls PROVE CallInv(c)'
  <2>1. CASE c = d
    <3>1. out'[c].kind = kind /\ out'[c].reply = reply
      BY <1>1, <2>1
    <3>2. Tells(c)'
      BY <2>1, <3>1 DEF Tells, TurnReply
    <3> QED
      BY <1>1, <1>2, <2>1, <3>1, <3>2, Leaves DEF TInv
  <2>2. CASE c # d
    <3>1. Same(c) /\ CallInv(c)
      BY <1>1, <2>2 DEF TInv
    <3>2. Listening(c) => turnCh' = c
      BY <1>1, <2>2, <3>1 DEF CallInv, Called
    <3> QED
      BY <1>2, <3>1, <3>2, Untouched DEF TInv
  <2> QED
    BY <2>1, <2>2
<1> QED
  BY <1>2, <1>3 DEF TInv

LEMMA FailsKeeps ==
    ASSUME TInv, NEW d \in Calls, NEW kind, Fails(d, kind),
           UNCHANGED <<alive, turn, pipe, notice, dropped>>, reqs' = reqs,
           kind # "reply",
           kind = "interrupted" => turn[d].status = "interrupted",
           kind = "failed" => turn[d].status \in Over
    PROVE  TInv'
BY ReturnKeeps DEF Fails

\* A call goes from one state to the next, without its turn.
LEMMA MovesKeeps ==
    ASSUME TInv, NEW d \in Calls, NEW p \in States, Goto(d, p),
           UNCHANGED <<alive, turn, pipe, dropped, turnCh, chan, msgs, parts, out>>,
           notice' \in [Calls -> {"armed", "sending", "off"}],
           p \in {"idle", "resuming", "check"} => Before(d),
           p \in {"starting", "collect"} <=> Listening(d),
           pc[d] = "returned" => p = "closed",
           pc[d] # "closed",
           \A c \in Calls : <<"start", c>> \in reqs' => <<"start", c>> \in reqs
    PROVE  TInv'
<1>1. pc' \in [Calls -> States] /\ pc'[d] = p /\ \A c \in Calls \ {d} : pc'[c] = pc[c]
  BY DEF Goto, TInv, Shapes
<1>2. Shapes'
  BY <1>1 DEF TInv, Shapes
<1>3. ASSUME NEW c \in Calls PROVE CallInv(c)'
  <2>1. CallInv(c)
    BY DEF TInv
  <2>2. CASE c = d
    <3>1. Before(c)' => Before(c)
      BY <1>1, <2>2 DEF Before
    <3>2. Listening(c)' <=> Listening(c)
      BY <1>1, <2>2 DEF Listening
    <3>3. out[c].kind # "none" => pc'[c] \in {"returned", "closed"}
      BY <1>1, <2>1, <2>2 DEF CallInv, Called
    <3> QED
      BY <1>2, <2>1, <3>1, <3>2, <3>3, Moves DEF TInv
  <2>3. CASE c # d
    <3>1. Same(c) /\ (Listening(c) => turnCh' = c)
      BY <1>1, <2>1, <2>3 DEF Same, CallInv, Called
    <3> QED
      BY <1>2, <2>1, <3>1, Untouched DEF TInv
  <2> QED
    BY <2>2, <2>3
<1> QED
  BY <1>2, <1>3 DEF TInv

LEMMA StartCallKeeps == ASSUME TInv, NEW d \in Calls, Start(d) PROVE TInv'
<1>1. CASE d \notin cancelled /\ ~alive /\ alive' = TRUE /\ UNCHANGED <<turnCh, call, turn, reqs>>
  <2>1. UNCHANGED <<turn, reqs, turnCh, pipe, pc, chan, msgs, parts, out, notice, dropped>>
    BY <1>1 DEF Start, call
  <2>2. Shapes'
    BY <1>1, <2>1 DEF TInv, Shapes
  <2>3. ASSUME NEW c \in Calls PROVE CallInv(c)'
    <3>1. CallInv(c) /\ Same(c) /\ (Listening(c) => turnCh' = c)
      BY <2>1 DEF TInv, Same, CallInv, Called
    <3> QED
      BY <1>1, <2>1, <2>2, <3>1, Untouched DEF TInv
  <2> QED
    BY <2>2, <2>3 DEF TInv
<1>2. CASE Fails(d, "not_started") /\ UNCHANGED <<codex, started>>
  <2>1. UNCHANGED <<alive, turn, pipe, notice, dropped>> /\ reqs' = reqs
    BY <1>2 DEF Start, codex
  <2> QED
    BY <1>2, <2>1, FailsKeeps
<1> QED
  BY <1>1, <1>2 DEF Start

LEMMA ResumeThreadKeeps == ASSUME TInv, NEW d \in Calls, ResumeThread(d) PROVE TInv'
<1>1. pc[d] = "idle" /\ UNCHANGED <<alive, turn, pipe, notice, dropped>>
  BY DEF ResumeThread, Chat
<1>2. notice' \in [Calls -> {"armed", "sending", "off"}] /\ Before(d) /\ ~ Listening(d)
  BY <1>1 DEF TInv, Shapes, Before, Listening
<1>3. CASE Goto(d, "check") /\ UNCHANGED <<reqs, ans, chan, msgs, parts, out, turnCh>>
  BY <1>1, <1>2, <1>3, MovesKeeps DEF States
<1>4. CASE Send("resume", d) /\ Goto(d, "resuming") /\ UNCHANGED <<chan, msgs, parts, out, turnCh>>
  <2>1. \A c \in Calls : <<"start", c>> \in reqs' => <<"start", c>> \in reqs
    BY <1>4 DEF Send
  <2> QED
    BY <1>1, <1>2, <1>4, <2>1, MovesKeeps DEF States
<1>5. CASE Fails(d, "start_failed") /\ UNCHANGED reqs
  BY <1>1, <1>5, FailsKeeps
<1> QED
  BY <1>3, <1>4, <1>5 DEF ResumeThread

LEMMA ResumedKeeps == ASSUME TInv, NEW d \in Calls, Resumed(d) PROVE TInv'
<1>1. pc[d] = "resuming" /\ UNCHANGED <<alive, turn, pipe, notice, dropped, reqs>>
  BY DEF Resumed, Chat
<1>2. notice' \in [Calls -> {"armed", "sending", "off"}] /\ Before(d) /\ ~ Listening(d)
  BY <1>1 DEF TInv, Shapes, Before, Listening
<1>3. CASE ans[d] = "ok"
  BY <1>1, <1>2, <1>3, MovesKeeps DEF Resumed, States
<1>4. CASE ans[d] # "ok"
  BY <1>1, <1>4, FailsKeeps DEF Resumed
<1> QED
  BY <1>3, <1>4

LEMMA ResumeCancelledKeeps == ASSUME TInv, NEW d \in Calls, ResumeCancelled(d) PROVE TInv'
BY FailsKeeps DEF ResumeCancelled, Chat

LEMMA StartTimeoutKeeps == ASSUME TInv, NEW d \in Calls, StartTimeout(d) PROVE TInv'
BY FailsKeeps DEF StartTimeout, Chat

LEMMA StartTurnKeeps == ASSUME TInv, NEW d \in Calls, StartTurn(d) PROVE TInv'
<1>1. pc[d] = "check" /\ UNCHANGED <<alive, turn, pipe, notice, dropped>>
  BY DEF StartTurn, Chat
<1>2. CASE Fails(d, "busy") /\ UNCHANGED reqs
  BY <1>1, <1>2, FailsKeeps
<1>3. CASE Fails(d, "start_failed") /\ UNCHANGED reqs
  BY <1>1, <1>3, FailsKeeps
<1>4. CASE /\ ~Taken /\ Send("start", d) /\ turnCh' = d /\ Goto(d, "starting")
           /\ UNCHANGED <<chan, msgs, parts, out>>
  <2>1. pc' \in [Calls -> States] /\ pc'[d] = "starting" /\ \A c \in Calls \ {d} : pc'[c] = pc[c]
    BY <1>4 DEF Goto, TInv, Shapes, States
  <2>2. Shapes'
    BY <1>1, <1>4, <2>1 DEF TInv, Shapes
  <2>3. ASSUME NEW c \in Calls PROVE CallInv(c)'
    <3>1. CallInv(c)
      BY DEF TInv
    <3>2. CASE c = d
      BY <1>1, <1>4, <2>1, <2>2, <3>1, <3>2, Starts DEF TInv
    <3>3. CASE c # d
      <4>1. Same(c) /\ (<<"start", c>> \in reqs' => <<"start", c>> \in reqs)
        BY <1>4, <2>1, <3>3 DEF Same, Send
      <4>2. ~ Listening(c)
        BY <1>4, <3>1, TurnAssumption DEF Taken, NoCall, CallInv, Called
      <4> QED
        BY <1>1, <2>2, <3>1, <4>1, <4>2, Untouched DEF TInv
    <3> QED
      BY <3>2, <3>3
  <2> QED
    BY <2>2, <2>3 DEF TInv
<1> QED
  BY <1>2, <1>3, <1>4 DEF StartTurn

LEMMA TurnStartedKeeps == ASSUME TInv, NEW d \in Calls, TurnStarted(d) PROVE TInv'
<1>1. pc[d] = "starting" /\ UNCHANGED <<alive, turn, pipe, notice, dropped, reqs>>
  BY DEF TurnStarted, Chat
<1>2. notice' \in [Calls -> {"armed", "sending", "off"}] /\ Listening(d)
  BY <1>1 DEF TInv, Shapes, Listening
<1>3. CASE ans[d] = "ok"
  BY <1>1, <1>2, <1>3, MovesKeeps DEF TurnStarted, States
<1>4. CASE ans[d] # "ok"
  BY <1>1, <1>4, FailsKeeps DEF TurnStarted
<1> QED
  BY <1>3, <1>4

LEMMA InterruptedKeeps == ASSUME TInv, NEW d \in Calls, Interrupted(d) PROVE TInv'
<1>1. /\ pc[d] = "interrupt"
      /\ UNCHANGED <<alive, turn, pipe, notice, dropped, reqs, turnCh, chan, msgs, parts, out>>
  BY DEF Interrupted, Collecting, Chat
<1>2. notice' \in [Calls -> {"armed", "sending", "off"}] /\ ~ Listening(d)
  BY <1>1 DEF TInv, Shapes, Listening
<1>3. PICK p \in {"confirm", "confirm_failed"} : Goto(d, p)
  BY DEF Interrupted
<1> QED
  BY <1>1, <1>2, <1>3, MovesKeeps DEF States

LEMMA CloseKeeps == ASSUME TInv, NEW d \in Calls, Close(d) PROVE TInv'
<1>1. /\ pc[d] = "returned" /\ Goto(d, "closed")
      /\ UNCHANGED <<alive, turn, pipe, dropped, reqs, turnCh, chan, msgs, parts, out>>
  BY DEF Close, Reporting, codex
<1>2. notice' \in [Calls -> {"armed", "sending", "off"}] /\ ~ Listening(d)
  BY <1>1 DEF Close, TInv, Shapes, Listening
<1> QED
  BY <1>1, <1>2, MovesKeeps DEF States

LEMMA UnconfirmedKeeps == ASSUME TInv, NEW d \in Calls, Unconfirmed(d) PROVE TInv'
BY FailsKeeps DEF Unconfirmed, Collecting, Chat

LEMMA ConfirmKeeps == ASSUME TInv, NEW d \in Calls, Confirm(d) PROVE TInv'
<1>1. UNCHANGED <<alive, turn, pipe, notice, dropped, reqs>> /\ turn[d].status \in Over
  BY DEF Confirm, Confirmed, Collecting, Chat
<1>2. CASE turn[d].status = "completed"
  <2>1. PICK reply : reply = TurnReply(d)
    OBVIOUS
  <2>2. Return(d, "reply", reply)
    BY <1>2, <2>1 DEF Confirm
  <2> QED
    BY <1>1, <1>2, <2>1, <2>2, ReturnKeeps
<1>3. CASE turn[d].status = "failed"
  BY <1>1, <1>3, FailsKeeps DEF Confirm
<1>4. CASE turn[d].status = "interrupted"
  BY <1>1, <1>4, FailsKeeps DEF Confirm
<1> QED
  BY <1>1, <1>2, <1>3, <1>4 DEF Over

LEMMA InterruptKeeps == ASSUME TInv, NEW d \in Calls, Interrupt(d) PROVE TInv'
<1>1. /\ pc[d] = "collect" /\ Forget(d)
      /\ UNCHANGED <<alive, turn, pipe, notice, dropped, turnCh, out>>
  BY DEF Interrupt, Chat
<1>2. PICK p \in {"interrupt", "confirm_failed"} : Goto(d, p)
  BY DEF Interrupt
<1>3. pc' \in [Calls -> States] /\ pc'[d] = p /\ \A c \in Calls \ {d} : pc'[c] = pc[c]
  BY <1>2 DEF Goto, TInv, Shapes, States
<1>4. /\ chan' \in [Calls -> Seq(Line)] /\ parts' \in [Calls -> Seq(Part)] /\ chan'[d] = <<>>
      /\ \A c \in Calls \ {d} : chan'[c] = chan[c] /\ parts'[c] = parts[c]
  <2>1. <<>> \in Seq(Line) /\ <<>> \in Seq(Part)
    BY EmptySeq
  <2> QED
    BY <1>1, <2>1 DEF Forget, TInv, Shapes
<1>5. msgs' \in [Calls -> [Items -> Msg]] /\ \A c \in Calls \ {d} : msgs'[c] = msgs[c]
  <2>1. [i \in Items |-> NoMsg] \in [Items -> Msg]
    BY DEF NoMsg, Msg
  <2> QED
    BY <1>1, <2>1 DEF Forget, TInv, Shapes
<1>6. Shapes'
  BY <1>1, <1>3, <1>4, <1>5 DEF TInv, Shapes
<1>7. \A c \in Calls : <<"start", c>> \in reqs' => <<"start", c>> \in reqs
  BY DEF Interrupt, Send
<1>8. ASSUME NEW c \in Calls PROVE CallInv(c)'
  <2>1. CallInv(c)
    BY DEF TInv
  <2>2. CASE c = d
    <3>1. out'[c].kind = "none"
      BY <1>1, <2>1, <2>2 DEF CallInv, Called
    <3>2. Tells(c)'
      BY <3>1 DEF Tells
    <3> QED
      BY <1>1, <1>3, <1>4, <1>6, <1>7, <2>1, <2>2, <3>1, <3>2, Leaves DEF TInv
  <2>3. CASE c # d
    <3>1. Same(c) /\ (Listening(c) => turnCh' = c)
      BY <1>1, <1>3, <1>4, <1>5, <2>1, <2>3 DEF Same, CallInv, Called
    <3> QED
      BY <1>1, <1>6, <1>7, <2>1, <3>1, Untouched DEF TInv
  <2> QED
    BY <2>2, <2>3
<1> QED
  BY <1>6, <1>8 DEF TInv

\* What an event of the turn adds to what is collected.
LEMMA MessageAdds ==
    ASSUME TInv, NEW d \in Calls, NEW e \in Line, Of(e, d), True(e, turn[d]), Message(d, e)
    PROVE  /\ msgs' \in [Calls -> [Items -> Msg]] /\ parts' \in [Calls -> Seq(Part)]
           /\ \A c \in Calls \ {d} : msgs'[c] = msgs[c] /\ parts'[c] = parts[c]
           /\ Adds(d, e)
<1>1. /\ msgs \in [Calls -> [Items -> Msg]] /\ parts \in [Calls -> Seq(Part)]
      /\ turn[d].items \in Seq(Item) /\ Len(turn[d].items) \in Nat /\ Len(turn[d].items) <= MaxItems
      /\ MaxItems \in Nat
  <2>1. turn[d] \in Turn
    BY DEF TInv, Shapes, Turns
  <2>2. turn[d].items \in Seq(Item) /\ Len(turn[d].items) \in Nat
    BY <2>1 DEF Turn
  <2>3. Len(turn[d].items) <= MaxItems
    BY DEF TInv, CallInv, Codexed
  <2>4. MaxItems \in Nat
    BY TurnClientAssumption
  <2> QED
    BY <2>2, <2>3, <2>4 DEF TInv, Shapes
<1>2. e.kind \in Messages => e.item \in Items /\ e.phase \in Phases
  <2> SUFFICES ASSUME e.kind \in Messages PROVE e.item \in Items /\ e.phase \in Phases
    OBVIOUS
  <2>1. e.item \in 1..Len(turn[d].items) /\ e.phase = turn[d].items[e.item].phase
    BY DEF True, Messages
  <2>2. turn[d].items[e.item] \in Item
    BY <1>1, <2>1, ElementOfSeq
  <2> QED
    BY <1>1, <2>1, <2>2 DEF Items, Item
<1>3. ASSUME NEW i \in Items, NEW ph \in Phases \cup {NoPhase}
      PROVE  [msgs[d][i] EXCEPT !.phase = ph] \in Msg /\ [msgs[d][i] EXCEPT !.text = TRUE] \in Msg
  <2>1. msgs[d][i] \in Msg
    BY <1>1
  <2> QED
    BY <2>1 DEF Msg
<1>4. CASE /\ e.kind = "message_started" /\ UNCHANGED parts
           /\ msgs' = [msgs EXCEPT ![d][e.item].phase = e.phase]
  <2>1. PICK m : m = [msgs[d] EXCEPT ![e.item] = [msgs[d][e.item] EXCEPT !.phase = e.phase]]
    OBVIOUS
  <2>2. m \in [Items -> Msg] /\ m = [msgs[d] EXCEPT ![e.item].phase = e.phase]
    BY <1>1, <1>2, <1>3, <1>4, <2>1 DEF Messages
  <2>3. msgs' = [msgs EXCEPT ![d] = m]
    BY <1>4, <2>1
  <2> QED
    BY <1>1, <1>4, <2>2, <2>3 DEF Adds
<1>5. CASE /\ e.kind = "message_delta" /\ UNCHANGED parts
           /\ msgs' = [msgs EXCEPT ![d][e.item].text = TRUE]
  <2>1. PICK m : m = [msgs[d] EXCEPT ![e.item] = [msgs[d][e.item] EXCEPT !.text = TRUE]]
    OBVIOUS
  <2>2. m \in [Items -> Msg] /\ m = [msgs[d] EXCEPT ![e.item].text = TRUE]
    BY <1>1, <1>2, <1>3, <1>5, <2>1 DEF Messages
  <2>3. msgs' = [msgs EXCEPT ![d] = m]
    BY <1>5, <2>1
  <2> QED
    BY <1>1, <1>5, <2>2, <2>3 DEF Adds
<1>6. CASE /\ e.kind = "message_completed"
           /\ \E ph : /\ ph = IF e.phase # NoPhase THEN e.phase ELSE msgs[d][e.item].phase
                      /\ msgs' = [msgs EXCEPT ![d][e.item].phase = ph]
                      /\ parts' = IF ph = "commentary" THEN parts
                                  ELSE [parts EXCEPT ![d] = Append(@, [item |-> e.item, whole |-> TRUE])]
  <2>1. PICK ph : /\ ph = IF e.phase # NoPhase THEN e.phase ELSE msgs[d][e.item].phase
                  /\ msgs' = [msgs EXCEPT ![d][e.item].phase = ph]
                  /\ parts' = IF ph = "commentary" THEN parts
                              ELSE [parts EXCEPT ![d] = Append(@, [item |-> e.item, whole |-> TRUE])]
    BY <1>6
  <2>2. e.item \in Items /\ ph \in Phases \cup {NoPhase}
    <3>1. e.item \in Items /\ e.phase \in Phases
      BY <1>2, <1>6 DEF Messages
    <3>2. msgs[d][e.item] \in Msg
      BY <1>1, <3>1
    <3> QED
      BY <2>1, <3>1, <3>2 DEF Msg
  <2>3. PICK m : m = [msgs[d] EXCEPT ![e.item] = [msgs[d][e.item] EXCEPT !.phase = ph]]
    OBVIOUS
  <2>4. m \in [Items -> Msg] /\ m = [msgs[d] EXCEPT ![e.item].phase = ph]
    BY <1>1, <1>3, <2>2, <2>3
  <2>5. msgs' = [msgs EXCEPT ![d] = m]
    BY <2>1, <2>3
  <2>6. PICK w \in Part : w = Whole(e.item)
    <3>1. e.item \in Nat
      BY <1>1, <2>2 DEF Items
    <3>2. Whole(e.item) \in Part
      BY <3>1 DEF Part, Whole
    <3> QED
      BY <3>2
  <2>7. Append(parts[d], w) \in Seq(Part)
    BY <1>1, <2>6, AppendProperties
  <2>8. parts' = IF ph = "commentary" THEN parts ELSE [parts EXCEPT ![d] = Append(parts[d], w)]
    BY <2>1, <2>6 DEF Whole
  <2>9. parts' \in [Calls -> Seq(Part)] /\ \A c \in Calls \ {d} : parts'[c] = parts[c]
    BY <1>1, <2>7, <2>8
  <2>10. (ph = "commentary" => parts'[d] = parts[d]) /\ (ph # "commentary" => parts'[d] = Append(parts[d], w))
    BY <1>1, <2>8
  <2>11. msgs' \in [Calls -> [Items -> Msg]] /\ msgs'[d] = m /\ \A c \in Calls \ {d} : msgs'[c] = msgs[c]
    BY <1>1, <2>4, <2>5
  <2>12. (e.phase # NoPhase => ph = e.phase) /\ (e.phase = NoPhase => ph = msgs[d][e.item].phase)
    BY <2>1
  <2> QED
    BY <1>6, <2>4, <2>6, <2>9, <2>10, <2>11, <2>12 DEF Adds
<1>7. \/ /\ e.kind = "message_started" /\ UNCHANGED parts
         /\ msgs' = [msgs EXCEPT ![d][e.item].phase = e.phase]
      \/ /\ e.kind = "message_delta" /\ UNCHANGED parts
         /\ msgs' = [msgs EXCEPT ![d][e.item].text = TRUE]
      \/ /\ e.kind = "message_completed"
         /\ \E ph : /\ ph = IF e.phase # NoPhase THEN e.phase ELSE msgs[d][e.item].phase
                    /\ msgs' = [msgs EXCEPT ![d][e.item].phase = ph]
                    /\ parts' = IF ph = "commentary" THEN parts
                                ELSE [parts EXCEPT ![d] = Append(@, [item |-> e.item, whole |-> TRUE])]
  <2>1. Message(d, e)
    OBVIOUS
  <2> QED
    BY <2>1, Zenon DEF Message
<1> QED
  BY <1>4, <1>5, <1>6, <1>7

LEMMA CollectKeeps == ASSUME TInv, NEW d \in Calls, Collect(d) PROVE TInv'
<1>1. pc[d] = "collect" /\ chan[d] # <<>> /\ UNCHANGED <<alive, turn, pipe, notice, dropped, reqs>>
  BY DEF Collect, Collecting, Chat
<1>2. /\ Shapes /\ CallInv(d) /\ chan \in [Calls -> Seq(Line)] /\ chan[d] \in Seq(Line)
      /\ pipe \in Seq(Line) /\ Len(pipe) <= 1
  BY DEF TInv, Shapes
<1>3. PICK e \in Line : e = Head(chan[d])
  BY <1>1, <1>2, HeadTailProperties
<1>4. \/ /\ ~(Mine(d, e) /\ e.kind = "terminal")
         /\ chan' = [chan EXCEPT ![d] = Tail(@)]
         /\ \/ ~Mine(d, e) /\ UNCHANGED <<msgs, parts>>
            \/ Mine(d, e) /\ Message(d, e)
         /\ UNCHANGED <<pc, ans, out, turnCh>>
      \/ /\ Mine(d, e) /\ e.kind = "terminal"
         /\ IF e.phase = "completed"
            THEN IF Reply(d) = <<>> THEN Fails(d, "failed") ELSE Return(d, "reply", Reply(d))
            ELSE Fails(d, e.phase)
  BY <1>3 DEF Collect
<1>5. CASE /\ ~(Mine(d, e) /\ e.kind = "terminal")
           /\ chan' = [chan EXCEPT ![d] = Tail(@)]
           /\ \/ ~Mine(d, e) /\ UNCHANGED <<msgs, parts>>
              \/ Mine(d, e) /\ Message(d, e)
           /\ UNCHANGED <<pc, ans, out, turnCh>>
  <2>1. /\ chan' \in [Calls -> Seq(Line)] /\ chan'[d] = Tail(chan[d])
        /\ \A c \in Calls \ {d} : chan'[c] = chan[c]
    <3>1. Tail(chan[d]) \in Seq(Line)
      BY <1>1, <1>2, HeadTailProperties
    <3> QED
      BY <1>2, <1>5, <3>1
  <2>2. Of(e, d) => True(e, turn[d])
    <3>1. Head(Feed(d)) = e /\ Feed(d) # <<>> /\ Feed(d) \in Seq(Line)
      BY <1>1, <1>2, <1>3, JoinedTail DEF Feed
    <3>2. PICK s \in Seq(Line) : s = Feed(d)
      BY <3>1
    <3>3. PICK t : t = turn[d]
      OBVIOUS
    <3>4. InOrder(s, d, t)
      BY <1>2, <3>2, <3>3 DEF CallInv
    <3> QED
      BY <3>1, <3>2, <3>3, <3>4, HeadFirst
  <2>3. /\ msgs' \in [Calls -> [Items -> Msg]] /\ parts' \in [Calls -> Seq(Part)]
        /\ \A c \in Calls \ {d} : msgs'[c] = msgs[c] /\ parts'[c] = parts[c]
        /\ Adds(d, e)
    <3>1. CASE ~ Mine(d, e) /\ UNCHANGED <<msgs, parts>>
      BY <1>2, <3>1 DEF Mine, Of, Shapes, Adds
    <3>2. CASE Mine(d, e) /\ Message(d, e)
      <4>1. Of(e, d)
        BY <3>2 DEF Mine, Of, Message
      <4>2. True(e, turn[d])
        BY <2>2, <4>1
      <4> QED
        BY <3>2, <4>1, <4>2, MessageAdds
    <3> QED
      BY <1>5, <3>1, <3>2
  <2>4. Shapes'
    BY <1>1, <1>5, <2>1, <2>3 DEF TInv, Shapes
  <2>5. ASSUME NEW c \in Calls PROVE CallInv(c)'
    <3>1. CallInv(c)
      BY DEF TInv
    <3>2. CASE c = d
      <4>1. /\ pc[d] = "collect" /\ pc'[d] = "collect" /\ out'[d] = out[d] /\ turn' = turn /\ alive' = alive
            /\ reqs' = reqs /\ pipe' = pipe /\ dropped' = dropped /\ turnCh' = turnCh
        BY <1>1, <1>5
      <4>2. e = Head(chan[d]) /\ chan[d] # <<>> /\ chan'[d] = Tail(chan[d]) /\ Shapes /\ Shapes' /\ CallInv(d)
        BY <1>1, <1>2, <1>3, <2>1, <2>4
      <4>3. CallInv(d)'
        BY <2>3, <4>1, <4>2, Collects
      <4> QED
        BY <3>2, <4>3
    <3>3. CASE c # d
      <4>1. Same(c) /\ (Listening(c) => turnCh' = c)
        BY <1>5, <2>1, <2>3, <3>1, <3>3 DEF Same, CallInv, Called
      <4> QED
        BY <1>1, <1>2, <2>4, <3>1, <4>1, Untouched
    <3> QED
      BY <3>2, <3>3
  <2> QED
    BY <2>4, <2>5 DEF TInv
<1>6. CASE /\ Mine(d, e) /\ e.kind = "terminal"
           /\ IF e.phase = "completed"
              THEN IF Reply(d) = <<>> THEN Fails(d, "failed") ELSE Return(d, "reply", Reply(d))
              ELSE Fails(d, e.phase)
  <2>1. Of(e, d)
    BY <1>6 DEF Mine, Of
  <2>2. PICK reply : reply = Reply(d)
    OBVIOUS
  <2>3. /\ e.phase = turn[d].status /\ turn[d].status \in Over
        /\ e.phase = "completed" /\ d \notin dropped /\ reply # <<>> => reply = TurnReply(d)
    BY <1>1, <1>2, <1>3, <1>6, <2>1, <2>2, Replies
  <2>4. CASE e.phase = "completed" /\ reply = <<>>
    BY <1>1, <1>6, <2>2, <2>3, <2>4, FailsKeeps
  <2>5. CASE e.phase = "completed" /\ reply # <<>>
    BY <1>1, <1>6, <2>2, <2>3, <2>5, ReturnKeeps
  <2>6. CASE e.phase # "completed"
    BY <1>1, <1>6, <2>3, <2>6, FailsKeeps DEF Over
  <2> QED
    BY <2>4, <2>5, <2>6
<1> QED
  BY <1>4, <1>5, <1>6

-----------------------------------------------------------------------------
(* Every step *)

LEMMA StutterKeeps == ASSUME TInv, UNCHANGED vars PROVE TInv'
<1>1. notice' = notice /\ notice \in [Calls -> {"armed", "sending", "off"}]
  BY DEF vars, TInv, Shapes
<1> QED
  BY <1>1, NoticeKeeps DEF vars, codex, call

THEOREM TNext == TInv /\ [Next]_vars => TInv'
<1> SUFFICES ASSUME TInv, [Next]_vars PROVE TInv'
  OBVIOUS
<1>1. CASE Serve
  BY <1>1, ResumeKeeps, StartKeeps, InterruptAnswerKeeps, BeginOtherKeeps, OtherCallKeeps,
     ItemStartedKeeps, ItemDeltaKeeps, ItemCompletedKeeps, TurnEndsKeeps DEF Serve
<1>2. CASE Exit \/ Read \/ WaitForExit \/ ServiceStops
  BY <1>2, ExitKeeps, ReadKeeps, WaitForExitKeeps, ServiceStopsKeeps
<1>3. ASSUME NEW c \in Calls, Cancel(c) \/ SendSlow(c) \/ Ctx(c) PROVE TInv'
  BY <1>3, CancelKeeps, SendSlowKeeps, ResumeCancelledKeeps, InterruptKeeps DEF Ctx
<1>4. ASSUME NEW c \in Calls, Proceed(c) PROVE TInv'
  BY <1>4, StartCallKeeps, ResumeThreadKeeps, ResumedKeeps, StartTurnKeeps, TurnStartedKeeps,
     StartTimeoutKeeps, CollectKeeps, InterruptedKeeps, ConfirmKeeps, UnconfirmedKeeps, CloseKeeps DEF Proceed
<1>5. CASE UNCHANGED vars
  BY <1>5, StutterKeeps
<1> QED
  BY <1>1, <1>2, <1>3, <1>4, <1>5 DEF Next

\* What the client remembers of its calls, of the pipe and of the turns
\* always fits together: the feed of a call is in order and true to its turn,
\* and what is collected is what the turn's first messages say.
THEOREM CallsFollowTheirTurns == Spec => []TInv
<1>1. Init => TInv
  BY TInit
<1>2. TInv /\ [Next]_vars => TInv'
  BY TNext
<1> QED
  BY <1>1, <1>2, PTL DEF Spec

\* What a call of chatTurn says of its turn is so: the reply it put together
\* from events is the one thread/read has of the turn (collectTurn, ReadTurn),
\* unless an event of the turn found the channel full; and a call that
\* reports a completion, a failure or a confirmed interruption leaves no turn
\* behind.
THEOREM RepliesTellTheTurn == Spec => []TellsTheTurn
<1>1. TInv => TellsTheTurn
  BY DEF TInv, CallInv, Tells, TellsTheTurn
<1> QED
  BY <1>1, CallsFollowTheirTurns, PTL

-----------------------------------------------------------------------------
(* The slow prompt *)

Quiet == \A c \in Calls : pc[c] = "closed" => notice[c] = "off"

\* The prompt that an execution takes long is not being sent when the executor
\* has gone on to deliver (reporter.Close), and is not sent after.
THEOREM NoticesComeInTime == Spec => []NoLateNotice
<1>1. Init => Quiet
  BY DEF Init, Quiet
<1>2. TInv /\ Quiet /\ [Next]_vars => Quiet'
  <2> SUFFICES ASSUME TInv, Quiet, [Next]_vars, NEW c \in Calls, pc'[c] = "closed"
               PROVE  notice'[c] = "off"
    BY DEF Quiet
  <2>1. pc \in [Calls -> States] /\ notice \in [Calls -> {"armed", "sending", "off"}]
    BY DEF TInv, Shapes
  <2>2. ASSUME NEW d \in Calls, SendSlow(d) PROVE notice'[c] = "off"
    BY <2>1, <2>2 DEF SendSlow, Silenced, Quiet
  <2>3. ASSUME NEW d \in Calls, Close(d) PROVE notice'[c] = "off"
    BY <2>1, <2>3 DEF Close, Goto, Quiet
  <2>4. ASSUME notice' = notice, pc[c] = "closed" PROVE notice'[c] = "off"
    BY <2>4 DEF Quiet
  <2>5. ASSUME notice' = notice, NEW d \in Calls, NEW p, Goto(d, p), p # "closed" PROVE notice'[c] = "off"
    <3>1. pc[c] = "closed"
      BY <2>1, <2>5 DEF Goto
    <3> QED
      BY <2>4, <2>5, <3>1
  <2>6. CASE Serve \/ Exit \/ Read \/ WaitForExit \/ ServiceStops
    <3>1. notice' = notice /\ pc' = pc
      BY <2>6 DEF Serve, HandleResume, HandleStart, HandleInterrupt, BeginOther, OtherCall, ItemStarted,
         ItemDelta, ItemCompleted, ItemText, TurnEnds, Turning, Exit, Read, WaitForExit, ServiceStops, Codex, call
    <3> QED
      BY <2>4, <3>1
  <2>7. ASSUME NEW d \in Calls, Cancel(d) PROVE notice'[c] = "off"
    BY <2>4, <2>7 DEF Cancel, call
  <2>8. ASSUME NEW d \in Calls, Start(d) PROVE notice'[c] = "off"
    BY <2>4, <2>5, <2>8 DEF Start, Fails, Return, call
  <2>9. ASSUME NEW d \in Calls,
               ResumeThread(d) \/ Resumed(d) \/ StartTurn(d) \/ TurnStarted(d) \/ StartTimeout(d) \/ ResumeCancelled(d)
        PROVE  notice'[c] = "off"
    BY <2>5, <2>9 DEF ResumeThread, Resumed, StartTurn, TurnStarted, StartTimeout, ResumeCancelled,
       Fails, Return, Chat
  <2>10. ASSUME NEW d \in Calls, Collect(d) PROVE notice'[c] = "off"
    BY <2>4, <2>5, <2>10 DEF Collect, Fails, Return, Collecting, Chat
  <2>11. ASSUME NEW d \in Calls, Interrupt(d) \/ Interrupted(d) \/ Confirm(d) \/ Unconfirmed(d)
         PROVE  notice'[c] = "off"
    BY <2>5, <2>11 DEF Interrupt, Interrupted, Confirm, Unconfirmed, Fails, Return, Collecting, Chat
  <2>12. CASE UNCHANGED vars
    BY <2>4, <2>12 DEF vars, call
  <2> QED
    BY <2>2, <2>3, <2>6, <2>7, <2>8, <2>9, <2>10, <2>11, <2>12 DEF Next, Proceed, Ctx
<1>3. Quiet => NoLateNotice
  BY DEF Quiet, NoLateNotice
<1> QED
  BY <1>1, <1>2, <1>3, CallsFollowTheirTurns, PTL DEF Spec

=============================================================================
