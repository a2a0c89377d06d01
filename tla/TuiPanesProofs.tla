--------------------------- MODULE TuiPanesProofs ---------------------------
(***************************************************************************)
(* Proofs about the pane stack of the TUI and the session behind it, for   *)
(* any number of panes and subscriptions and any bound on what is in       *)
(* flight: replies to OpenPane, which carry no request id, reach the       *)
(* request they answer, and a tab on the stack is fed or told of its end.  *)
(***************************************************************************)
EXTENDS TuiPanes, WellFoundedInduction, TLAPS

-----------------------------------------------------------------------------
(* Queues.                                                                 *)

\* What the messages of types T in q are about, and that they lie in its order.
SubsOf(q, T) == {m.sub : m \in {n \in Range(q) : n.t \in T}}
InOrder(q, T) ==
    \A i, j \in DOMAIN q : i < j /\ q[i].t \in T /\ q[j].t \in T => q[i].sub < q[j].sub

\* What is appended is in the queue with everything that was.
LEMMA AppendRange ==
    ASSUME NEW S, NEW q \in Seq(S), NEW m \in S
    PROVE  /\ Append(q, m) \in Seq(S) /\ Len(Append(q, m)) = Len(q) + 1
           /\ Append(q, m)[Len(q) + 1] = m
           /\ \A i \in DOMAIN q : Append(q, m)[i] = q[i]
           /\ Range(Append(q, m)) = Range(q) \cup {m}
<1>1. /\ Append(q, m) \in Seq(S) /\ Len(Append(q, m)) = Len(q) + 1
      /\ Append(q, m)[Len(q) + 1] = m
      /\ \A i \in DOMAIN q : Append(q, m)[i] = q[i]
  OBVIOUS
<1>2. DOMAIN Append(q, m) = DOMAIN q \cup {Len(q) + 1}
  OBVIOUS
<1>3. Range(Append(q, m)) = Range(q) \cup {m}
  BY <1>1, <1>2 DEF Range
<1>4. QED
  BY <1>1, <1>3

\* Two queues joined hold what either held, in this order.
LEMMA JoinRange ==
    ASSUME NEW S, NEW q \in Seq(S), NEW r \in Seq(S)
    PROVE  /\ q \o r \in Seq(S) /\ Len(q \o r) = Len(q) + Len(r)
           /\ \A i \in 1 .. Len(q) : (q \o r)[i] = q[i]
           /\ \A i \in 1 .. Len(r) : (q \o r)[Len(q) + i] = r[i]
           /\ Range(q \o r) = Range(q) \cup Range(r)
<1>1. /\ q \o r \in Seq(S) /\ Len(q \o r) = Len(q) + Len(r)
      /\ \A i \in 1 .. Len(q) : (q \o r)[i] = q[i]
      /\ \A i \in 1 .. Len(r) : (q \o r)[Len(q) + i] = r[i]
  OBVIOUS
<1>2. DOMAIN q = 1 .. Len(q) /\ DOMAIN r = 1 .. Len(r) /\ DOMAIN (q \o r) = 1 .. Len(q) + Len(r)
  BY <1>1
<1>3. Range(q \o r) \subseteq Range(q) \cup Range(r)
  <2>1. SUFFICES ASSUME NEW i \in 1 .. Len(q) + Len(r)
                 PROVE  (q \o r)[i] \in Range(q) \cup Range(r)
    BY <1>2 DEF Range
  <2>2. CASE i \in 1 .. Len(q)
    BY <1>1, <1>2, <2>2 DEF Range
  <2>3. CASE i \notin 1 .. Len(q)
    <3>1. i - Len(q) \in 1 .. Len(r) /\ Len(q) + (i - Len(q)) = i
      BY <2>3
    <3>2. (q \o r)[i] = r[i - Len(q)]
      BY <1>1, <3>1
    <3>3. QED
      BY <1>2, <3>1, <3>2 DEF Range
  <2>4. QED
    BY <2>2, <2>3
<1>4. Range(q) \subseteq Range(q \o r)
  BY <1>1, <1>2 DEF Range
<1>5. Range(r) \subseteq Range(q \o r)
  <2>1. \A i \in 1 .. Len(r) : Len(q) + i \in 1 .. Len(q) + Len(r)
    OBVIOUS
  <2>2. QED
    BY <1>1, <1>2, <2>1 DEF Range
<1>6. QED
  BY <1>1, <1>3, <1>4, <1>5

\* What is taken was in the queue, and the rest stays.
LEMMA TailRange ==
    ASSUME NEW S, NEW q \in Seq(S), q # <<>>
    PROVE  /\ Tail(q) \in Seq(S) /\ Len(Tail(q)) = Len(q) - 1 /\ Len(q) > 0
           /\ Head(q) = q[1] /\ Head(q) \in S /\ Head(q) \in Range(q)
           /\ \A i \in 1 .. Len(q) - 1 : Tail(q)[i] = q[i + 1] /\ i + 1 \in 1 .. Len(q)
           /\ Range(Tail(q)) \subseteq Range(q)
           /\ Range(q) = Range(Tail(q)) \cup {Head(q)}
<1>1. /\ Tail(q) \in Seq(S) /\ Len(Tail(q)) = Len(q) - 1 /\ Len(q) > 0
      /\ Head(q) = q[1] /\ Head(q) \in S
      /\ \A i \in 1 .. Len(q) - 1 : Tail(q)[i] = q[i + 1] /\ i + 1 \in 1 .. Len(q)
  OBVIOUS
<1>2. DOMAIN q = 1 .. Len(q) /\ DOMAIN Tail(q) = 1 .. Len(q) - 1
  BY <1>1
<1>3. Range(Tail(q)) \subseteq Range(q) /\ Head(q) \in Range(q)
  BY <1>1, <1>2 DEF Range
<1>4. Range(q) \subseteq Range(Tail(q)) \cup {Head(q)}
  <2>1. SUFFICES ASSUME NEW i \in 1 .. Len(q), i # 1
                 PROVE  q[i] \in Range(Tail(q))
    BY <1>1, <1>2 DEF Range
  <2>2. i - 1 \in 1 .. Len(q) - 1 /\ (i - 1) + 1 = i
    BY <2>1
  <2>3. q[i] = Tail(q)[i - 1]
    BY <1>1, <2>2
  <2>4. QED
    BY <1>2, <2>2, <2>3 DEF Range
<1>5. QED
  BY <1>1, <1>3, <1>4

\* A message is in flight if its subscription is among those of its type.
LEMMA InFlightSubs ==
    ASSUME NEW q, NEW t, NEW s
    PROVE  InFlight(q, t, s) <=> s \in SubsOf(q, {t})
  BY DEF InFlight, SubsOf, Range

\* A message about a later subscription keeps the order.
LEMMA AppendInOrder ==
    ASSUME NEW S, NEW q \in Seq(S), NEW m \in S, NEW T, InOrder(q, T),
           m.t \in T => \A s \in SubsOf(q, T) : s < m.sub
    PROVE  InOrder(Append(q, m), T)
<1> DEFINE p == Append(q, m)
<1>1. /\ Len(p) = Len(q) + 1 /\ p[Len(q) + 1] = m /\ \A i \in DOMAIN q : p[i] = q[i]
      /\ DOMAIN q = 1 .. Len(q) /\ DOMAIN p = 1 .. Len(q) + 1 /\ Len(q) \in Nat
  BY AppendRange
<1>2. SUFFICES ASSUME NEW i \in 1 .. Len(q) + 1, NEW j \in 1 .. Len(q) + 1, i < j,
                      p[i].t \in T, p[j].t \in T
               PROVE  p[i].sub < p[j].sub
  BY <1>1 DEF InOrder
<1>3. i \in DOMAIN q /\ p[i] = q[i]
  BY <1>1, <1>2
<1>4. CASE j \in DOMAIN q
  BY <1>1, <1>2, <1>3, <1>4 DEF InOrder
<1>5. CASE j \notin DOMAIN q
  <2>1. p[j] = m
    BY <1>1, <1>5
  <2>2. q[i].sub \in SubsOf(q, T)
    BY <1>2, <1>3 DEF SubsOf, Range
  <2>3. QED
    BY <1>2, <1>3, <2>1, <2>2
<1>6. QED
  BY <1>4, <1>5

\* So do messages of other types.
LEMMA JoinInOrder ==
    ASSUME NEW S, NEW q \in Seq(S), NEW r \in Seq(S), NEW T, InOrder(q, T),
           \A m \in Range(r) : m.t \notin T
    PROVE  /\ InOrder(q \o r, T) /\ SubsOf(q \o r, T) = SubsOf(q, T)
<1>1. /\ Len(q \o r) = Len(q) + Len(r)
      /\ \A i \in 1 .. Len(q) : (q \o r)[i] = q[i]
      /\ \A i \in 1 .. Len(r) : (q \o r)[Len(q) + i] = r[i]
      /\ Range(q \o r) = Range(q) \cup Range(r)
      /\ q \o r \in Seq(S)
  BY JoinRange
<1>2. \A i \in DOMAIN (q \o r) : (q \o r)[i].t \in T => i \in DOMAIN q
  <2>1. SUFFICES ASSUME NEW i \in 1 .. Len(q) + Len(r), i \notin 1 .. Len(q)
                 PROVE  (q \o r)[i].t \notin T
    BY <1>1
  <2>2. i - Len(q) \in 1 .. Len(r) /\ Len(q) + (i - Len(q)) = i
    BY <2>1
  <2>3. (q \o r)[i] = r[i - Len(q)] /\ i - Len(q) \in DOMAIN r
    BY <1>1, <2>2
  <2>4. QED
    BY <2>3 DEF Range
<1>3. DOMAIN q = 1 .. Len(q)
  OBVIOUS
<1>4. InOrder(q \o r, T)
  BY <1>1, <1>2, <1>3 DEF InOrder
<1>5. QED
  BY <1>1, <1>4 DEF SubsOf

\* The first message of its types is about the least subscription of them.
LEMMA TailInOrder ==
    ASSUME NEW S, NEW q \in Seq(S), q # <<>>, NEW T, InOrder(q, T),
           \A m \in Range(q) : m.sub \in Int
    PROVE  /\ InOrder(Tail(q), T)
           /\ Head(q).t \notin T => SubsOf(Tail(q), T) = SubsOf(q, T)
           /\ Head(q).t \in T =>
                 /\ SubsOf(q, T) = SubsOf(Tail(q), T) \cup {Head(q).sub}
                 /\ \A s \in SubsOf(Tail(q), T) : Head(q).sub < s
<1> DEFINE r == Tail(q)
<1>1. /\ Len(r) = Len(q) - 1 /\ Len(q) > 0 /\ Head(q) = q[1]
      /\ \A i \in 1 .. Len(q) - 1 : r[i] = q[i + 1] /\ i + 1 \in 1 .. Len(q)
      /\ Range(q) = Range(r) \cup {Head(q)}
      /\ DOMAIN q = 1 .. Len(q) /\ DOMAIN r = 1 .. Len(q) - 1 /\ Len(q) \in Nat
  BY TailRange
<1>2. InOrder(r, T)
  <2>1. SUFFICES ASSUME NEW i \in 1 .. Len(q) - 1, NEW j \in 1 .. Len(q) - 1, i < j,
                        r[i].t \in T, r[j].t \in T
                 PROVE  r[i].sub < r[j].sub
    BY <1>1 DEF InOrder
  <2>2. r[i] = q[i + 1] /\ r[j] = q[j + 1] /\ i + 1 \in 1 .. Len(q) /\ j + 1 \in 1 .. Len(q)
    BY <1>1
  <2>3. i + 1 < j + 1
    BY <2>1
  <2>4. QED
    BY <1>1, <2>1, <2>2, <2>3 DEF InOrder
<1>3. Head(q).t \in T => \A s \in SubsOf(r, T) : Head(q).sub < s
  <2>1. SUFFICES ASSUME Head(q).t \in T, NEW i \in 1 .. Len(q) - 1, r[i].t \in T
                 PROVE  Head(q).sub < r[i].sub
    BY <1>1 DEF SubsOf, Range
  <2>2. r[i] = q[i + 1] /\ i + 1 \in 1 .. Len(q) /\ 1 < i + 1 /\ 1 \in 1 .. Len(q)
    BY <1>1
  <2>3. QED
    BY <1>1, <2>1, <2>2 DEF InOrder
<1>4. QED
  BY <1>1, <1>2, <1>3 DEF SubsOf

\* An interval that is not empty, or a part of it, has a greatest element.
LEMMA GreatestOf ==
    ASSUME NEW n \in Nat, NEW I \in SUBSET (1 .. n), I # {}
    PROVE  \E m \in I : \A k \in I : k <= m
<1> DEFINE N == {n - k : k \in I}
<1>1. N \subseteq Nat /\ N # {}
  <2>1. \A k \in I : n - k \in Nat
    OBVIOUS
  <2>2. QED
    BY <2>1
<1>2. PICK a \in N : \A b \in N : <<b, a>> \notin OpToRel(<, Nat)
  BY <1>1, WFMin, NatLessThanWellFounded, Zenon
<1>3. \A b \in N : ~(b < a)
  BY <1>1, <1>2, Zenon DEF OpToRel
<1>4. PICK m \in I : a = n - m
  OBVIOUS
<1>5. ASSUME NEW k \in I PROVE k <= m
  <2>1. n - k \in N
    OBVIOUS
  <2>2. ~(n - k < a)
    BY <1>3, <2>1, Zenon
  <2>3. k \in Int /\ m \in Int
    <3>1. \A j \in I : j \in 1 .. n
      OBVIOUS
    <3>2. \A j \in 1 .. n : j \in Int
      OBVIOUS
    <3>3. QED
      BY <1>4, <3>1, <3>2
  <2>4. QED
    BY <1>4, <2>2, <2>3
<1>6. QED
  BY <1>5

-----------------------------------------------------------------------------
(* The inductive invariant.                                                *)

Fate == {"none", "pending", "tab", "failed", "over"}
Verdict == {"none", "opened", "refused", "unattached"}
CommandRec == [t : {"list", "open", "attach", "resize", "input", "close", "unsub"},
               pane : 0 .. MaxPanes, sub : 0 .. MaxSubs, size : 0 .. MaxSize]
ReplyRec == [t : {"list", "opened", "openError", "paneError", "bytes", "exit"},
             pane : 0 .. MaxPanes, sub : 0 .. MaxSubs]
Answers == {"opened", "openError"}

WireType ==
    /\ up \in Seq(CommandRec) /\ down \in Seq(ReplyRec)
    /\ fate \in [Subs -> Fate] /\ verdict \in [Subs -> Verdict]

\* Until the first tab is there one question is asked at a time, about Root.
StartKept ==
    phase \in {"start", "listing", "opening"} =>
        /\ stack = <<>> /\ pending = <<>> /\ nextSub = Root + 1 /\ active = 1 /\ size = 1
        /\ fwd = [s \in Subs |-> Idle]
        /\ \A s \in Subs \ {Root} : fate[s] = "none" /\ verdict[s] = "none"
        /\ phase # "opening" => fate[Root] = "none" /\ verdict[Root] = "none"
        /\ phase = "opening" => fate[Root] = "pending"
        /\ phase = "start" => up = <<>> /\ down = <<>>
        /\ phase \in {"listing", "opening"} =>
              \/ Len(up) = 1 /\ down = <<>> /\ up[1].t = (IF phase = "listing" THEN "list" ELSE "open")
              \/ Len(down) = 1 /\ up = <<>>
        /\ phase = "listing" => \A m \in Range(down) : m.t = "list"

\* A command means what the TUI has done: it asks for a tab that is awaited, attaches
\* one that was put on the stack, and gives up one that was taken off it.
CommandsKept ==
    \A m \in Range(up) :
        /\ m.t = "list" => phase = "listing"
        /\ m.t = "open" => /\ m.sub \in Subs /\ m.size \in Sizes
                           /\ fate[m.sub] = "pending" /\ verdict[m.sub] = "none"
        /\ m.t = "attach" => /\ m.sub \in Subs /\ m.pane \in Panes
                             /\ fate[m.sub] \in {"tab", "over"}
                             /\ \A i \in DOMAIN stack :
                                   stack[i].sub = m.sub => stack[i].pane = m.pane
        /\ m.t = "resize" => m.pane \in Panes /\ m.size \in Sizes
        /\ m.t = "unsub" => m.sub \in Subs /\ fate[m.sub] = "over"

\* An answer is the verdict on a request that is awaited.
RepliesKept ==
    \A m \in Range(down) :
        /\ m.t = "list" => m.pane \in exists \cup {0}
        /\ m.t = "opened" => /\ m.sub \in Subs /\ m.pane \in exists
                             /\ fate[m.sub] = "pending" /\ verdict[m.sub] = "opened"
        /\ m.t = "openError" => /\ m.sub \in Subs
                                /\ fate[m.sub] = "pending" /\ verdict[m.sub] = "refused"
        /\ m.t = "exit" => m.sub \in Subs

\* Ids grow, the daemon's session is serial and answers stay in order: so the answers
\* in flight, and behind them the requests, line up with App.pending_opens.
LinedUp ==
    Live =>
        /\ \A i, j \in DOMAIN pending : i < j => pending[i].sub < pending[j].sub
        /\ InOrder(down, Answers) /\ InOrder(up, {"open"})
        /\ \A a \in SubsOf(down, Answers) : \A o \in SubsOf(up, {"open"}) : a < o
        /\ SubsOf(down, Answers) \cup SubsOf(up, {"open"}) = {pending[i].sub : i \in DOMAIN pending}
        /\ \A s \in Subs : fate[s] = "pending" <=> \E i \in DOMAIN pending : pending[i].sub = s
        /\ \A s \in Subs : s >= nextSub => fate[s] = "none" /\ verdict[s] = "none"

\* The tabs have subscriptions of their own, on panes that were opened.
TabsKept ==
    /\ Len(stack) + Len(pending) <= nextSub - 1
    /\ \A i \in DOMAIN stack : stack[i].pane \in exists
    /\ Live => \A i \in DOMAIN stack : fate[stack[i].sub] = "tab"
    /\ \A i, j \in DOMAIN stack : i # j => stack[i].sub # stack[j].sub

\* A request's outcome is its own.
FatesKept ==
    \A s \in Subs :
        /\ fate[s] = "failed" => verdict[s] = "refused"
        /\ fate[s] = "tab" /\ s # Root => verdict[s] \in {"opened", "unattached"}

IInv == /\ TypeOK /\ WireType /\ StartKept /\ CommandsKept /\ RepliesKept
        /\ LinedUp /\ TabsKept /\ FatesKept /\ TabIsServed /\ TabFitsTile

\* A type that is not at the head of a queue is not taken from it.
LEMMA TailSubs ==
    ASSUME NEW S, NEW q \in Seq(S), q # <<>>, NEW T, Head(q).t \notin T
    PROVE  SubsOf(Tail(q), T) = SubsOf(q, T)
  BY TailRange DEF SubsOf

\* What an appended message is about.
LEMMA AppendSubs ==
    ASSUME NEW S, NEW q \in Seq(S), NEW m \in S, NEW T
    PROVE  SubsOf(Append(q, m), T) = SubsOf(q, T) \cup (IF m.t \in T THEN {m.sub} ELSE {})
  BY AppendRange DEF SubsOf

\* The initial states.
LEMMA InitIInv == Init => IInv
<1> SUFFICES ASSUME Init PROVE IInv
  OBVIOUS
<1> USE TuiPanesConstants
<1>1. 1 \in Panes /\ 1 \in Subs /\ 1 \in Sizes /\ 2 \in 1 .. MaxSubs + 1
  BY DEF Panes, Subs, Sizes
<1>2. TypeOK
  BY <1>1 DEF TypeOK, Init, Phase, Idle, Root, Panes, Live
<1>3. WireType /\ Range(up) = {} /\ Range(down) = {}
  BY DEF WireType, Init, Fate, Verdict, Range
<1>4. StartKept
  BY <1>1 DEF StartKept, Init, Root
<1>5. CommandsKept /\ RepliesKept /\ LinedUp /\ TabIsServed /\ TabFitsTile
  BY <1>3 DEF CommandsKept, RepliesKept, LinedUp, TabIsServed, TabFitsTile, Live, Init
<1>6. TabsKept /\ FatesKept
  BY DEF TabsKept, FatesKept, Init, Root, Live
<1>7. QED
  BY <1>2, <1>3, <1>4, <1>5, <1>6 DEF IInv

-----------------------------------------------------------------------------
(* What most steps have in common.                                         *)

\* Requests get no new outcome: a tab goes, an attach finds no pane.
Settled ==
    /\ fate' \in [Subs -> Fate] /\ verdict' \in [Subs -> Verdict]
    /\ \A s \in Subs : fate'[s] = fate[s] \/ (fate[s] = "tab" /\ fate'[s] = "over")
    /\ \A s \in Subs : verdict'[s] = verdict[s]
                       \/ (fate[s] \in {"tab", "over"} /\ verdict'[s] = "unattached")

\* Tabs go, none comes.
StackShrinks == \A i \in DOMAIN stack' : \E j \in DOMAIN stack : stack'[i] = stack[j]

\* Commands are taken and none but plain ones are given.
UpPlain ==
    /\ up' \in Seq(CommandRec)
    /\ InOrder(up', {"open"}) /\ SubsOf(up', {"open"}) = SubsOf(up, {"open"})
    /\ \A m \in Range(up') :
          \/ m \in Range(up)
          \/ m.t \in {"input", "close"}
          \/ m.t = "resize" /\ m.pane \in Panes /\ m.size \in Sizes
          \/ m.t = "unsub" /\ m.sub \in Subs /\ fate'[m.sub] = "over"

\* Replies are taken and none that answers an open is given.
DownPlain ==
    /\ down' \in Seq(ReplyRec)
    /\ InOrder(down', Answers) /\ SubsOf(down', Answers) = SubsOf(down, Answers)
    /\ \A m \in Range(down') :
          \/ m \in Range(down)
          \/ m.t \in {"bytes", "paneError"}
          \/ m.t = "exit" /\ m.sub \in Subs

\* A step that asks for no tab and answers no request.
LEMMA PlainStep ==
    ASSUME IInv, Live, Live', Settled, StackShrinks, UpPlain, DownPlain,
           UNCHANGED <<pending, nextSub>>, exists \subseteq exists'
    PROVE  WireType' /\ StartKept' /\ CommandsKept' /\ RepliesKept' /\ LinedUp' /\ FatesKept'
<1>1. WireType' /\ StartKept'
  BY DEF WireType, StartKept, Live, Settled, UpPlain, DownPlain
<1>2. CommandsKept'
  <2>1. SUFFICES ASSUME NEW m \in Range(up')
                 PROVE  /\ m.t = "list" => phase' = "listing"
                        /\ m.t = "open" => /\ m.sub \in Subs /\ m.size \in Sizes
                                           /\ fate'[m.sub] = "pending" /\ verdict'[m.sub] = "none"
                        /\ m.t = "attach" => /\ m.sub \in Subs /\ m.pane \in Panes
                                             /\ fate'[m.sub] \in {"tab", "over"}
                                             /\ \A i \in DOMAIN stack' :
                                                   stack'[i].sub = m.sub => stack'[i].pane = m.pane
                        /\ m.t = "resize" => m.pane \in Panes /\ m.size \in Sizes
                        /\ m.t = "unsub" => m.sub \in Subs /\ fate'[m.sub] = "over"
    BY DEF CommandsKept
  <2>2. CASE m \in Range(up)
    BY <2>2 DEF IInv, CommandsKept, Settled, StackShrinks, Live
  <2>3. CASE m \notin Range(up)
    BY <2>3 DEF UpPlain
  <2>4. QED
    BY <2>2, <2>3
<1>3. RepliesKept'
  <2>1. SUFFICES ASSUME NEW m \in Range(down')
                 PROVE  /\ m.t = "list" => m.pane \in exists' \cup {0}
                        /\ m.t = "opened" => /\ m.sub \in Subs /\ m.pane \in exists'
                                             /\ fate'[m.sub] = "pending" /\ verdict'[m.sub] = "opened"
                        /\ m.t = "openError" => /\ m.sub \in Subs
                                                /\ fate'[m.sub] = "pending" /\ verdict'[m.sub] = "refused"
                        /\ m.t = "exit" => m.sub \in Subs
    BY DEF RepliesKept
  <2>2. CASE m \in Range(down)
    BY <2>2 DEF IInv, RepliesKept, Settled
  <2>3. CASE m \notin Range(down)
    BY <2>3 DEF DownPlain
  <2>4. QED
    BY <2>2, <2>3
<1>4. LinedUp'
  <2>1. LinedUp /\ \A s \in Subs : fate'[s] = "pending" <=> fate[s] = "pending"
    BY DEF IInv, Settled
  <2>2. \A s \in Subs : s >= nextSub => fate'[s] = "none" /\ verdict'[s] = "none"
    BY <2>1 DEF LinedUp, Settled
  <2>3. QED
    BY <2>1, <2>2 DEF LinedUp, UpPlain, DownPlain
<1>5. FatesKept'
  BY DEF IInv, FatesKept, Settled
<1>6. QED
  BY <1>1, <1>2, <1>3, <1>4, <1>5

\* The tabs that stay have what they had.
LEMMA TabsStay ==
    ASSUME IInv, Live, StackShrinks, Len(stack') <= Len(stack), stack' \in Seq(PaneEntry),
           UNCHANGED <<pending, nextSub>>, exists \subseteq exists',
           \A i, j \in DOMAIN stack' : i # j => stack'[i].sub # stack'[j].sub,
           Live' => \A i \in DOMAIN stack' : fate'[stack'[i].sub] = "tab"
    PROVE  TabsKept'
<1>1. TabsKept /\ nextSub \in Int /\ Len(stack) \in Int /\ Len(pending) \in Int
  BY DEF IInv, TypeOK
<1>2. Len(stack') \in Int
  OBVIOUS
<1>3. Len(stack') + Len(pending') <= nextSub' - 1
  BY <1>1, <1>2 DEF TabsKept
<1>4. \A i \in DOMAIN stack' : stack'[i].pane \in exists'
  BY <1>1 DEF TabsKept, StackShrinks
<1>5. QED
  BY <1>3, <1>4 DEF TabsKept

\* A tab is served as long as nothing that serves it is taken.
LEMMA ServedStays ==
    ASSUME IInv, Live, StackShrinks, Settled,
           \A i \in DOMAIN stack' : LET s == stack'[i].sub IN
               /\ s \in SubsOf(up, {"attach"}) => s \in SubsOf(up', {"attach"})
               /\ s \in SubsOf(down, {"exit"}) => s \in SubsOf(down', {"exit"})
               /\ fwd'[s] = fwd[s]
    PROVE  TabIsServed'
<1>1. SUFFICES ASSUME NEW i \in DOMAIN stack'
               PROVE  LET s == stack'[i].sub IN
                      \/ InFlight(up', "attach", s) \/ InFlight(down', "exit", s)
                      \/ fwd'[s].pane = stack'[i].pane /\ fwd'[s].st \in {"new", "live"}
                      \/ verdict'[s] = "unattached"
  BY DEF TabIsServed, InFlight
<1> DEFINE s == stack'[i].sub
<1>2. PICK j \in DOMAIN stack : stack'[i] = stack[j]
  BY DEF StackShrinks
<1>3. s \in Subs
  <2>1. stack[j] \in PaneEntry
    BY <1>2 DEF IInv, TypeOK
  <2>2. QED
    BY <1>2, <2>1 DEF PaneEntry
<1>4. \/ InFlight(up, "attach", s) \/ InFlight(down, "exit", s)
      \/ fwd[s].pane = stack[j].pane /\ fwd[s].st \in {"new", "live"}
      \/ verdict[s] = "unattached"
  BY <1>2 DEF IInv, TabIsServed
<1>5. verdict[s] = "unattached" => verdict'[s] = "unattached"
  BY <1>3 DEF Settled
<1>6. /\ InFlight(up, "attach", s) => InFlight(up', "attach", s)
      /\ InFlight(down, "exit", s) => InFlight(down', "exit", s)
  BY InFlightSubs
<1>7. QED
  BY <1>2, <1>4, <1>5, <1>6

-----------------------------------------------------------------------------
(* The size of a pane that is drawn.                                       *)

Resizes(q, p) == {j \in DOMAIN q : q[j].t = "resize" /\ q[j].pane = p}

\* The size that p ends up with, once q was handled, is z; it has size now.
Fits(q, p, z, now) ==
    IF Resizes(q, p) = {} THEN now = z
    ELSE \E j \in Resizes(q, p) : (\A k \in Resizes(q, p) : k <= j) /\ q[j].size = z

\* TabFitsTile in these terms.
LEMMA FitsTile ==
    TabFitsTile <=>
        (Live => \A i \in DOMAIN stack :
            stack[i].pane \in listed => Fits(up, stack[i].pane, size, paneSize[stack[i].pane]))
  BY DEF TabFitsTile, Fits, Resizes

\* The same of the next state.
LEMMA FitsTileNext ==
    TabFitsTile' <=>
        (Live' => \A i \in DOMAIN stack' :
            stack'[i].pane \in listed' =>
                Fits(up', stack'[i].pane, size', paneSize'[stack'[i].pane]))
  BY DEF TabFitsTile, Fits, Resizes

\* What is no resize of the pane changes nothing for it.
LEMMA FitsJoin ==
    ASSUME NEW S, NEW q \in Seq(S), NEW r \in Seq(S), NEW p, NEW z, NEW now,
           Fits(q, p, z, now), Resizes(r, p) = {}
    PROVE  Fits(q \o r, p, z, now)
<1>1. /\ Len(q \o r) = Len(q) + Len(r)
      /\ \A i \in 1 .. Len(q) : (q \o r)[i] = q[i]
      /\ \A i \in 1 .. Len(r) : (q \o r)[Len(q) + i] = r[i]
      /\ DOMAIN q = 1 .. Len(q) /\ DOMAIN (q \o r) = 1 .. Len(q) + Len(r)
      /\ Len(q) \in Nat /\ Len(r) \in Nat
  BY JoinRange
<1>2. Resizes(q \o r, p) = Resizes(q, p)
  <2>1. ASSUME NEW j \in DOMAIN (q \o r), j \notin DOMAIN q, j \in Resizes(q \o r, p)
        PROVE  FALSE
    <3>1. j - Len(q) \in 1 .. Len(r) /\ Len(q) + (j - Len(q)) = j
      BY <1>1, <2>1
    <3>2. (q \o r)[j] = r[j - Len(q)] /\ j - Len(q) \in DOMAIN r
      BY <1>1, <3>1
    <3>3. QED
      BY <2>1, <3>2 DEF Resizes
  <2>2. \A j \in DOMAIN q : j \in DOMAIN (q \o r) /\ (q \o r)[j] = q[j]
    BY <1>1
  <2>3. QED
    BY <2>1, <2>2 DEF Resizes
<1>3. \A j \in Resizes(q, p) : (q \o r)[j] = q[j]
  BY <1>1 DEF Resizes
<1>4. QED
  BY <1>2, <1>3 DEF Fits

\* A resize that comes last decides.
LEMMA FitsLast ==
    ASSUME NEW S, NEW q \in Seq(S), NEW j \in DOMAIN q, NEW p, NEW z, NEW now,
           j \in Resizes(q, p), \A k \in Resizes(q, p) : k <= j, q[j].size = z
    PROVE  Fits(q, p, z, now)
  BY DEF Fits

\* Taking the head of the queue: a resize of the pane takes effect.
LEMMA FitsTail ==
    ASSUME NEW S, NEW q \in Seq(S), q # <<>>, NEW p, NEW z, NEW now, NEW then,
           Fits(q, p, z, now),
           1 \in Resizes(q, p) => then = Head(q).size,
           1 \notin Resizes(q, p) => then = now
    PROVE  Fits(Tail(q), p, z, then)
<1> DEFINE r == Tail(q)
<1>1. /\ Len(r) = Len(q) - 1 /\ Len(q) > 0 /\ Head(q) = q[1]
      /\ \A i \in 1 .. Len(q) - 1 : r[i] = q[i + 1] /\ i + 1 \in 1 .. Len(q)
      /\ DOMAIN q = 1 .. Len(q) /\ DOMAIN r = 1 .. Len(q) - 1 /\ Len(q) \in Nat
  BY TailRange
<1>2. \A i \in 1 .. Len(q) - 1 : i \in Resizes(r, p) <=> i + 1 \in Resizes(q, p)
  BY <1>1 DEF Resizes
<1>3. \A j \in Resizes(q, p) : j # 1 => j - 1 \in Resizes(r, p) /\ r[j - 1] = q[j]
  <2>1. SUFFICES ASSUME NEW j \in Resizes(q, p), j # 1
                 PROVE  j - 1 \in Resizes(r, p) /\ r[j - 1] = q[j]
    OBVIOUS
  <2>2. j \in 1 .. Len(q)
    BY <1>1 DEF Resizes
  <2>3. j - 1 \in 1 .. Len(q) - 1 /\ (j - 1) + 1 = j
    BY <2>1, <2>2
  <2>4. QED
    BY <1>1, <1>2, <2>3
<1>4. CASE Resizes(q, p) = {}
  <2>1. Resizes(r, p) = {}
    BY <1>1, <1>2, <1>4 DEF Resizes
  <2>2. QED
    BY <1>4, <2>1 DEF Fits
<1>5. CASE Resizes(q, p) # {}
  <2>1. PICK j \in Resizes(q, p) : (\A k \in Resizes(q, p) : k <= j) /\ q[j].size = z
    BY <1>5 DEF Fits
  <2>2. CASE j = 1
    <3>1. Resizes(r, p) = {}
      <4>1. ASSUME NEW k \in Resizes(r, p) PROVE FALSE
        <5>1. k \in 1 .. Len(q) - 1
          BY <1>1 DEF Resizes
        <5>2. k + 1 <= 1
          BY <1>2, <2>1, <2>2, <5>1
        <5>3. QED
          BY <5>1, <5>2
      <4>2. QED
        BY <4>1
    <3>2. QED
      BY <1>1, <2>1, <2>2, <3>1 DEF Fits
  <2>3. CASE j # 1
    <3>1. j - 1 \in Resizes(r, p) /\ r[j - 1] = q[j] /\ j \in 1 .. Len(q)
      BY <1>1, <1>3, <2>3 DEF Resizes
    <3>2. ASSUME NEW k \in Resizes(r, p) PROVE k <= j - 1
      <4>1. k \in 1 .. Len(q) - 1
        BY <1>1 DEF Resizes
      <4>2. k + 1 <= j
        BY <1>2, <2>1, <4>1
      <4>3. QED
        BY <3>1, <4>1, <4>2
    <3>3. QED
      BY <2>1, <3>1, <3>2 DEF Fits
  <2>4. QED
    BY <2>2, <2>3
<1>6. QED
  BY <1>4, <1>5

-----------------------------------------------------------------------------
(* Taking from and giving to the queues.                                   *)

\* Nothing of the queues is touched.
LEMMA SameUp == ASSUME IInv, Live, UNCHANGED up PROVE UpPlain
  BY DEF IInv, WireType, LinedUp, UpPlain

LEMMA SameDown == ASSUME IInv, Live, UNCHANGED down PROVE DownPlain
  BY DEF IInv, WireType, LinedUp, DownPlain

\* The daemon takes a command that opens nothing.
LEMMA UpTaken ==
    ASSUME IInv, Live, up # <<>>, up' = Tail(up), Head(up).t # "open"
    PROVE  /\ UpPlain
           /\ Head(up) \in Range(up) /\ Head(up) \in CommandRec
           /\ \A T : Head(up).t \notin T => SubsOf(up', T) = SubsOf(up, T)
<1>1. up \in Seq(CommandRec) /\ InOrder(up, {"open"})
  BY DEF IInv, WireType, LinedUp
<1>2. \A m \in Range(up) : m.sub \in Int
  <2>1. \A m \in CommandRec : m.sub \in Int
    BY TuiPanesConstants DEF CommandRec
  <2>2. QED
    BY <1>1, <2>1 DEF Range
<1>3. /\ up' \in Seq(CommandRec) /\ Head(up) \in Range(up) /\ Head(up) \in CommandRec
      /\ Range(up') \subseteq Range(up)
  BY <1>1, TailRange
<1>4. InOrder(up', {"open"}) /\ SubsOf(up', {"open"}) = SubsOf(up, {"open"})
  BY <1>1, <1>2, TailInOrder
<1>5. QED
  BY <1>1, <1>3, <1>4, TailSubs DEF UpPlain

\* The TUI gives commands that ask for nothing.
LEMMA UpGiven ==
    ASSUME IInv, Live, NEW r \in Seq(CommandRec), up' = up \o r,
           \A m \in Range(r) :
              \/ m.t \in {"input", "close"}
              \/ m.t = "resize" /\ m.pane \in Panes /\ m.size \in Sizes
              \/ m.t = "unsub" /\ m.sub \in Subs /\ fate'[m.sub] = "over"
    PROVE  /\ UpPlain
           /\ \A T : SubsOf(up, T) \subseteq SubsOf(up', T)
<1>1. up \in Seq(CommandRec) /\ InOrder(up, {"open"})
  BY DEF IInv, WireType, LinedUp
<1>2. up' \in Seq(CommandRec) /\ Range(up') = Range(up) \cup Range(r)
  BY <1>1, JoinRange
<1>3. \A m \in Range(r) : m.t \notin {"open"}
  OBVIOUS
<1>4. InOrder(up', {"open"}) /\ SubsOf(up', {"open"}) = SubsOf(up, {"open"})
  BY <1>1, <1>3, JoinInOrder
<1>5. \A T : SubsOf(up, T) \subseteq SubsOf(up', T)
  BY <1>2 DEF SubsOf
<1>6. QED
  BY <1>2, <1>4, <1>5 DEF UpPlain

\* The TUI takes a reply that answers no request.
LEMMA DownTaken ==
    ASSUME IInv, Live, down # <<>>, down' = Tail(down), Head(down).t \notin Answers
    PROVE  /\ DownPlain
           /\ Head(down) \in Range(down) /\ Head(down) \in ReplyRec
           /\ \A T : Head(down).t \notin T => SubsOf(down', T) = SubsOf(down, T)
<1>1. down \in Seq(ReplyRec) /\ InOrder(down, Answers)
  BY DEF IInv, WireType, LinedUp
<1>2. \A m \in Range(down) : m.sub \in Int
  <2>1. \A m \in ReplyRec : m.sub \in Int
    BY TuiPanesConstants DEF ReplyRec
  <2>2. QED
    BY <1>1, <2>1 DEF Range
<1>3. /\ down' \in Seq(ReplyRec) /\ Head(down) \in Range(down) /\ Head(down) \in ReplyRec
      /\ Range(down') \subseteq Range(down)
  BY <1>1, TailRange
<1>4. InOrder(down', Answers) /\ SubsOf(down', Answers) = SubsOf(down, Answers)
  BY <1>1, <1>2, TailInOrder
<1>5. QED
  BY <1>1, <1>3, <1>4, TailSubs DEF DownPlain

\* The daemon says what answers no request.
LEMMA DownGiven ==
    ASSUME IInv, Live, NEW m \in ReplyRec, down' = Append(down, m),
           m.t \in {"bytes", "paneError"} \/ (m.t = "exit" /\ m.sub \in Subs)
    PROVE  /\ DownPlain
           /\ \A T : SubsOf(down', T) = SubsOf(down, T) \cup (IF m.t \in T THEN {m.sub} ELSE {})
<1>1. down \in Seq(ReplyRec) /\ InOrder(down, Answers)
  BY DEF IInv, WireType, LinedUp
<1>2. down' \in Seq(ReplyRec) /\ Range(down') = Range(down) \cup {m}
  BY <1>1, AppendRange
<1>3. m.t \notin Answers
  BY DEF Answers
<1>4. InOrder(down', Answers)
  BY <1>1, <1>3, AppendInOrder
<1>5. \A T : SubsOf(down', T) = SubsOf(down, T) \cup (IF m.t \in T THEN {m.sub} ELSE {})
  BY <1>1, AppendSubs
<1>6. QED
  BY <1>2, <1>3, <1>4, <1>5 DEF DownPlain

-----------------------------------------------------------------------------
(* The daemon's steps, once the TUI runs.                                  *)

\* A command that is neither of the start's two is asked of a running TUI.
LEMMA AskedLive ==
    ASSUME IInv, phase \notin {"ended", "crashed"}, up # <<>>, Head(up).t \notin {"list", "open"}
    PROVE  Live
<1>1. phase \in Phase /\ up \in Seq(CommandRec)
  BY DEF IInv, TypeOK, WireType
<1>2. Head(up) = up[1]
  BY <1>1
<1>3. phase \notin {"start", "listing", "opening"}
  BY <1>2 DEF IInv, StartKept
<1>4. QED
  BY <1>1, <1>3 DEF Live, Phase

\* So is a forwarder only run for one.
LEMMA ForwardedLive ==
    ASSUME IInv, phase \notin {"ended", "crashed"}, NEW s \in Subs, fwd[s].st # "none"
    PROVE  Live
<1>1. phase \in Phase
  BY DEF IInv, TypeOK
<1>2. phase \notin {"start", "listing", "opening"}
  BY DEF IInv, StartKept, Idle
<1>3. QED
  BY <1>1, <1>2 DEF Live, Phase

\* The tabs while the TUI does nothing.
LEMMA TuiRests ==
    ASSUME IInv, Live, UNCHANGED tuiVars, exists \subseteq exists'
    PROVE  /\ Live' /\ StackShrinks /\ TabsKept'
           /\ \A i \in DOMAIN stack : stack[i].sub \in Subs /\ stack[i].pane \in Panes
                                      /\ fate[stack[i].sub] = "tab"
<1>1. Live' /\ StackShrinks /\ TabsKept'
  BY DEF tuiVars, Live, StackShrinks, IInv, TabsKept
<1>2. \A i \in DOMAIN stack : stack[i] \in PaneEntry
  BY DEF IInv, TypeOK
<1>3. QED
  BY <1>1, <1>2 DEF IInv, TabsKept, PaneEntry

\* A step of the daemon that changes no verdict and no size.
LEMMA DaemonPlain ==
    ASSUME IInv, Live, UNCHANGED <<tuiVars, verdict>>, UpPlain, DownPlain,
           exists \subseteq exists'
    PROVE  /\ WireType' /\ StartKept' /\ CommandsKept' /\ RepliesKept' /\ LinedUp'
           /\ FatesKept' /\ TabsKept' /\ Settled /\ StackShrinks
<1>1. Settled
  BY DEF Settled, tuiVars, IInv, WireType
<1>2. QED
  BY <1>1, TuiRests, PlainStep DEF tuiVars

\* The size of a drawn pane, when the daemon's step sets none.
LEMMA SizesStay ==
    ASSUME IInv, Live, UNCHANGED <<tuiVars, paneSize>>, listed' \subseteq listed,
           up' = up \/ (up # <<>> /\ up' = Tail(up) /\ Head(up).t # "resize")
    PROVE  TabFitsTile'
<1>1. up \in Seq(CommandRec)
  BY DEF IInv, WireType
<1>2. ASSUME NEW i \in DOMAIN stack, stack[i].pane \in listed
      PROVE  Fits(up', stack[i].pane, size, paneSize[stack[i].pane])
  <2>1. Fits(up, stack[i].pane, size, paneSize[stack[i].pane])
    BY <1>2, FitsTile DEF IInv
  <2>2. CASE up' = up
    BY <2>1, <2>2
  <2>3. CASE up # <<>> /\ up' = Tail(up) /\ Head(up).t # "resize"
    <3>1. 1 \notin Resizes(up, stack[i].pane)
      BY <1>1, <2>3 DEF Resizes
    <3>2. QED
      BY <1>1, <2>1, <2>3, <3>1, FitsTail
  <2>4. QED
    BY <2>2, <2>3
<1>3. Live' => \A i \in DOMAIN stack' : stack'[i].pane \in listed' =>
                  Fits(up', stack'[i].pane, size', paneSize'[stack'[i].pane])
  BY <1>2 DEF tuiVars
<1>4. QED
  BY <1>3, FitsTile, FitsTileNext

LEMMA DaemonAttachesStep ==
    ASSUME IInv, Live, DaemonAttaches PROVE IInv'
<1> DEFINE m == Head(up)
<1>0. up # <<>> /\ m.t = "attach" /\ up' = Tail(up)
  BY DEF DaemonAttaches, Asked
<1>1. /\ UpPlain /\ m \in Range(up) /\ m \in CommandRec
      /\ up \in Seq(CommandRec) /\ down \in Seq(ReplyRec)
  BY <1>0, UpTaken DEF IInv, WireType
<1>2. /\ m.sub \in Subs /\ m.pane \in Panes /\ fate[m.sub] \in {"tab", "over"}
      /\ \A i \in DOMAIN stack : stack[i].sub = m.sub => stack[i].pane = m.pane
  BY <1>0, <1>1 DEF IInv, CommandsKept
<1>3. UNCHANGED <<tuiVars, exists, listed, alive, paneSize>>
  BY DEF DaemonAttaches
<1>4. \/ /\ fwd' = [fwd EXCEPT ![m.sub] = [pane |-> m.pane, st |-> "new"]]
         /\ UNCHANGED <<down, verdict>>
      \/ /\ down' = Append(down, Reply("paneError", m.pane, m.sub))
         /\ verdict' = [verdict EXCEPT ![m.sub] = "unattached"]
         /\ UNCHANGED fwd
  BY DEF DaemonAttaches, Say
<1>5. Reply("paneError", m.pane, m.sub) \in ReplyRec
  BY <1>2, TuiPanesConstants DEF Reply, ReplyRec, Panes, Subs
<1>6. /\ DownPlain
      /\ \A T : SubsOf(down, T) \subseteq SubsOf(down', T)
  <2>1. CASE UNCHANGED down
    BY <2>1, SameDown
  <2>2. CASE down' = Append(down, Reply("paneError", m.pane, m.sub))
    BY <1>5, <2>2, DownGiven DEF Reply
  <2>3. QED
    BY <1>4, <2>1, <2>2
<1>7. Settled
  BY <1>2, <1>3, <1>4 DEF Settled, IInv, WireType, tuiVars, Verdict
<1>8. /\ WireType' /\ StartKept' /\ CommandsKept' /\ RepliesKept' /\ LinedUp' /\ FatesKept'
      /\ TabsKept'
  BY <1>1, <1>3, <1>6, <1>7, TuiRests, PlainStep DEF tuiVars
<1>9. TypeOK'
  <2>1. m.pane \in 0 .. MaxPanes
    BY <1>1 DEF CommandRec
  <2>2. fwd' \in [Subs -> [pane : 0 .. MaxPanes,
                          st : {"none", "new", "live", "aborted", "over"}]]
    BY <1>2, <1>4, <2>1 DEF IInv, TypeOK
  <2>3. QED
    BY <1>3, <2>2 DEF IInv, TypeOK, tuiVars, Live
<1>10. TabIsServed'
  <2>1. SUFFICES ASSUME NEW i \in DOMAIN stack
                 PROVE  LET s == stack[i].sub IN
                        \/ InFlight(up', "attach", s) \/ InFlight(down', "exit", s)
                        \/ fwd'[s].pane = stack[i].pane /\ fwd'[s].st \in {"new", "live"}
                        \/ verdict'[s] = "unattached"
    BY <1>3 DEF TabIsServed, InFlight, tuiVars
  <2> DEFINE s == stack[i].sub
  <2>2. s \in Subs
    BY TuiRests, <1>3
  <2>3. \/ InFlight(up, "attach", s) \/ InFlight(down, "exit", s)
        \/ fwd[s].pane = stack[i].pane /\ fwd[s].st \in {"new", "live"}
        \/ verdict[s] = "unattached"
    BY DEF IInv, TabIsServed
  <2>4. CASE s = m.sub
    BY <1>2, <1>4, <2>4 DEF IInv, TypeOK, WireType
  <2>5. CASE s # m.sub
    <3>1. fwd'[s] = fwd[s] /\ verdict'[s] = verdict[s]
      BY <1>4, <2>2, <2>5 DEF IInv, TypeOK, WireType
    <3>2. Range(up) = Range(up') \cup {m}
      BY <1>0, <1>1, TailRange
    <3>3. s \in SubsOf(up, {"attach"}) => s \in SubsOf(up', {"attach"})
      BY <2>5, <3>2 DEF SubsOf
    <3>4. QED
      BY <1>6, <2>3, <3>1, <3>3, InFlightSubs
  <2>6. QED
    BY <2>4, <2>5
<1>11. TabFitsTile'
  BY <1>0, <1>3, SizesStay
<1>12. QED
  BY <1>8, <1>9, <1>10, <1>11 DEF IInv

\* An unsubscribed forwarder belongs to a tab that has gone.
LEMMA DaemonUnsubscribesStep ==
    ASSUME IInv, Live, DaemonUnsubscribes PROVE IInv'
<1> DEFINE m == Head(up)
<1>0. up # <<>> /\ m.t = "unsub" /\ up' = Tail(up)
  BY DEF DaemonUnsubscribes, Asked
<1>1. /\ UpPlain /\ m \in Range(up)
      /\ SubsOf(up', {"attach"}) = SubsOf(up, {"attach"})
  BY <1>0, UpTaken
<1>2. m.sub \in Subs /\ fate[m.sub] = "over"
  BY <1>0, <1>1 DEF IInv, CommandsKept
<1>3. UNCHANGED <<tuiVars, down, exists, listed, alive, paneSize, verdict>>
  BY DEF DaemonUnsubscribes
<1>4. /\ fwd' \in [Subs -> [pane : 0 .. MaxPanes,
                            st : {"none", "new", "live", "aborted", "over"}]]
      /\ \A s \in Subs \ {m.sub} : fwd'[s] = fwd[s]
  BY <1>2 DEF DaemonUnsubscribes, IInv, TypeOK
<1>5. /\ WireType' /\ StartKept' /\ CommandsKept' /\ RepliesKept' /\ LinedUp'
      /\ FatesKept' /\ TabsKept' /\ Settled /\ StackShrinks
  BY <1>1, <1>3, SameDown, DaemonPlain
<1>6. TypeOK'
  BY <1>3, <1>4 DEF IInv, TypeOK, tuiVars, Live
<1>7. TabIsServed'
  <2>1. \A i \in DOMAIN stack' : stack'[i].sub \in Subs /\ stack'[i].sub # m.sub
    BY <1>2, <1>3, TuiRests DEF tuiVars
  <2>2. \A i \in DOMAIN stack' : fwd'[stack'[i].sub] = fwd[stack'[i].sub]
    BY <1>4, <2>1
  <2>3. QED
    BY <1>1, <1>3, <1>5, <2>2, ServedStays
<1>8. TabFitsTile'
  BY <1>0, <1>3, SizesStay
<1>9. QED
  BY <1>5, <1>6, <1>7, <1>8 DEF IInv

\* Input that is passed on, and a pane that is taken off the map.
LEMMA DaemonTypesStep ==
    ASSUME IInv, Live, DaemonTypes \/ DaemonCloses PROVE IInv'
<1>0. up # <<>> /\ Head(up).t \in {"input", "close"} /\ up' = Tail(up)
  BY DEF DaemonTypes, DaemonCloses, Asked
<1>1. UpPlain /\ SubsOf(up', {"attach"}) = SubsOf(up, {"attach"})
  BY <1>0, UpTaken
<1>2. /\ UNCHANGED <<tuiVars, down, exists, alive, paneSize, verdict, fwd>>
      /\ listed' \subseteq listed
  BY DEF DaemonTypes, DaemonCloses, daemonVars
<1>3. /\ WireType' /\ StartKept' /\ CommandsKept' /\ RepliesKept' /\ LinedUp'
      /\ FatesKept' /\ TabsKept' /\ Settled /\ StackShrinks
  BY <1>1, <1>2, SameDown, DaemonPlain
<1>4. TypeOK'
  BY <1>2 DEF IInv, TypeOK, tuiVars, Live
<1>5. TabIsServed'
  BY <1>1, <1>2, <1>3, ServedStays
<1>6. TabFitsTile'
  BY <1>0, <1>2, SizesStay
<1>7. QED
  BY <1>3, <1>4, <1>5, <1>6 DEF IInv

\* A resize that is handled is no longer under way, and has its effect.
LEMMA DaemonResizesStep ==
    ASSUME IInv, Live, DaemonResizes PROVE IInv'
<1> DEFINE m == Head(up)
<1>0. up # <<>> /\ m.t = "resize" /\ up' = Tail(up)
  BY DEF DaemonResizes, Asked
<1>1. /\ UpPlain /\ m \in Range(up) /\ up \in Seq(CommandRec)
      /\ SubsOf(up', {"attach"}) = SubsOf(up, {"attach"})
  BY <1>0, UpTaken DEF IInv, WireType
<1>2. m.pane \in Panes /\ m.size \in Sizes
  BY <1>0, <1>1 DEF IInv, CommandsKept
<1>3. UNCHANGED <<tuiVars, down, exists, listed, alive, fwd, verdict>>
  BY DEF DaemonResizes
<1>4. /\ paneSize' \in [Panes -> Sizes]
      /\ m.pane \in listed => paneSize'[m.pane] = m.size
      /\ \A p \in Panes \ {m.pane} : paneSize'[p] = paneSize[p]
  BY <1>2 DEF DaemonResizes, IInv, TypeOK
<1>5. /\ WireType' /\ StartKept' /\ CommandsKept' /\ RepliesKept' /\ LinedUp'
      /\ FatesKept' /\ TabsKept' /\ Settled /\ StackShrinks
  BY <1>1, <1>3, SameDown, DaemonPlain
<1>6. TypeOK'
  BY <1>3, <1>4 DEF IInv, TypeOK, tuiVars, Live
<1>7. TabIsServed'
  BY <1>1, <1>3, <1>5, ServedStays
<1>8. ASSUME NEW i \in DOMAIN stack, stack[i].pane \in listed
      PROVE  Fits(up', stack[i].pane, size, paneSize'[stack[i].pane])
  <2> DEFINE p == stack[i].pane
  <2>1. Fits(up, p, size, paneSize[p]) /\ p \in Panes
    BY <1>3, <1>8, FitsTile, TuiRests DEF IInv
  <2>2. 1 \in Resizes(up, p) <=> p = m.pane
    BY <1>0, <1>1, TailRange DEF Resizes
  <2>3. 1 \in Resizes(up, p) => paneSize'[p] = m.size
    BY <1>4, <1>8, <2>2
  <2>4. 1 \notin Resizes(up, p) => paneSize'[p] = paneSize[p]
    BY <1>4, <2>1, <2>2
  <2>5. QED
    BY <1>0, <1>1, <2>1, <2>3, <2>4, FitsTail
<1>9. TabFitsTile'
  <2>1. Live' => \A i \in DOMAIN stack' : stack'[i].pane \in listed' =>
                    Fits(up', stack'[i].pane, size', paneSize'[stack'[i].pane])
    BY <1>3, <1>8 DEF tuiVars
  <2>2. QED
    BY <2>1, FitsTileNext
<1>10. QED
  BY <1>5, <1>6, <1>7, <1>9 DEF IInv

\* What a forwarder says to a tab feeds it or tells it of its end.
LEMMA ForwardsStep ==
    ASSUME IInv, Live, NEW s \in Subs, NEW from, NEW t, NEW to, Forwards(s, from, t, to),
           \/ from \in {"new", "live"} /\ t = "bytes" /\ to = "live"
           \/ from = "live" /\ t = "exit" /\ to = "over"
           \/ from = "aborted" /\ t \in {"bytes", "exit"} /\ to = "over"
    PROVE  IInv'
<1> DEFINE m == Reply(t, 0, s)
<1>1. m \in ReplyRec /\ m.t = t /\ m.sub = s
  BY TuiPanesConstants DEF Reply, ReplyRec, Subs
<1>2. /\ fwd[s].st = from /\ down' = Append(down, m)
      /\ UNCHANGED <<tuiVars, up, exists, listed, alive, paneSize, verdict>>
      /\ fwd' = [fwd EXCEPT ![s].st = to]
  BY DEF Forwards, Say
<1>3. DownPlain /\ SubsOf(down, {"exit"}) \subseteq SubsOf(down', {"exit"})
      /\ (t = "exit" => s \in SubsOf(down', {"exit"}))
  BY <1>1, <1>2, DownGiven
<1>4. /\ WireType' /\ StartKept' /\ CommandsKept' /\ RepliesKept' /\ LinedUp'
      /\ FatesKept' /\ TabsKept' /\ Settled /\ StackShrinks
  BY <1>2, <1>3, SameUp, DaemonPlain
<1>5. /\ fwd' \in [Subs -> [pane : 0 .. MaxPanes,
                            st : {"none", "new", "live", "aborted", "over"}]]
      /\ fwd'[s].st = to /\ fwd'[s].pane = fwd[s].pane
      /\ \A r \in Subs \ {s} : fwd'[r] = fwd[r]
  BY <1>2 DEF IInv, TypeOK
<1>6. TypeOK'
  BY <1>2, <1>5 DEF IInv, TypeOK, tuiVars, Live
<1>7. TabIsServed'
  <2>1. SUFFICES ASSUME NEW i \in DOMAIN stack
                 PROVE  LET r == stack[i].sub IN
                        \/ InFlight(up', "attach", r) \/ InFlight(down', "exit", r)
                        \/ fwd'[r].pane = stack[i].pane /\ fwd'[r].st \in {"new", "live"}
                        \/ verdict'[r] = "unattached"
    BY <1>2 DEF TabIsServed, InFlight, tuiVars
  <2> DEFINE r == stack[i].sub
  <2>2. r \in Subs
    BY TuiRests, <1>2
  <2>3. \/ InFlight(up, "attach", r) \/ InFlight(down, "exit", r)
        \/ fwd[r].pane = stack[i].pane /\ fwd[r].st \in {"new", "live"}
        \/ verdict[r] = "unattached"
    BY DEF IInv, TabIsServed
  <2>4. InFlight(down, "exit", r) => InFlight(down', "exit", r)
    BY <1>3, InFlightSubs
  <2>5. CASE r # s
    BY <1>2, <1>5, <2>2, <2>3, <2>4, <2>5
  <2>6. CASE r = s /\ t = "exit"
    BY <1>3, <2>6, InFlightSubs
  <2>7. CASE r = s /\ t = "bytes"
    BY <1>2, <1>5, <2>3, <2>4, <2>7
  <2>8. QED
    BY <2>5, <2>6, <2>7
<1>8. TabFitsTile'
  BY <1>2, SizesStay
<1>9. QED
  BY <1>4, <1>6, <1>7, <1>8 DEF IInv

\* An aborted forwarder that says nothing more was no tab's.
LEMMA DroppedStep ==
    ASSUME IInv, Live, NEW s \in Subs, Dropped(s) PROVE IInv'
<1>1. /\ fwd[s].st = "aborted" /\ fwd' = [fwd EXCEPT ![s].st = "over"]
      /\ UNCHANGED <<tuiVars, up, down, exists, listed, alive, paneSize, verdict>>
  BY DEF Dropped
<1>2. /\ WireType' /\ StartKept' /\ CommandsKept' /\ RepliesKept' /\ LinedUp'
      /\ FatesKept' /\ TabsKept' /\ Settled /\ StackShrinks
  BY <1>1, SameUp, SameDown, DaemonPlain
<1>3. /\ fwd' \in [Subs -> [pane : 0 .. MaxPanes,
                            st : {"none", "new", "live", "aborted", "over"}]]
      /\ \A r \in Subs \ {s} : fwd'[r] = fwd[r]
  BY <1>1 DEF IInv, TypeOK
<1>4. TypeOK'
  BY <1>1, <1>3 DEF IInv, TypeOK, tuiVars, Live
<1>5. TabIsServed'
  <2>1. \A i \in DOMAIN stack : stack[i].sub \in Subs
    BY TuiRests, <1>1
  <2>2. SUFFICES ASSUME NEW i \in DOMAIN stack
                 PROVE  LET r == stack[i].sub IN
                        \/ InFlight(up, "attach", r) \/ InFlight(down, "exit", r)
                        \/ fwd'[r].pane = stack[i].pane /\ fwd'[r].st \in {"new", "live"}
                        \/ verdict[r] = "unattached"
    BY <1>1 DEF TabIsServed, InFlight, tuiVars
  <2>3. QED
    BY <1>1, <1>3, <2>1 DEF IInv, TabIsServed
<1>6. TabFitsTile'
  BY <1>1, SizesStay
<1>7. QED
  BY <1>2, <1>4, <1>5, <1>6 DEF IInv

\* A step that none of this is about: a child exits, a pane is closed by another
\* client, the focus moves.
LEMMA ApartStep ==
    ASSUME IInv, TypeOK', listed' \subseteq listed, Live \/ UNCHANGED active,
           UNCHANGED <<phase, stack, pending, size, nextSub, fate, up, down,
                       exists, paneSize, fwd, verdict>>
    PROVE  IInv'
<1>1. WireType' /\ StartKept' /\ CommandsKept' /\ RepliesKept' /\ LinedUp' /\ FatesKept' /\ TabsKept'
  BY DEF IInv, WireType, StartKept, CommandsKept, RepliesKept, LinedUp, FatesKept, TabsKept, Live
<1>2. TabIsServed'
  BY DEF IInv, TabIsServed, InFlight, Live
<1>3. TabFitsTile'
  BY DEF IInv, TabFitsTile, Live
<1>4. QED
  BY <1>1, <1>2, <1>3 DEF IInv

-----------------------------------------------------------------------------
(* The TUI's steps that ask for no tab.                                    *)

\* Appending is joining; a queue of one or two.
LEMMA FewMessages ==
    ASSUME NEW S, NEW q \in Seq(S), NEW a \in S
    PROVE  Append(q, a) = q \o <<a>> /\ <<a>> \in Seq(S) /\ Range(<<a>>) = {a}
<1>1. Append(q, a) = q \o <<a>> /\ <<a>> \in Seq(S)
  OBVIOUS
<1>2. DOMAIN <<a>> = {1} /\ <<a>>[1] = a
  OBVIOUS
<1>3. QED
  BY <1>1, <1>2 DEF Range

LEMMA TwoMessages ==
    ASSUME NEW S, NEW a \in S, NEW b \in S
    PROVE  <<a, b>> \in Seq(S) /\ Range(<<a, b>>) = {a, b}
<1>1. <<a, b>> \in Seq(S)
  OBVIOUS
<1>2. DOMAIN <<a, b>> = {1, 2} /\ <<a, b>>[1] = a /\ <<a, b>>[2] = b
  OBVIOUS
<1>3. QED
  BY <1>1, <1>2 DEF Range

\* A sequence without its i-th element.
LEMMA RemoveAtElements ==
    ASSUME NEW S, NEW q \in Seq(S), NEW i \in 1 .. Len(q)
    PROVE  /\ RemoveAt(q, i) \in Seq(S) /\ Len(RemoveAt(q, i)) = Len(q) - 1
           /\ \A j \in 1 .. Len(q) - 1 :
                 RemoveAt(q, i)[j] = q[IF j < i THEN j ELSE j + 1]
<1> DEFINE a == SubSeq(q, 1, i - 1)
           b == SubSeq(q, i + 1, Len(q))
<1>1. /\ a \in Seq(S) /\ Len(a) = i - 1 /\ \A j \in 1 .. i - 1 : a[j] = q[j]
      /\ b \in Seq(S) /\ Len(b) = Len(q) - i /\ \A j \in 1 .. Len(q) - i : b[j] = q[i + j]
  OBVIOUS
<1>2. RemoveAt(q, i) = a \o b
  BY DEF RemoveAt
<1> HIDE DEF a, b
<1>3. a \o b \in Seq(S) /\ Len(a \o b) = Len(q) - 1
  <2>1. a \o b \in Seq(S) /\ Len(a \o b) = Len(a) + Len(b)
    BY <1>1, JoinRange
  <2>2. Len(a) = i - 1 /\ Len(b) = Len(q) - i /\ i \in Int /\ Len(q) \in Int
    BY <1>1
  <2>3. QED
    BY <2>1, <2>2
<1>4. ASSUME NEW j \in 1 .. Len(q) - 1
      PROVE  (a \o b)[j] = q[IF j < i THEN j ELSE j + 1]
  <2>1. CASE j < i
    <3>1. j \in 1 .. i - 1
      BY <2>1
    <3>2. (a \o b)[j] = a[j]
      BY <1>1, <3>1
    <3>3. QED
      BY <1>1, <2>1, <3>1, <3>2
  <2>2. CASE ~(j < i)
    <3>1. j - Len(a) \in 1 .. Len(b) /\ Len(a) + (j - Len(a)) = j
      BY <1>1, <2>2
    <3>2. (a \o b)[j] = b[j - Len(a)]
      BY <1>1, <3>1
    <3>3. b[j - Len(a)] = q[i + (j - Len(a))] /\ i + (j - Len(a)) = j + 1
      BY <1>1, <3>1
    <3>4. QED
      BY <2>2, <3>2, <3>3
  <2>3. QED
    BY <2>1, <2>2
<1>5. QED
  BY <1>2, <1>3, <1>4

\* When a tab goes the others stay, and none of them has its subscription.
LEMMA TabRemoved ==
    ASSUME IInv, NEW i \in DOMAIN stack, stack' = RemoveAt(stack, i)
    PROVE  /\ stack' \in Seq(PaneEntry) /\ Len(stack') = Len(stack) - 1 /\ Len(stack) > 0
           /\ StackShrinks
           /\ \A j, k \in DOMAIN stack' : j # k => stack'[j].sub # stack'[k].sub
           /\ \A j \in DOMAIN stack' : stack'[j].sub # stack[i].sub
<1>1. /\ stack \in Seq(PaneEntry) /\ DOMAIN stack = 1 .. Len(stack) /\ Len(stack) \in Nat
      /\ \A j, k \in DOMAIN stack : j # k => stack[j].sub # stack[k].sub
  BY DEF IInv, TypeOK, TabsKept
<1>2. /\ stack' \in Seq(PaneEntry) /\ Len(stack') = Len(stack) - 1
      /\ \A j \in 1 .. Len(stack) - 1 : stack'[j] = stack[IF j < i THEN j ELSE j + 1]
  BY <1>1, RemoveAtElements
<1> DEFINE at(j) == IF j < i THEN j ELSE j + 1
<1>3. DOMAIN stack' = 1 .. Len(stack) - 1
  BY <1>2
<1>4. \A j \in 1 .. Len(stack) - 1 :
          at(j) \in 1 .. Len(stack) /\ at(j) # i /\ stack'[j] = stack[at(j)]
  BY <1>1, <1>2
<1>5. \A j, k \in 1 .. Len(stack) - 1 : j # k => at(j) # at(k)
  OBVIOUS
<1> HIDE DEF at
<1>6. StackShrinks
  BY <1>1, <1>3, <1>4 DEF StackShrinks
<1>7. \A j, k \in DOMAIN stack' : j # k => stack'[j].sub # stack'[k].sub
  BY <1>1, <1>3, <1>4, <1>5
<1>8. \A j \in DOMAIN stack' : stack'[j].sub # stack[i].sub
  BY <1>1, <1>3, <1>4
<1>9. Len(stack) > 0
  BY <1>1
<1>10. QED
  BY <1>2, <1>6, <1>7, <1>8, <1>9

\* The TUI ends, with the tabs it has or without its last one.
LEMMA LeaveStep ==
    ASSUME IInv, Live, phase' \in {"ended", "crashed"}, up' = <<>>, down' \in Seq(ReplyRec),
           Range(down') \subseteq Range(down), Settled,
           UNCHANGED <<active, pending, focus, size, nextSub, daemonVars>>,
           stack' \in Seq(PaneEntry), Len(stack') <= Len(stack), StackShrinks,
           \A j, k \in DOMAIN stack' : j # k => stack'[j].sub # stack'[k].sub
    PROVE  IInv'
<1>1. ~Live' /\ Range(up') = {} /\ up' \in Seq(CommandRec)
  BY DEF Live, Range
<1>2. TypeOK'
  BY <1>1 DEF IInv, TypeOK, Phase, daemonVars
<1>3. WireType' /\ StartKept' /\ CommandsKept' /\ LinedUp' /\ TabIsServed' /\ TabFitsTile'
  BY <1>1 DEF WireType, StartKept, CommandsKept, LinedUp, TabIsServed, TabFitsTile, Settled
<1>4. RepliesKept'
  BY DEF IInv, RepliesKept, Settled, daemonVars
<1>5. TabsKept'
  BY <1>1, TabsStay DEF daemonVars
<1>6. FatesKept'
  BY DEF IInv, FatesKept, Settled
<1>7. QED
  BY <1>2, <1>3, <1>4, <1>5, <1>6 DEF IInv

\* The user leaves, or the daemon does.
LEMMA DetachStep == ASSUME IInv, Detach \/ DaemonGoes PROVE IInv'
<1>1. /\ Live /\ phase' = "ended" /\ up' = <<>>
      /\ UNCHANGED <<stack, active, pending, focus, size, nextSub, fate, down, daemonVars>>
  BY DEF Detach, DaemonGoes, Leave
<1>2. Settled /\ StackShrinks /\ down' \in Seq(ReplyRec) /\ stack' \in Seq(PaneEntry)
      /\ Len(stack') <= Len(stack)
      /\ \A j, k \in DOMAIN stack' : j # k => stack'[j].sub # stack'[k].sub
  BY <1>1 DEF Settled, StackShrinks, IInv, WireType, TypeOK, TabsKept, daemonVars
<1>3. QED
  BY <1>1, <1>2, LeaveStep

\* The daemon rests while the TUI gives plain commands and tabs go.
LEMMA TuiPlain ==
    ASSUME IInv, Live, Live', TypeOK', UpPlain, DownPlain, Settled, StackShrinks,
           Len(stack') <= Len(stack), UNCHANGED <<pending, size, nextSub, daemonVars>>,
           SubsOf(up, {"attach"}) \subseteq SubsOf(up', {"attach"}),
           \A j, k \in DOMAIN stack' : j # k => stack'[j].sub # stack'[k].sub,
           \A i \in DOMAIN stack' : fate'[stack'[i].sub] = "tab",
           \A i \in DOMAIN stack' : stack'[i].sub \in SubsOf(down, {"exit"})
                                       => stack'[i].sub \in SubsOf(down', {"exit"}),
           \A i \in DOMAIN stack : Fits(up, stack[i].pane, size, paneSize[stack[i].pane])
                                       => Fits(up', stack[i].pane, size, paneSize[stack[i].pane])
    PROVE  IInv'
<1>1. WireType' /\ StartKept' /\ CommandsKept' /\ RepliesKept' /\ LinedUp' /\ FatesKept'
  BY PlainStep DEF daemonVars
<1>2. TabsKept'
  BY TabsStay DEF daemonVars, TypeOK
<1>3. TabIsServed'
  BY ServedStays DEF daemonVars
<1>4. ASSUME NEW i \in DOMAIN stack', stack'[i].pane \in listed
      PROVE  Fits(up', stack'[i].pane, size', paneSize'[stack'[i].pane])
  <2>1. PICK j \in DOMAIN stack : stack'[i] = stack[j]
    BY DEF StackShrinks
  <2>2. Fits(up, stack[j].pane, size, paneSize[stack[j].pane])
    BY <1>4, <2>1, FitsTile DEF IInv
  <2>3. QED
    BY <2>1, <2>2 DEF daemonVars
<1>5. TabFitsTile'
  BY <1>4, FitsTileNext DEF daemonVars
<1>6. QED
  BY <1>1, <1>2, <1>3, <1>5 DEF IInv

\* The tabs, and which one is in front.
LEMMA TabsAre ==
    ASSUME IInv
    PROVE  /\ stack \in Seq(PaneEntry) /\ Len(stack) \in Nat /\ DOMAIN stack = 1 .. Len(stack)
           /\ \A i \in DOMAIN stack : stack[i] \in PaneEntry /\ stack[i].sub \in Subs
                                      /\ stack[i].pane \in Panes
           /\ Live => \A i \in DOMAIN stack : fate[stack[i].sub] = "tab"
           /\ Live /\ stack # <<>> => active \in DOMAIN stack
           /\ active \in 1 .. MaxSubs /\ active \in Int
           /\ up \in Seq(CommandRec) /\ down \in Seq(ReplyRec)
           /\ \A q \in {up, down} : DOMAIN q = 1 .. Len(q) /\ Len(q) \in Nat
<1>1. /\ stack \in Seq(PaneEntry) /\ up \in Seq(CommandRec) /\ down \in Seq(ReplyRec)
      /\ active \in 1 .. MaxSubs /\ (stack # <<>> /\ Live => active <= Len(stack))
  BY DEF IInv, TypeOK, WireType
<1>2. /\ Len(stack) \in Nat /\ DOMAIN stack = 1 .. Len(stack)
      /\ \A i \in DOMAIN stack : stack[i] \in PaneEntry
      /\ \A q \in {up, down} : DOMAIN q = 1 .. Len(q) /\ Len(q) \in Nat
  BY <1>1
<1>3. \A e \in PaneEntry : e.sub \in Subs /\ e.pane \in Panes
  BY DEF PaneEntry
<1>4. active \in Int
  BY <1>1, TuiPanesConstants
<1>5. Live /\ stack # <<>> => active \in DOMAIN stack
  BY <1>1, <1>2, <1>4
<1>6. QED
  BY <1>1, <1>2, <1>3, <1>4, <1>5 DEF IInv, TabsKept

\* A keystroke for the active pane.
LEMMA PtyInputStep == ASSUME IInv, PtyInput PROVE IInv'
<1>1. /\ Live /\ focus = "pty"
      /\ UNCHANGED <<stack, active, pending, focus, size, nextSub, down, fate, daemonVars>>
  BY DEF PtyInput
<1>2. CASE stack = <<>>
  <2>1. phase' = "crashed" /\ up' = <<>>
    BY <1>2 DEF PtyInput, Leave
  <2>2. Settled /\ StackShrinks /\ down' \in Seq(ReplyRec) /\ stack' \in Seq(PaneEntry)
        /\ Len(stack') <= Len(stack)
        /\ \A j, k \in DOMAIN stack' : j # k => stack'[j].sub # stack'[k].sub
    BY <1>1 DEF Settled, StackShrinks, IInv, WireType, TypeOK, TabsKept, daemonVars
  <2>3. QED
    BY <1>1, <2>1, <2>2, LeaveStep
<1>3. CASE stack # <<>>
  <2> DEFINE m == Command("input", stack[active].pane, 0, 0)
  <2>1. phase' = phase /\ up' = Append(up, m)
    BY <1>3 DEF PtyInput
  <2>2. active \in DOMAIN stack /\ stack[active] \in PaneEntry /\ up \in Seq(CommandRec)
    BY <1>1, <1>3, TabsAre
  <2>3. m \in CommandRec
    BY <2>2, TuiPanesConstants DEF Command, CommandRec, PaneEntry, Panes
  <2>4. m.t = "input"
    BY DEF Command
  <2> HIDE DEF m
  <2>4a. up' = up \o <<m>> /\ <<m>> \in Seq(CommandRec) /\ Range(<<m>>) = {m}
    BY <2>1, <2>2, <2>3, FewMessages, Zenon
  <2>5. UpPlain /\ SubsOf(up, {"attach"}) \subseteq SubsOf(up', {"attach"})
    BY <1>1, <2>4, <2>4a, UpGiven
  <2>6. TypeOK' /\ Live' /\ Settled /\ StackShrinks /\ Len(stack') <= Len(stack)
    BY <1>1, <2>1 DEF IInv, TypeOK, Live, Settled, StackShrinks, WireType, daemonVars
  <2>7. \A p : Resizes(<<m>>, p) = {}
    BY <2>4, <2>4a DEF Resizes, Range
  <2>8. \A i \in DOMAIN stack : Fits(up, stack[i].pane, size, paneSize[stack[i].pane])
                                   => Fits(up', stack[i].pane, size, paneSize[stack[i].pane])
    BY <2>2, <2>4a, <2>7, FitsJoin
  <2>9. /\ \A j, k \in DOMAIN stack' : j # k => stack'[j].sub # stack'[k].sub
        /\ \A i \in DOMAIN stack' : fate'[stack'[i].sub] = "tab"
    BY <1>1 DEF IInv, TabsKept
  <2>10. DownPlain
    BY <1>1, SameDown
  <2>11. QED
    BY <1>1, <2>5, <2>6, <2>8, <2>9, <2>10, TuiPlain
<1>4. QED
  BY <1>2, <1>3

\* The commands that take leave of a tab.
Bye(tab) == <<Command("close", tab.pane, 0, 0), Command("unsub", 0, tab.sub, 0)>>

LEMMA ByeIsPlain ==
    ASSUME NEW tab \in PaneEntry
    PROVE  /\ Bye(tab) \in Seq(CommandRec)
           /\ \A m \in Range(Bye(tab)) :
                 m.t = "close" \/ (m.t = "unsub" /\ m.sub = tab.sub)
           /\ \A p : Resizes(Bye(tab), p) = {}
<1> DEFINE a == Command("close", tab.pane, 0, 0)
           b == Command("unsub", 0, tab.sub, 0)
<1>1. a \in CommandRec /\ b \in CommandRec
  BY TuiPanesConstants DEF Command, CommandRec, PaneEntry, Panes, Subs
<1>2. a.t = "close" /\ b.t = "unsub" /\ b.sub = tab.sub
  BY DEF Command
<1>3. Bye(tab) = <<a, b>>
  BY DEF Bye
<1> HIDE DEF a, b
<1>4. <<a, b>> \in Seq(CommandRec) /\ Range(<<a, b>>) = {a, b}
  BY <1>1, TwoMessages, Zenon
<1>5. \A m \in Range(<<a, b>>) : m.t = "close" \/ (m.t = "unsub" /\ m.sub = tab.sub)
  BY <1>2, <1>4
<1>6. \A i \in DOMAIN <<a, b>> : <<a, b>>[i].t # "resize"
  BY <1>5 DEF Range
<1>7. \A p : Resizes(<<a, b>>, p) = {}
  BY <1>6 DEF Resizes
<1>8. QED
  BY <1>3, <1>4, <1>5, <1>7

\* A tab is closed and another one is in front.
LEMMA CloseTabStep == ASSUME IInv, CloseActive, Len(stack) # 1 PROVE IInv'
<1> DEFINE tab == stack[active]
<1>1. /\ Live /\ stack # <<>> /\ stack' = RemoveAt(stack, active)
      /\ active' = IF active > Len(stack') THEN Len(stack') ELSE active
      /\ up' = up \o Bye(tab)
      /\ fate' = [fate EXCEPT ![tab.sub] = "over"]
      /\ UNCHANGED <<phase, pending, nextSub, focus, size, down, daemonVars>>
  BY DEF CloseActive, Bye
<1>2. active \in DOMAIN stack /\ tab \in PaneEntry /\ up \in Seq(CommandRec) /\ active \in 1 .. MaxSubs
  BY <1>1, TabsAre
<1>3. tab.sub \in Subs /\ fate[tab.sub] = "tab"
  BY <1>1, <1>2, TabsAre
<1>4. fate'[tab.sub] = "over" /\ fate' \in [Subs -> Fate]
      /\ \A s \in Subs \ {tab.sub} : fate'[s] = fate[s]
  BY <1>1, <1>3 DEF IInv, WireType, Fate
<1>5. Settled
  BY <1>1, <1>3, <1>4 DEF IInv, WireType, Settled, daemonVars
<1>6. /\ stack' \in Seq(PaneEntry) /\ Len(stack') = Len(stack) - 1
      /\ StackShrinks
      /\ \A j, k \in DOMAIN stack' : j # k => stack'[j].sub # stack'[k].sub
      /\ \A j \in DOMAIN stack' : stack'[j].sub # tab.sub
  BY <1>1, <1>2, TabRemoved
<1>7. Len(stack) \in Nat /\ Len(stack) > 1
  <2>1. Len(stack) \in Nat /\ Len(stack) # 0
    BY <1>1 DEF IInv, TypeOK
  <2>2. QED
    BY <2>1
<1>8. TypeOK' /\ Live'
  <2>1. active \in 1 .. Len(stack) /\ Len(stack') \in Nat /\ Len(stack') > 0
    BY <1>2, <1>6, <1>7, TabsAre
  <2>2. active' \in 1 .. Len(stack') /\ active' <= active
    BY <1>1, <2>1
  <2>3. active' \in 1 .. MaxSubs /\ active' <= Len(stack')
    BY <1>2, <2>1, <2>2, TuiPanesConstants
  <2>4. QED
    BY <1>1, <1>6, <2>3 DEF IInv, TypeOK, Live, daemonVars
<1>9. UpPlain /\ SubsOf(up, {"attach"}) \subseteq SubsOf(up', {"attach"})
  <2>1. Bye(tab) \in Seq(CommandRec)
    BY <1>2, ByeIsPlain
  <2>2. \A m \in Range(Bye(tab)) :
            m.t = "close" \/ (m.t = "unsub" /\ m.sub \in Subs /\ fate'[m.sub] = "over")
    BY <1>2, <1>3, <1>4, ByeIsPlain
  <2>3. QED
    BY <1>1, <2>1, <2>2, UpGiven
<1>10. \A i \in DOMAIN stack' : fate'[stack'[i].sub] = "tab"
  <2>1. SUFFICES ASSUME NEW i \in DOMAIN stack' PROVE fate'[stack'[i].sub] = "tab"
    OBVIOUS
  <2>2. PICK j \in DOMAIN stack : stack'[i] = stack[j]
    BY <1>6 DEF StackShrinks
  <2>3. stack[j].sub \in Subs /\ fate[stack[j].sub] = "tab"
    BY <1>1, TabsAre
  <2>4. QED
    BY <1>4, <1>6, <2>2, <2>3
<1>11. \A i \in DOMAIN stack : Fits(up, stack[i].pane, size, paneSize[stack[i].pane])
                                  => Fits(up', stack[i].pane, size, paneSize[stack[i].pane])
  <2>1. up \in Seq(CommandRec) /\ Bye(tab) \in Seq(CommandRec) /\ \A p : Resizes(Bye(tab), p) = {}
    BY <1>2, ByeIsPlain
  <2>2. QED
    BY <1>1, <2>1, FitsJoin
<1>12. DownPlain
  BY <1>1, SameDown
<1>13. Len(stack') <= Len(stack)
  BY <1>6, <1>7
<1>14. QED
  BY <1>1, <1>5, <1>6, <1>8, <1>9, <1>10, <1>11, <1>12, <1>13, TuiPlain

\* Every tab is resized, and the last resize under way is of the new size.
LEMMA ResizeStep == ASSUME IInv, NEW z \in Sizes, Resize(z) PROVE IInv'
<1> DEFINE r == [i \in DOMAIN stack |-> Command("resize", stack[i].pane, 0, z)]
<1>1. /\ Live /\ size' = z /\ up' = up \o r
      /\ UNCHANGED <<phase, stack, active, pending, focus, nextSub, fate, down, daemonVars>>
  BY DEF Resize
<1>2. /\ stack \in Seq(PaneEntry) /\ DOMAIN stack = 1 .. Len(stack) /\ Len(stack) \in Nat
      /\ \A i \in DOMAIN stack : stack[i].pane \in Panes
      /\ up \in Seq(CommandRec) /\ DOMAIN up = 1 .. Len(up) /\ Len(up) \in Nat
  BY TabsAre
<1>3. \A i \in DOMAIN stack :
          /\ r[i] \in CommandRec /\ r[i].t = "resize" /\ r[i].size = z
          /\ r[i].pane = stack[i].pane /\ r[i].pane \in Panes
  BY <1>2, TuiPanesConstants DEF Command, CommandRec, Panes, Sizes
<1>4. r \in Seq(CommandRec) /\ Len(r) = Len(stack) /\ DOMAIN r = 1 .. Len(stack)
  BY <1>2, <1>3
<1> HIDE DEF r
<1>5. UpPlain /\ SubsOf(up, {"attach"}) \subseteq SubsOf(up', {"attach"})
  <2>1. \A m \in Range(r) : m.t = "resize" /\ m.pane \in Panes /\ m.size \in Sizes
    BY <1>2, <1>3, <1>4 DEF Range
  <2>2. QED
    BY <1>1, <1>4, <2>1, UpGiven
<1>6. TypeOK' /\ Live' /\ Settled /\ StackShrinks /\ Len(stack') <= Len(stack)
  BY <1>1, <1>2 DEF IInv, TypeOK, Live, Settled, StackShrinks, WireType, daemonVars
<1>7. DownPlain
  BY <1>1, SameDown
<1>8. WireType' /\ StartKept' /\ CommandsKept' /\ RepliesKept' /\ LinedUp' /\ FatesKept'
  BY <1>1, <1>5, <1>6, <1>7, PlainStep DEF daemonVars
<1>9. TabsKept' /\ TabIsServed'
  BY <1>1, <1>5, <1>6, ServedStays DEF IInv, TabsKept, Live, daemonVars
<1>10. ASSUME NEW i \in DOMAIN stack, NEW now
       PROVE  Fits(up', stack[i].pane, z, now)
  <2> DEFINE p == stack[i].pane
             I == {k \in DOMAIN stack : stack[k].pane = p}
  <2>1. PICK k \in I : \A l \in I : l <= k
    <3>1. I \in SUBSET (1 .. Len(stack)) /\ I # {}
      BY <1>2
    <3>2. QED
      BY <1>2, <3>1, GreatestOf
  <2>2. /\ up' \in Seq(CommandRec) /\ Len(up') = Len(up) + Len(stack)
        /\ DOMAIN up' = 1 .. Len(up) + Len(stack)
        /\ \A l \in 1 .. Len(stack) : up'[Len(up) + l] = r[l]
    <3>0. up \in Seq(CommandRec) /\ r \in Seq(CommandRec) /\ up' = up \o r
      BY <1>1, <1>2, <1>4
    <3>1. /\ up' \in Seq(CommandRec) /\ Len(up') = Len(up) + Len(r)
          /\ \A l \in 1 .. Len(r) : up'[Len(up) + l] = r[l]
      BY <3>0, JoinRange
    <3>2. DOMAIN up' = 1 .. Len(up')
      BY <3>1
    <3>3. QED
      BY <1>4, <3>1, <3>2
  <2>3. k \in 1 .. Len(stack) /\ Len(up) + k \in DOMAIN up' /\ up'[Len(up) + k] = r[k]
    BY <1>2, <2>2
  <2>4. Len(up) + k \in Resizes(up', p) /\ up'[Len(up) + k].size = z
    BY <1>2, <1>3, <2>3 DEF Resizes
  <2>5. ASSUME NEW l \in Resizes(up', p) PROVE l <= Len(up) + k
    <3>1. l \in 1 .. Len(up) + Len(stack) /\ up'[l].pane = p
      BY <2>2 DEF Resizes
    <3>2. CASE l <= Len(up)
      BY <1>2, <2>3, <3>1, <3>2
    <3>3. CASE ~(l <= Len(up))
      <4>1. l - Len(up) \in 1 .. Len(stack) /\ Len(up) + (l - Len(up)) = l
        BY <1>2, <3>1, <3>3
      <4>2. up'[l] = r[l - Len(up)]
        BY <2>2, <4>1
      <4>3. l - Len(up) \in I
        BY <1>2, <1>3, <3>1, <4>1, <4>2
      <4>4. l - Len(up) <= k
        BY <2>1, <4>3
      <4>5. QED
        BY <1>2, <2>3, <3>1, <4>4
    <3>4. QED
      BY <3>2, <3>3
  <2>6. QED
    BY <2>2, <2>3, <2>4, <2>5, FitsLast
<1>11. TabFitsTile'
  BY <1>1, <1>10, FitsTileNext
<1>12. QED
  BY <1>6, <1>8, <1>9, <1>11 DEF IInv

-----------------------------------------------------------------------------
(* The TUI takes what answers no request.                                  *)

\* Once an exit is taken, the others that are in flight still are.
LEMMA ExitsStay ==
    ASSUME NEW S, NEW q \in Seq(S), q # <<>>, NEW s, s # Head(q).sub \/ Head(q).t # "exit",
           s \in SubsOf(q, {"exit"})
    PROVE  s \in SubsOf(Tail(q), {"exit"})
<1>1. Range(q) = Range(Tail(q)) \cup {Head(q)}
  BY TailRange
<1>2. QED
  BY <1>1 DEF SubsOf

\* Bytes, an Error that names no open, and the exit of a tab that has gone.
LEMMA IgnoredStep == ASSUME IInv, PaneBytes \/ OtherError \/ StaleExit PROVE IInv'
<1>1. /\ Live /\ down # <<>> /\ down' = Tail(down)
      /\ Head(down).t \in {"bytes", "paneError", "exit"}
      /\ Head(down).t = "exit" => TabOf(Head(down).sub) = {}
      /\ UNCHANGED <<tuiVars, up, daemonVars>>
  BY DEF PaneBytes, OtherError, StaleExit, Arrives
<1>2. UpPlain /\ DownPlain
  BY <1>1, SameUp, DownTaken DEF Answers
<1>3. TypeOK' /\ Live' /\ Settled /\ StackShrinks /\ Len(stack') <= Len(stack)
  BY <1>1, TabsAre DEF IInv, TypeOK, Live, Settled, StackShrinks, WireType, daemonVars, tuiVars
<1>4. \A i \in DOMAIN stack' : stack'[i].sub \in SubsOf(down, {"exit"})
                                  => stack'[i].sub \in SubsOf(down', {"exit"})
  <2>1. down \in Seq(ReplyRec)
    BY TabsAre
  <2>2. \A i \in DOMAIN stack : stack[i].sub # Head(down).sub \/ Head(down).t # "exit"
    BY <1>1 DEF TabOf
  <2>3. QED
    BY <1>1, <2>1, <2>2, ExitsStay DEF tuiVars
<1>5. /\ \A j, k \in DOMAIN stack' : j # k => stack'[j].sub # stack'[k].sub
      /\ \A i \in DOMAIN stack' : fate'[stack'[i].sub] = "tab"
  BY <1>1 DEF IInv, TabsKept, tuiVars
<1>6. QED
  BY <1>1, <1>2, <1>3, <1>4, <1>5, TuiPlain DEF tuiVars

\* The tab whose pane ended goes, and the TUI with the last one.
LEMMA PaneExitStep == ASSUME IInv, PaneExit PROVE IInv'
<1> DEFINE s == Head(down).sub
<1>1. PICK i \in TabOf(s) :
        /\ stack' = RemoveAt(stack, i)
        /\ fate' = [fate EXCEPT ![s] = "over"]
        /\ IF stack' = <<>> THEN Leave("ended") /\ UNCHANGED active
           ELSE /\ active' = IF i <= active /\ active > 1 THEN active - 1 ELSE active
                /\ UNCHANGED <<phase, up>>
  BY DEF PaneExit
<1>2. /\ Live /\ down # <<>> /\ down' = Tail(down) /\ Head(down).t = "exit"
      /\ UNCHANGED <<pending, focus, size, nextSub, daemonVars>>
  BY DEF PaneExit, Arrives
<1>3. i \in DOMAIN stack /\ stack[i].sub = s /\ s \in Subs /\ fate[s] = "tab"
  BY <1>2, TabsAre DEF TabOf
<1>4. /\ fate'[s] = "over" /\ fate' \in [Subs -> Fate]
      /\ \A r \in Subs \ {s} : fate'[r] = fate[r]
  BY <1>1, <1>3 DEF IInv, WireType, Fate
<1>5. Settled
  BY <1>2, <1>3, <1>4 DEF IInv, WireType, Settled, daemonVars
<1>6. /\ stack' \in Seq(PaneEntry) /\ Len(stack') = Len(stack) - 1 /\ Len(stack) > 0
      /\ StackShrinks
      /\ \A j, k \in DOMAIN stack' : j # k => stack'[j].sub # stack'[k].sub
      /\ \A j \in DOMAIN stack' : stack'[j].sub # s
  BY <1>1, <1>3, TabRemoved
<1>7. Len(stack') <= Len(stack)
  BY <1>6, TabsAre
<1>8. /\ down \in Seq(ReplyRec) /\ down' \in Seq(ReplyRec) /\ Range(down') \subseteq Range(down)
  BY <1>2, TabsAre, TailRange
<1>9. CASE stack' = <<>>
  <2>1. phase' = "ended" /\ up' = <<>> /\ UNCHANGED active
    BY <1>1, <1>9 DEF Leave
  <2>2. QED
    BY <1>2, <1>5, <1>6, <1>7, <1>8, <2>1, LeaveStep
<1>10. CASE stack' # <<>>
  <2>1. /\ active' = (IF i <= active /\ active > 1 THEN active - 1 ELSE active)
        /\ UNCHANGED <<phase, up>>
    BY <1>1, <1>10
  <2>2. TypeOK' /\ Live'
    <3>1. i \in 1 .. Len(stack) /\ active \in 1 .. Len(stack) /\ Len(stack) \in Nat
          /\ active \in 1 .. MaxSubs
      BY <1>2, <1>3, <1>6, TabsAre
    <3>2. Len(stack') # 0
      BY <1>6, <1>10
    <3>3. active' <= Len(stack) - 1 /\ active' \in Int /\ 1 <= active' /\ active' <= active
      BY <1>6, <2>1, <3>1, <3>2
    <3>4. active' \in 1 .. MaxSubs /\ active' <= Len(stack')
      BY <1>6, <3>1, <3>3, TuiPanesConstants
    <3>5. QED
      BY <1>2, <1>6, <2>1, <3>4 DEF IInv, TypeOK, Live, daemonVars
  <2>3. UpPlain /\ DownPlain
    BY <1>2, <2>1, SameUp, DownTaken DEF Answers
  <2>4. \A j \in DOMAIN stack' : fate'[stack'[j].sub] = "tab"
    <3>1. SUFFICES ASSUME NEW j \in DOMAIN stack' PROVE fate'[stack'[j].sub] = "tab"
      OBVIOUS
    <3>2. PICK k \in DOMAIN stack : stack'[j] = stack[k]
      BY <1>6 DEF StackShrinks
    <3>3. stack[k].sub \in Subs /\ fate[stack[k].sub] = "tab"
      BY <1>2, TabsAre
    <3>4. QED
      BY <1>4, <1>6, <3>2, <3>3
  <2>5. \A j \in DOMAIN stack' : stack'[j].sub \in SubsOf(down, {"exit"})
                                    => stack'[j].sub \in SubsOf(down', {"exit"})
    BY <1>2, <1>6, <1>8, ExitsStay
  <2>6. QED
    BY <1>2, <1>5, <1>6, <1>7, <2>1, <2>2, <2>3, <2>4, <2>5, TuiPlain
<1>11. QED
  BY <1>9, <1>10

\* The focus moves, a tab is chosen, a child exits, another client closes a pane.
LEMMA OthersStep ==
    ASSUME IInv,
           \/ \E tile \in {"pty", "fleet"} : FocusMoves(tile)
           \/ \E i \in 1 .. MaxSubs : TabClick(i)
           \/ \E p \in Panes : ChildExits(p) \/ OtherCloses(p)
    PROVE  IInv'
<1>1. CASE \E tile \in {"pty", "fleet"} : FocusMoves(tile)
  BY <1>1, ApartStep DEF FocusMoves, IInv, TypeOK, Live, daemonVars
<1>2. CASE \E i \in 1 .. MaxSubs : TabClick(i)
  <2>1. PICK i \in 1 .. MaxSubs : TabClick(i)
    BY <1>2
  <2>2. i <= Len(stack) /\ Live
    BY <2>1, TabsAre DEF TabClick
  <2>3. QED
    BY <2>1, <2>2, ApartStep DEF TabClick, IInv, TypeOK, Live, daemonVars
<1>3. CASE \E p \in Panes : ChildExits(p)
  BY <1>3, ApartStep DEF ChildExits, IInv, TypeOK, Live, tuiVars
<1>4. CASE \E p \in Panes : OtherCloses(p)
  BY <1>4, ApartStep DEF OtherCloses, IInv, TypeOK, Live, tuiVars
<1>5. QED
  BY <1>1, <1>2, <1>3, <1>4

LEMMA StutterStep == ASSUME IInv, UNCHANGED vars PROVE IInv'
<1>1. TypeOK'
  BY DEF vars, tuiVars, daemonVars, IInv, TypeOK, Live
<1>2. QED
  BY <1>1, ApartStep DEF vars, tuiVars, daemonVars

-----------------------------------------------------------------------------
(* Start-up.                                                               *)

Starting == phase \in {"start", "listing", "opening"}

\* Before the event loop nothing is asked of the tabs.
LEMMA NotYetLive ==
    ASSUME ~Live', TypeOK', WireType', StartKept', CommandsKept', RepliesKept', TabsKept', FatesKept'
    PROVE  IInv'
  BY DEF IInv, LinedUp, TabIsServed, TabFitsTile

\* A queue of none and of one.
LEMMA NoMessage == Range(<<>>) = {}
  BY DEF Range

LEMMA OneMessage ==
    ASSUME NEW S, NEW m \in S
    PROVE  /\ Append(<<>>, m) = <<m>> /\ <<m>> \in Seq(S) /\ Range(<<m>>) = {m}
           /\ Len(<<m>>) = 1 /\ <<m>>[1] = m
<1>1. Append(<<>>, m) = <<m>> /\ <<m>> \in Seq(S)
  OBVIOUS
<1>2. DOMAIN <<m>> = {1} /\ <<m>>[1] = m /\ Len(<<m>>) = 1
  OBVIOUS
<1>3. QED
  BY <1>1, <1>2 DEF Range

\* The open of the first tab is asked for.
LEMMA AskRootStep ==
    ASSUME IInv, phase \in {"start", "listing"}, up = <<>>, down' = <<>>, AskRoot,
           UNCHANGED <<stack, active, pending, focus, size, nextSub, daemonVars>>
    PROVE  IInv'
<1> DEFINE m == Command("open", 0, Root, size)
<1>1. /\ phase' = "opening" /\ up' = Append(up, m) /\ fate' = [fate EXCEPT ![Root] = "pending"]
  BY DEF AskRoot
<1>2. /\ stack = <<>> /\ pending = <<>> /\ nextSub = Root + 1 /\ active = 1 /\ size = 1
      /\ fwd = [s \in Subs |-> Idle]
      /\ \A s \in Subs : fate[s] = "none" /\ verdict[s] = "none"
  BY DEF IInv, StartKept
<1>3. Root \in Subs /\ size \in Sizes
  BY TuiPanesConstants DEF Root, Subs, IInv, TypeOK
<1>4. m \in CommandRec /\ m.t = "open" /\ m.sub = Root /\ m.size = size
  BY <1>3, TuiPanesConstants DEF Command, CommandRec, Subs, Sizes
<1> HIDE DEF m
<1>5. up' \in Seq(CommandRec) /\ Range(up') = {m} /\ Len(up') = 1 /\ up'[1] = m
  <2>1. up' = <<m>>
    BY <1>1, <1>4, OneMessage
  <2>2. QED
    BY <1>4, <2>1, OneMessage
<1>6. /\ fate' \in [Subs -> Fate] /\ fate'[Root] = "pending"
      /\ \A s \in Subs \ {Root} : fate'[s] = "none"
  BY <1>1, <1>2, <1>3 DEF IInv, WireType, Fate
<1>7. ~Live' /\ TypeOK'
  BY <1>1 DEF IInv, TypeOK, Live, daemonVars, Phase
<1>8. WireType' /\ RepliesKept'
  BY <1>5, <1>6 DEF IInv, WireType, RepliesKept, daemonVars, Range
<1>9. StartKept'
  BY <1>1, <1>2, <1>4, <1>5, <1>6 DEF StartKept, daemonVars
<1>10. CommandsKept'
  BY <1>2, <1>3, <1>4, <1>5, <1>6 DEF CommandsKept, daemonVars
<1>11. TabsKept' /\ FatesKept'
  BY <1>2, <1>6, <1>7 DEF IInv, TabsKept, FatesKept, daemonVars
<1>12. QED
  BY <1>7, <1>8, <1>9, <1>10, <1>11, NotYetLive

\* The first tab comes on the stack, and its attach and its resize are under way.
LEMMA EnterStep ==
    ASSUME IInv, phase \in {"listing", "opening"}, up = <<>>, down' = <<>>,
           NEW p \in exists, EnterWith(p),
           UNCHANGED <<active, pending, focus, size, nextSub, daemonVars>>
    PROVE  IInv'
<1> DEFINE a == Command("attach", p, Root, 0)
           r == Command("resize", p, 0, size)
           tab == [pane |-> p, sub |-> Root]
<1>1. /\ phase' = "running" /\ stack' = <<tab>> /\ up' = up \o <<a, r>>
      /\ fate' = [fate EXCEPT ![Root] = "tab"]
  BY DEF EnterWith
<1>2. /\ pending = <<>> /\ nextSub = Root + 1 /\ active = 1 /\ size = 1
      /\ \A s \in Subs \ {Root} : fate[s] = "none" /\ verdict[s] = "none"
  BY DEF IInv, StartKept
<1>3. Root \in Subs /\ size \in Sizes /\ p \in Panes
  BY TuiPanesConstants DEF Root, Subs, IInv, TypeOK
<1>4. /\ a \in CommandRec /\ a.t = "attach" /\ a.sub = Root /\ a.pane = p
      /\ r \in CommandRec /\ r.t = "resize" /\ r.pane = p /\ r.size = size
      /\ tab \in PaneEntry /\ tab.pane = p /\ tab.sub = Root
  BY <1>3, TuiPanesConstants DEF Command, CommandRec, Subs, Sizes, Panes, PaneEntry
<1> HIDE DEF a, r, tab
<1>5. up' = <<a, r>>
  BY <1>1, <1>4
<1>6. up' \in Seq(CommandRec) /\ Range(up') = {a, r}
  BY <1>4, <1>5, TwoMessages
<1>7. DOMAIN up' = {1, 2} /\ up'[1] = a /\ up'[2] = r
  BY <1>5
<1>8. stack' \in Seq(PaneEntry) /\ Len(stack') = 1 /\ DOMAIN stack' = {1} /\ stack'[1] = tab
  BY <1>1, <1>4
<1>9. /\ fate' \in [Subs -> Fate] /\ fate'[Root] = "tab"
      /\ \A s \in Subs \ {Root} : fate'[s] = "none"
  BY <1>1, <1>2, <1>3 DEF IInv, WireType, Fate
<1>10. Live' /\ TypeOK'
  BY <1>1, <1>2, <1>8 DEF IInv, TypeOK, Live, daemonVars, Phase
<1>11. WireType' /\ RepliesKept' /\ StartKept'
  BY <1>6, <1>9, <1>10 DEF IInv, WireType, RepliesKept, StartKept, daemonVars, Range, Live
<1>12. CommandsKept'
  BY <1>3, <1>4, <1>6, <1>8, <1>9 DEF CommandsKept
<1>13. LinedUp'
  <2>1. SubsOf(up', {"open"}) = {} /\ SubsOf(down', Answers) = {}
    BY <1>4, <1>6, NoMessage DEF SubsOf
  <2>2. InOrder(up', {"open"}) /\ InOrder(down', Answers)
    BY <1>4, <1>7 DEF InOrder
  <2>3. \A s \in Subs : s >= nextSub' => s # Root
    BY <1>2 DEF Root
  <2>4. QED
    BY <1>2, <1>9, <2>1, <2>2, <2>3 DEF LinedUp, daemonVars
<1>14. TabsKept' /\ FatesKept'
  <2>1. Len(pending') = 0 /\ nextSub' = 2
    BY <1>2 DEF Root
  <2>2. QED
    BY <1>2, <1>4, <1>8, <1>9, <2>1 DEF IInv, TabsKept, FatesKept, daemonVars
<1>15. TabIsServed'
  BY <1>4, <1>7, <1>8 DEF TabIsServed, InFlight
<1>16. TabFitsTile'
  <2>1. Resizes(up', p) = {2}
    BY <1>4, <1>7 DEF Resizes
  <2>2. Fits(up', p, size', paneSize'[p])
    BY <1>4, <1>7, <2>1 DEF Fits
  <2>3. QED
    BY <1>4, <1>8, <2>2, FitsTileNext
<1>17. QED
  BY <1>10, <1>11, <1>12, <1>13, <1>14, <1>15, <1>16 DEF IInv

\* tepegoz tui asks which panes there are, connect opens one.
LEMMA StartStep == ASSUME IInv, Start PROVE IInv'
<1>1. /\ phase = "start" /\ up = <<>> /\ down = <<>>
      /\ UNCHANGED <<stack, active, pending, focus, size, nextSub, down, daemonVars>>
  BY DEF Start, IInv, StartKept
<1>2. CASE ~Reuse
  BY <1>1, <1>2, AskRootStep DEF Start
<1>3. CASE Reuse
  <2> DEFINE m == Command("list", 0, 0, 0)
  <2>1. phase' = "listing" /\ up' = Append(up, m) /\ UNCHANGED fate
    BY <1>3 DEF Start
  <2>2. m \in CommandRec /\ m.t = "list"
    BY TuiPanesConstants DEF Command, CommandRec
  <2> HIDE DEF m
  <2>3. up' \in Seq(CommandRec) /\ Range(up') = {m} /\ Len(up') = 1 /\ up'[1] = m
    <3>1. up' = <<m>>
      BY <1>1, <2>1, <2>2, OneMessage
    <3>2. QED
      BY <2>2, <3>1, OneMessage
  <2>4. ~Live' /\ TypeOK' /\ WireType' /\ RepliesKept' /\ FatesKept' /\ TabsKept'
    BY <1>1, <2>1, <2>3
       DEF IInv, TypeOK, WireType, RepliesKept, FatesKept, TabsKept, Live, daemonVars, Phase
  <2>5. StartKept'
    BY <1>1, <2>1, <2>2, <2>3 DEF IInv, StartKept, daemonVars, Range
  <2>6. CommandsKept'
    BY <2>1, <2>2, <2>3 DEF CommandsKept
  <2>7. QED
    BY <2>4, <2>5, <2>6, NotYetLive
<1>4. QED
  BY <1>2, <1>3

\* The answer at start-up is the only message there is.
LEMMA StartDown ==
    ASSUME IInv, phase \in {"listing", "opening"}, down # <<>>
    PROVE  /\ up = <<>> /\ Tail(down) = <<>> /\ Head(down) \in Range(down)
<1>1. down \in Seq(ReplyRec) /\ Len(down) = 1 /\ up = <<>>
  BY DEF IInv, WireType, StartKept
<1>2. Head(down) \in Range(down) /\ Tail(down) \in Seq(ReplyRec) /\ Len(Tail(down)) = 0
  BY <1>1, TailRange
<1>3. \A q \in Seq(ReplyRec) : Len(q) = 0 => q = <<>>
  OBVIOUS
<1>4. QED
  BY <1>1, <1>2, <1>3

LEMMA ListedStep == ASSUME IInv, Listed PROVE IInv'
<1>1. /\ phase = "listing" /\ down # <<>> /\ Head(down).t = "list" /\ down' = Tail(down)
      /\ UNCHANGED <<active, pending, focus, size, nextSub, daemonVars>>
  BY DEF Listed
<1>2. up = <<>> /\ down' = <<>> /\ Head(down) \in Range(down)
  BY <1>1, StartDown
<1>3. Head(down).pane \in exists \cup {0}
  BY <1>1, <1>2 DEF IInv, RepliesKept
<1>4. CASE Head(down).pane # 0
  BY <1>1, <1>2, <1>3, <1>4, EnterStep DEF Listed
<1>5. CASE Head(down).pane = 0
  BY <1>1, <1>2, <1>5, AskRootStep DEF Listed
<1>6. QED
  BY <1>4, <1>5

LEMMA RootAnsweredStep == ASSUME IInv, RootAnswered PROVE IInv'
<1>1. /\ phase = "opening" /\ down # <<>> /\ down' = Tail(down)
      /\ UNCHANGED <<active, pending, focus, size, nextSub, daemonVars>>
  BY DEF RootAnswered
<1>2. up = <<>> /\ down' = <<>> /\ Head(down) \in Range(down)
  BY <1>1, StartDown
<1>3. CASE Head(down).t = "opened" /\ EnterWith(Head(down).pane)
  <2>1. Head(down).pane \in exists
    BY <1>2, <1>3 DEF IInv, RepliesKept
  <2>2. QED
    BY <1>1, <1>2, <1>3, <2>1, EnterStep
<1>4. CASE /\ Head(down).t = "openError"
           /\ phase' = "ended" /\ fate' = [fate EXCEPT ![Root] = "failed"]
           /\ UNCHANGED <<stack, up>>
  <2>1. Head(down).sub \in Subs /\ fate[Head(down).sub] = "pending"
        /\ verdict[Head(down).sub] = "refused"
    BY <1>2, <1>4 DEF IInv, RepliesKept
  <2>2. Head(down).sub = Root
    BY <1>1, <2>1 DEF IInv, StartKept
  <2>3. fate' \in [Subs -> Fate] /\ \A s \in Subs \ {Root} : fate'[s] = fate[s]
    BY <1>4, <2>1, <2>2 DEF IInv, WireType, Fate
  <2>4. fate'[Root] = "failed"
    BY <1>4, <2>1, <2>2 DEF IInv, WireType
  <2>5. ~Live' /\ TypeOK' /\ StartKept'
    BY <1>1, <1>4 DEF IInv, TypeOK, StartKept, Live, daemonVars, Phase
  <2>6. WireType' /\ RepliesKept' /\ CommandsKept'
    <3>1. Range(down') = {} /\ Range(up') = {}
      BY <1>2, <1>4, NoMessage
    <3>2. WireType'
      BY <1>1, <1>2, <1>4, <2>3 DEF IInv, WireType, daemonVars
    <3>3. QED
      BY <3>1, <3>2 DEF RepliesKept, CommandsKept
  <2>7. TabsKept' /\ FatesKept'
    BY <1>1, <1>4, <2>1, <2>2, <2>3, <2>4, <2>5 DEF IInv, TabsKept, FatesKept, daemonVars
  <2>8. QED
    BY <2>5, <2>6, <2>7, NotYetLive
<1>5. QED
  BY <1>3, <1>4 DEF RootAnswered

\* The daemon answers the question that start-up asked.
LEMMA StartUp ==
    ASSUME IInv, phase \in {"listing", "opening"}, up # <<>>
    PROVE  /\ Tail(up) = <<>> /\ down = <<>> /\ Head(up) \in Range(up)
           /\ Head(up).t = (IF phase = "listing" THEN "list" ELSE "open")
<1>1. up \in Seq(CommandRec) /\ Len(up) = 1 /\ down = <<>>
      /\ up[1].t = (IF phase = "listing" THEN "list" ELSE "open")
  BY DEF IInv, WireType, StartKept
<1>2. /\ Head(up) \in Range(up) /\ Head(up) = up[1]
      /\ Tail(up) \in Seq(CommandRec) /\ Len(Tail(up)) = 0
  BY <1>1, TailRange
<1>3. \A q \in Seq(CommandRec) : Len(q) = 0 => q = <<>>
  OBVIOUS
<1>4. QED
  BY <1>1, <1>2, <1>3

LEMMA DaemonListsStep ==
    ASSUME IInv, phase \notin {"ended", "crashed"}, DaemonLists PROVE IInv'
<1>1. /\ up # <<>> /\ Head(up).t = "list" /\ up' = Tail(up)
      /\ UNCHANGED <<tuiVars, daemonVars>>
  BY DEF DaemonLists, Asked
<1>2. phase = "listing"
  <2>1. Head(up) \in Range(up)
    BY <1>1, TabsAre, TailRange
  <2>2. QED
    BY <1>1, <2>1 DEF IInv, CommandsKept
<1>3. up' = <<>> /\ down = <<>>
  BY <1>1, <1>2, StartUp
<1>4. PICK p \in exists \cup {0} : down' = Append(<<>>, Reply("list", p, 0))
  <2>1. CASE \E p \in listed \cap alive : Say(Reply("list", p, 0))
    BY <1>3, <2>1 DEF Say, IInv, TypeOK
  <2>2. CASE listed \cap alive = {} /\ Say(Reply("list", 0, 0))
    BY <1>3, <2>2 DEF Say
  <2>3. QED
    BY <2>1, <2>2 DEF DaemonLists
<1> DEFINE m == Reply("list", p, 0)
<1>5. m \in ReplyRec /\ m.t = "list" /\ m.pane = p
  BY TuiPanesConstants DEF Reply, ReplyRec, IInv, TypeOK, Panes
<1> HIDE DEF m
<1>6. down' = <<m>>
  BY <1>4, <1>5, OneMessage DEF m
<1>7. down' \in Seq(ReplyRec) /\ Range(down') = {m} /\ Len(down') = 1 /\ Range(up') = {}
  BY <1>3, <1>5, <1>6, OneMessage, NoMessage
<1>8. ~Live' /\ TypeOK' /\ TabsKept' /\ FatesKept'
  BY <1>1, <1>2 DEF IInv, TypeOK, TabsKept, FatesKept, Live, tuiVars, daemonVars
<1>9. WireType' /\ CommandsKept' /\ RepliesKept'
  <2>1. WireType'
    BY <1>1, <1>3, <1>7 DEF IInv, WireType, tuiVars, daemonVars
  <2>2. QED
    BY <1>1, <1>5, <1>7, <2>1 DEF CommandsKept, RepliesKept, daemonVars
<1>10. StartKept'
  BY <1>1, <1>2, <1>3, <1>5, <1>7 DEF IInv, StartKept, tuiVars, daemonVars
<1>11. QED
  BY <1>8, <1>9, <1>10, NotYetLive

\* What the daemon does with an open: a new pane, or a refusal.
LEMMA OpenOutcome ==
    ASSUME IInv, DaemonOpens, NEW s, s = Head(up).sub, s \in Subs, Head(up).size \in Sizes
    PROVE  \E m \in ReplyRec :
             /\ down' = Append(down, m) /\ m.sub = s
             /\ \/ /\ m.t = "opened" /\ m.pane \in exists' \ exists
                   /\ exists' = exists \cup {m.pane} /\ listed' = listed \cup {m.pane}
                   /\ alive' = alive \cup {m.pane} /\ m.pane \in Panes
                   /\ paneSize' = [paneSize EXCEPT ![m.pane] = Head(up).size]
                   /\ verdict' = [verdict EXCEPT ![s] = "opened"]
                \/ /\ m.t = "openError" /\ verdict' = [verdict EXCEPT ![s] = "refused"]
                   /\ UNCHANGED <<exists, listed, alive, paneSize>>
             /\ UNCHANGED <<tuiVars, fwd>>
<1>1. UNCHANGED <<tuiVars, fwd>>
  BY DEF DaemonOpens
<1>2. CASE \E p \in Panes \ exists :
             /\ exists' = exists \cup {p} /\ listed' = listed \cup {p}
             /\ alive' = alive \cup {p}
             /\ paneSize' = [paneSize EXCEPT ![p] = Head(up).size]
             /\ verdict' = [verdict EXCEPT ![s] = "opened"]
             /\ Say(Reply("opened", p, s))
  <2>1. PICK p \in Panes \ exists :
             /\ exists' = exists \cup {p} /\ listed' = listed \cup {p}
             /\ alive' = alive \cup {p}
             /\ paneSize' = [paneSize EXCEPT ![p] = Head(up).size]
             /\ verdict' = [verdict EXCEPT ![s] = "opened"]
             /\ down' = Append(down, Reply("opened", p, s))
    BY <1>2 DEF Say
  <2>2. /\ Reply("opened", p, s) \in ReplyRec
        /\ Reply("opened", p, s).t = "opened" /\ Reply("opened", p, s).pane = p
        /\ Reply("opened", p, s).sub = s
    BY TuiPanesConstants DEF Reply, ReplyRec, Panes, Subs
  <2>3. QED
    BY <1>1, <2>1, <2>2
<1>3. CASE /\ verdict' = [verdict EXCEPT ![s] = "refused"]
           /\ Say(Reply("openError", 0, s))
           /\ UNCHANGED <<exists, listed, alive, paneSize>>
  <2>1. /\ Reply("openError", 0, s) \in ReplyRec
        /\ Reply("openError", 0, s).t = "openError" /\ Reply("openError", 0, s).sub = s
    BY TuiPanesConstants DEF Reply, ReplyRec, Subs
  <2>2. QED
    BY <1>1, <1>3, <2>1 DEF Say
<1>4. QED
  BY <1>2, <1>3 DEF DaemonOpens

\* The same, of types and of the other requests.
LEMMA OpenTypes ==
    ASSUME IInv, DaemonOpens, NEW s, s = Head(up).sub, s \in Subs, Head(up).size \in Sizes
    PROVE  /\ TypeOK' /\ exists \subseteq exists'
           /\ verdict' \in [Subs -> Verdict] /\ \A r \in Subs \ {s} : verdict'[r] = verdict[r]
           /\ \A p \in exists : (p \in listed' <=> p \in listed) /\ paneSize'[p] = paneSize[p]
<1>1. PICK m \in ReplyRec :
             /\ down' = Append(down, m) /\ m.sub = s
             /\ \/ /\ m.t = "opened" /\ m.pane \in exists' \ exists
                   /\ exists' = exists \cup {m.pane} /\ listed' = listed \cup {m.pane}
                   /\ alive' = alive \cup {m.pane} /\ m.pane \in Panes
                   /\ paneSize' = [paneSize EXCEPT ![m.pane] = Head(up).size]
                   /\ verdict' = [verdict EXCEPT ![s] = "opened"]
                \/ /\ m.t = "openError" /\ verdict' = [verdict EXCEPT ![s] = "refused"]
                   /\ UNCHANGED <<exists, listed, alive, paneSize>>
             /\ UNCHANGED <<tuiVars, fwd>>
  BY OpenOutcome
<1>2. verdict' \in [Subs -> Verdict] /\ \A r \in Subs \ {s} : verdict'[r] = verdict[r]
  BY <1>1 DEF IInv, WireType, Verdict
<1>3. TypeOK'
  BY <1>1 DEF IInv, TypeOK, tuiVars, Live
<1>4. exists \subseteq exists' /\ exists \subseteq Panes
  BY <1>1 DEF IInv, TypeOK
<1>5. \A p \in exists : (p \in listed' <=> p \in listed) /\ paneSize'[p] = paneSize[p]
  BY <1>1, <1>4 DEF IInv, TypeOK
<1>6. QED
  BY <1>2, <1>3, <1>4, <1>5

\* The first open is answered.
LEMMA DaemonOpensRoot ==
    ASSUME IInv, phase \in {"listing", "opening"}, DaemonOpens PROVE IInv'
<1> DEFINE s == Head(up).sub
<1>1. up # <<>> /\ Head(up).t = "open" /\ up' = Tail(up)
  BY DEF DaemonOpens, Asked
<1>2. phase = "opening" /\ up' = <<>> /\ down = <<>> /\ Head(up) \in Range(up)
  BY <1>1, StartUp
<1>3. s \in Subs /\ fate[s] = "pending" /\ Head(up).size \in Sizes
  BY <1>1, <1>2 DEF IInv, CommandsKept
<1>4. s = Root
  BY <1>2, <1>3 DEF IInv, StartKept
<1>5. PICK m \in ReplyRec :
             /\ down' = Append(down, m) /\ m.sub = s
             /\ \/ /\ m.t = "opened" /\ m.pane \in exists' \ exists
                   /\ exists' = exists \cup {m.pane} /\ listed' = listed \cup {m.pane}
                   /\ alive' = alive \cup {m.pane} /\ m.pane \in Panes
                   /\ paneSize' = [paneSize EXCEPT ![m.pane] = Head(up).size]
                   /\ verdict' = [verdict EXCEPT ![s] = "opened"]
                \/ /\ m.t = "openError" /\ verdict' = [verdict EXCEPT ![s] = "refused"]
                   /\ UNCHANGED <<exists, listed, alive, paneSize>>
             /\ UNCHANGED <<tuiVars, fwd>>
  BY <1>3, OpenOutcome
<1>6. /\ TypeOK' /\ exists \subseteq exists'
      /\ verdict' \in [Subs -> Verdict] /\ \A r \in Subs \ {s} : verdict'[r] = verdict[r]
  BY <1>3, OpenTypes
<1>7. /\ down' \in Seq(ReplyRec) /\ Range(down') = {m} /\ Len(down') = 1 /\ Range(up') = {}
  <2>1. down' = <<m>>
    BY <1>2, <1>5, OneMessage
  <2>2. QED
    BY <1>2, <2>1, OneMessage, NoMessage
<1>8. UNCHANGED <<phase, stack, active, pending, size, nextSub, fate, fwd>>
  BY <1>5 DEF tuiVars
<1>9. ~Live' /\ TabsKept'
  BY <1>2, <1>6, <1>8 DEF IInv, TabsKept, Live
<1>10. StartKept'
  BY <1>2, <1>4, <1>6, <1>7, <1>8 DEF IInv, StartKept
<1>11. WireType' /\ CommandsKept'
  BY <1>2, <1>6, <1>7, <1>8 DEF IInv, WireType, CommandsKept
<1>12. RepliesKept'
  <2>1. m.t = "opened" => m.pane \in exists' /\ verdict'[s] = "opened"
    BY <1>3, <1>5 DEF IInv, WireType
  <2>2. m.t = "openError" => verdict'[s] = "refused"
    BY <1>3, <1>5 DEF IInv, WireType
  <2>3. QED
    BY <1>3, <1>5, <1>7, <1>8, <2>1, <2>2 DEF RepliesKept
<1>13. FatesKept'
  BY <1>3, <1>6, <1>8 DEF IInv, FatesKept
<1>14. QED
  BY <1>6, <1>9, <1>10, <1>11, <1>12, <1>13, NotYetLive

-----------------------------------------------------------------------------
(* Requests and their answers, once the TUI runs.                          *)

Awaited(q) == {q[i].sub : i \in DOMAIN q}
Increasing(q) == \A i, j \in DOMAIN q : i < j => q[i].sub < q[j].sub

\* The subscriptions that are awaited, and what is under way about them.
LEMMA AwaitedAre ==
    ASSUME IInv, Live
    PROVE  /\ pending \in Seq(PendingOpen) /\ Increasing(pending)
           /\ Awaited(pending) \subseteq Subs
           /\ \A s \in Subs : fate[s] = "pending" <=> s \in Awaited(pending)
           /\ \A s \in Awaited(pending) : s < nextSub
           /\ SubsOf(down, Answers) \cup SubsOf(up, {"open"}) = Awaited(pending)
           /\ \A a \in SubsOf(down, Answers) : \A o \in SubsOf(up, {"open"}) : a < o
           /\ \A a \in Subs : a \in Int
<1>1. pending \in Seq(PendingOpen) /\ nextSub \in Int
  BY DEF IInv, TypeOK
<1>2. \A i \in DOMAIN pending : pending[i] \in PendingOpen
  BY <1>1
<1>3. Awaited(pending) \subseteq Subs /\ \A a \in Subs : a \in Int
  BY <1>2 DEF Awaited, PendingOpen, Subs
<1>4. LinedUp
  BY DEF IInv
<1>5. \A s \in Subs : fate[s] = "pending" <=> s \in Awaited(pending)
  BY <1>4 DEF LinedUp, Awaited
<1>6. \A s \in Subs : s >= nextSub => fate[s] = "none"
  BY <1>4 DEF LinedUp
<1>7. \A s \in Awaited(pending) : s < nextSub
  BY <1>1, <1>3, <1>5, <1>6
<1>8. QED
  BY <1>1, <1>3, <1>4, <1>5, <1>7 DEF LinedUp, Increasing, Awaited

\* One request more, about a later subscription.
LEMMA AppendAwaited ==
    ASSUME NEW S, NEW q \in Seq(S), NEW e \in S, Increasing(q),
           \A s \in Awaited(q) : s < e.sub
    PROVE  Increasing(Append(q, e)) /\ Awaited(Append(q, e)) = Awaited(q) \cup {e.sub}
<1> DEFINE p == Append(q, e)
<1>1. /\ p[Len(q) + 1] = e /\ \A i \in DOMAIN q : p[i] = q[i]
      /\ DOMAIN q = 1 .. Len(q) /\ DOMAIN p = 1 .. Len(q) + 1 /\ Len(q) \in Nat
  BY AppendRange
<1>2. DOMAIN p = DOMAIN q \cup {Len(q) + 1}
  BY <1>1
<1>3. Awaited(p) = Awaited(q) \cup {e.sub}
  BY <1>1, <1>2 DEF Awaited
<1>4. SUFFICES ASSUME NEW i \in DOMAIN p, NEW j \in DOMAIN p, i < j PROVE p[i].sub < p[j].sub
  BY <1>3 DEF Increasing
<1>5. i \in DOMAIN q /\ p[i] = q[i]
  BY <1>1, <1>4
<1>6. CASE j \in DOMAIN q
  BY <1>1, <1>4, <1>5, <1>6 DEF Increasing
<1>7. CASE j \notin DOMAIN q
  BY <1>1, <1>2, <1>5, <1>7 DEF Awaited
<1>8. QED
  BY <1>6, <1>7

\* The oldest request is the one about the least subscription.
LEMMA TailAwaited ==
    ASSUME NEW S, NEW q \in Seq(S), q # <<>>, Increasing(q)
    PROVE  /\ Increasing(Tail(q)) /\ Awaited(q) = Awaited(Tail(q)) \cup {Head(q).sub}
           /\ \A s \in Awaited(Tail(q)) : Head(q).sub < s
           /\ Tail(q) \in Seq(S) /\ Len(Tail(q)) = Len(q) - 1
<1> DEFINE r == Tail(q)
<1>1. /\ Len(r) = Len(q) - 1 /\ Len(q) > 0 /\ Head(q) = q[1] /\ r \in Seq(S)
      /\ \A i \in 1 .. Len(q) - 1 : r[i] = q[i + 1] /\ i + 1 \in 1 .. Len(q)
      /\ DOMAIN q = 1 .. Len(q) /\ DOMAIN r = 1 .. Len(q) - 1 /\ Len(q) \in Nat
  BY TailRange
<1>2. Increasing(r)
  <2>1. SUFFICES ASSUME NEW i \in 1 .. Len(q) - 1, NEW j \in 1 .. Len(q) - 1, i < j
                 PROVE  r[i].sub < r[j].sub
    BY <1>1 DEF Increasing
  <2>2. r[i] = q[i + 1] /\ r[j] = q[j + 1] /\ i + 1 \in 1 .. Len(q) /\ j + 1 \in 1 .. Len(q)
    BY <1>1
  <2>3. i + 1 < j + 1
    BY <2>1
  <2>4. QED
    BY <1>1, <2>2, <2>3 DEF Increasing
<1>3. \A s \in Awaited(r) : Head(q).sub < s
  <2>1. SUFFICES ASSUME NEW i \in 1 .. Len(q) - 1 PROVE Head(q).sub < r[i].sub
    BY <1>1 DEF Awaited
  <2>2. r[i] = q[i + 1] /\ i + 1 \in 1 .. Len(q) /\ 1 < i + 1 /\ 1 \in 1 .. Len(q)
    BY <1>1
  <2>3. QED
    BY <1>1, <2>2 DEF Increasing
<1>4. Awaited(r) \subseteq Awaited(q) /\ Head(q).sub \in Awaited(q)
  BY <1>1 DEF Awaited
<1>5. Awaited(q) \subseteq Awaited(r) \cup {Head(q).sub}
  <2>1. SUFFICES ASSUME NEW i \in 1 .. Len(q), i # 1 PROVE q[i].sub \in Awaited(r)
    BY <1>1 DEF Awaited
  <2>2. i - 1 \in 1 .. Len(q) - 1 /\ (i - 1) + 1 = i
    BY <2>1
  <2>3. q[i] = r[i - 1]
    BY <1>1, <2>2
  <2>4. QED
    BY <1>1, <2>2, <2>3 DEF Awaited
<1>6. QED
  BY <1>1, <1>2, <1>3, <1>4, <1>5

\* The daemon answers an open: the answer goes behind the others, its request was the
\* first of those left.
LEMMA DaemonOpensStep == ASSUME IInv, Live, DaemonOpens PROVE IInv'
<1> DEFINE s == Head(up).sub
<1>1. up # <<>> /\ Head(up).t = "open" /\ up' = Tail(up)
  BY DEF DaemonOpens, Asked
<1>2. /\ up \in Seq(CommandRec) /\ down \in Seq(ReplyRec) /\ Head(up) \in Range(up)
      /\ up' \in Seq(CommandRec) /\ Range(up') \subseteq Range(up)
      /\ InOrder(up, {"open"}) /\ InOrder(down, Answers)
  BY <1>1, TabsAre, TailRange DEF IInv, LinedUp
<1>3. s \in Subs /\ fate[s] = "pending" /\ verdict[s] = "none" /\ Head(up).size \in Sizes
  BY <1>1, <1>2 DEF IInv, CommandsKept
<1>4. PICK m \in ReplyRec :
             /\ down' = Append(down, m) /\ m.sub = s
             /\ \/ /\ m.t = "opened" /\ m.pane \in exists' \ exists
                   /\ exists' = exists \cup {m.pane} /\ listed' = listed \cup {m.pane}
                   /\ alive' = alive \cup {m.pane} /\ m.pane \in Panes
                   /\ paneSize' = [paneSize EXCEPT ![m.pane] = Head(up).size]
                   /\ verdict' = [verdict EXCEPT ![s] = "opened"]
                \/ /\ m.t = "openError" /\ verdict' = [verdict EXCEPT ![s] = "refused"]
                   /\ UNCHANGED <<exists, listed, alive, paneSize>>
             /\ UNCHANGED <<tuiVars, fwd>>
  BY <1>3, OpenOutcome
<1>5. /\ TypeOK' /\ exists \subseteq exists'
      /\ verdict' \in [Subs -> Verdict] /\ \A r \in Subs \ {s} : verdict'[r] = verdict[r]
      /\ \A p \in exists : (p \in listed' <=> p \in listed) /\ paneSize'[p] = paneSize[p]
  BY <1>3, OpenTypes
<1>6. /\ UNCHANGED <<phase, stack, active, pending, size, nextSub, fate, fwd>> /\ Live'
  BY <1>4 DEF tuiVars, Live
<1>7. m.t \in Answers
  BY <1>4 DEF Answers
<1>8. /\ InOrder(up', {"open"})
      /\ SubsOf(up, {"open"}) = SubsOf(up', {"open"}) \cup {s}
      /\ \A o \in SubsOf(up', {"open"}) : s < o
  <2>1. \A n \in CommandRec : n.sub \in Int
    BY TuiPanesConstants DEF CommandRec
  <2>2. \A n \in Range(up) : n.sub \in Int
    BY <1>2, <2>1 DEF Range
  <2>3. QED
    BY <1>1, <1>2, <2>2, TailInOrder
<1>9. /\ down' \in Seq(ReplyRec) /\ Range(down') = Range(down) \cup {m}
      /\ SubsOf(down', Answers) = SubsOf(down, Answers) \cup {s}
      /\ SubsOf(down', {"exit"}) = SubsOf(down, {"exit"})
  <2>1. m.t # "exit"
    BY <1>4
  <2>2. down' \in Seq(ReplyRec) /\ Range(down') = Range(down) \cup {m}
    BY <1>2, <1>4, AppendRange
  <2>3. \A T : SubsOf(down', T) = SubsOf(down, T) \cup (IF m.t \in T THEN {m.sub} ELSE {})
    BY <1>2, <1>4, AppendSubs
  <2>4. QED
    BY <1>4, <1>7, <2>1, <2>2, <2>3
<1>10. \A a \in SubsOf(down, Answers) : a < s /\ a \in Subs
  <2>1. s \in SubsOf(up, {"open"}) /\ SubsOf(down, Answers) \subseteq Awaited(pending)
    BY <1>8, AwaitedAre
  <2>2. QED
    BY <2>1, AwaitedAre
<1>11. InOrder(down', Answers)
  BY <1>2, <1>4, <1>10, AppendInOrder
<1>12. LinedUp'
  <2>1. \A a \in SubsOf(down', Answers) : \A o \in SubsOf(up', {"open"}) : a < o
    BY <1>8, <1>9, AwaitedAre
  <2>2. SubsOf(down', Answers) \cup SubsOf(up', {"open"}) = Awaited(pending)
    BY <1>8, <1>9, AwaitedAre
  <2>3. s < nextSub /\ s \in Int /\ nextSub \in Int
    BY <1>3, AwaitedAre DEF IInv, TypeOK
  <2>4. \A r \in Subs : r >= nextSub => r # s
    BY <2>3
  <2>5. \A r \in Subs : r >= nextSub => fate[r] = "none" /\ verdict'[r] = "none"
    BY <1>5, <2>4 DEF IInv, LinedUp
  <2>6. QED
    BY <1>6, <1>8, <1>11, <2>1, <2>2, <2>5 DEF IInv, LinedUp, Awaited
<1>13. WireType' /\ StartKept' /\ TabsKept'
  BY <1>2, <1>5, <1>6, <1>9 DEF IInv, WireType, StartKept, TabsKept, Live
<1>14. CommandsKept'
  <2>1. \A n \in Range(up') : n.t = "open" => s < n.sub
    BY <1>8 DEF SubsOf
  <2>2. \A n \in Range(up') : n.t = "open" => n.sub \in Subs /\ n.sub # s
    BY <1>2, <1>3, <2>1, AwaitedAre DEF IInv, CommandsKept
  <2>3. QED
    BY <1>2, <1>5, <1>6, <2>2 DEF IInv, CommandsKept
<1>15. RepliesKept'
  <2>1. \A n \in Range(down) : n.t \in Answers => n.sub # s
    BY <1>3, <1>10, AwaitedAre DEF SubsOf
  <2>2. m.t = "opened" => m.pane \in exists' /\ verdict'[s] = "opened"
    BY <1>3, <1>4 DEF IInv, WireType
  <2>3. m.t = "openError" => verdict'[s] = "refused"
    BY <1>3, <1>4 DEF IInv, WireType
  <2>4. SUFFICES ASSUME NEW n \in Range(down')
                 PROVE  /\ n.t = "list" => n.pane \in exists' \cup {0}
                        /\ n.t = "opened" => /\ n.sub \in Subs /\ n.pane \in exists'
                                             /\ fate[n.sub] = "pending" /\ verdict'[n.sub] = "opened"
                        /\ n.t = "openError" => /\ n.sub \in Subs
                                                /\ fate[n.sub] = "pending" /\ verdict'[n.sub] = "refused"
                        /\ n.t = "exit" => n.sub \in Subs
    BY <1>6 DEF RepliesKept
  <2>5. CASE n = m
    BY <1>3, <1>4, <1>7, <2>2, <2>3, <2>5 DEF Answers
  <2>6. CASE n \in Range(down)
    BY <1>5, <2>1, <2>6 DEF IInv, RepliesKept, Answers
  <2>7. QED
    BY <1>9, <2>5, <2>6
<1>16. FatesKept'
  BY <1>3, <1>5, <1>6 DEF IInv, FatesKept
<1>17. ASSUME NEW i \in DOMAIN stack
       PROVE  /\ stack[i].sub \in Subs /\ stack[i].sub # s /\ stack[i].pane \in exists
              /\ verdict'[stack[i].sub] = verdict[stack[i].sub]
  <2>1. stack[i].sub \in Subs /\ fate[stack[i].sub] = "tab"
    BY TabsAre
  <2>2. QED
    BY <1>3, <1>5, <2>1 DEF IInv, TabsKept
<1>18. TabIsServed'
  <2>1. SubsOf(up', {"attach"}) = SubsOf(up, {"attach"})
    BY <1>1, <1>2, TailSubs
  <2>2. \A r : /\ InFlight(up, "attach", r) => InFlight(up', "attach", r)
               /\ InFlight(down, "exit", r) => InFlight(down', "exit", r)
    BY <1>9, <2>1, InFlightSubs
  <2>3. SUFFICES ASSUME NEW i \in DOMAIN stack
                 PROVE  LET r == stack[i].sub IN
                        \/ InFlight(up', "attach", r) \/ InFlight(down', "exit", r)
                        \/ fwd[r].pane = stack[i].pane /\ fwd[r].st \in {"new", "live"}
                        \/ verdict'[r] = "unattached"
    BY <1>6 DEF TabIsServed, InFlight
  <2>4. QED
    BY <1>17, <2>2 DEF IInv, TabIsServed
<1>19. TabFitsTile'
  <2>1. ASSUME NEW i \in DOMAIN stack, stack[i].pane \in listed'
        PROVE  Fits(up', stack[i].pane, size, paneSize'[stack[i].pane])
    <3>1. Fits(up, stack[i].pane, size, paneSize[stack[i].pane])
      BY <1>5, <1>17, <2>1, FitsTile DEF IInv
    <3>2. 1 \notin Resizes(up, stack[i].pane)
      BY <1>1, <1>2 DEF Resizes
    <3>3. paneSize'[stack[i].pane] = paneSize[stack[i].pane]
      BY <1>5, <1>17
    <3>4. QED
      BY <1>1, <1>2, <3>1, <3>2, <3>3, FitsTail
  <2>2. QED
    BY <1>6, <2>1, FitsTileNext
<1>20. QED
  BY <1>5, <1>12, <1>13, <1>14, <1>15, <1>16, <1>18, <1>19 DEF IInv

\* A tab is asked for: the open goes behind the others, its request is the latest.
LEMMA AskedStep ==
    ASSUME IInv, Live, Live', NEW q \in Seq(CommandRec),
           InOrder(q, {"open"}), SubsOf(q, {"open"}) = SubsOf(up, {"open"}),
           SubsOf(up, {"attach"}) \subseteq SubsOf(q, {"attach"}),
           \A m \in Range(q) : \/ m \in Range(up) \/ m.t = "close"
                               \/ m.t = "unsub" /\ m.sub \in Subs /\ fate'[m.sub] = "over",
           \A i \in DOMAIN stack : Fits(up, stack[i].pane, size, paneSize[stack[i].pane])
                                       => Fits(q, stack[i].pane, size, paneSize[stack[i].pane]),
           nextSub \in Subs, fate' \in [Subs -> Fate], fate'[nextSub] = "pending",
           \A s \in Subs \ {nextSub} : fate'[s] = fate[s] \/ (fate[s] = "tab" /\ fate'[s] = "over"),
           up' = Append(q, Command("open", 0, nextSub, size)),
           NEW e \in PendingOpen, e.sub = nextSub, pending' = Append(pending, e),
           nextSub' = nextSub + 1, UNCHANGED <<phase, focus, size, down, daemonVars>>,
           \/ stack' = <<>> /\ active' = 1
           \/ stack' = stack /\ active' = active /\ \A s \in Subs \ {nextSub} : fate'[s] = fate[s]
    PROVE  IInv'
<1> DEFINE m == Command("open", 0, nextSub, size)
<1>1. /\ m \in CommandRec /\ m.t = "open" /\ m.sub = nextSub /\ m.size = size /\ m.size \in Sizes
      /\ up' = Append(q, m)
  BY TuiPanesConstants DEF Command, CommandRec, Subs, Sizes, IInv, TypeOK
<1> HIDE DEF m
<1>2. /\ pending \in Seq(PendingOpen) /\ Increasing(pending)
      /\ Awaited(pending) \subseteq Subs
      /\ \A s \in Subs : fate[s] = "pending" <=> s \in Awaited(pending)
      /\ \A s \in Awaited(pending) : s < nextSub
      /\ SubsOf(down, Answers) \cup SubsOf(up, {"open"}) = Awaited(pending)
      /\ \A a \in SubsOf(down, Answers) : \A o \in SubsOf(up, {"open"}) : a < o
      /\ \A a \in Subs : a \in Int
  BY AwaitedAre
<1>3. fate[nextSub] = "none" /\ verdict[nextSub] = "none"
  BY <1>2 DEF IInv, LinedUp
<1>4. Increasing(pending') /\ Awaited(pending') = Awaited(pending) \cup {nextSub}
      /\ pending' \in Seq(PendingOpen) /\ Len(pending') = Len(pending) + 1
  BY <1>2, AppendAwaited, AppendRange
<1>5. /\ up' \in Seq(CommandRec) /\ Range(up') = Range(q) \cup {m}
      /\ \A T : SubsOf(up', T) = SubsOf(q, T) \cup (IF m.t \in T THEN {m.sub} ELSE {})
  BY <1>1, AppendRange, AppendSubs
<1>6. SubsOf(up', {"open"}) = SubsOf(up, {"open"}) \cup {nextSub}
      /\ SubsOf(up, {"attach"}) \subseteq SubsOf(up', {"attach"})
  BY <1>1, <1>5
<1>7. InOrder(up', {"open"})
  <2>1. \A s \in SubsOf(q, {"open"}) : s < m.sub
    BY <1>1, <1>2
  <2>2. QED
    BY <1>1, <2>1, AppendInOrder
<1>8. LinedUp'
  <2>1. \A a \in SubsOf(down, Answers) : \A o \in SubsOf(up', {"open"}) : a < o
    <3>1. \A a \in SubsOf(down, Answers) : a < nextSub
      BY <1>2
    <3>2. QED
      BY <1>2, <1>6, <3>1
  <2>2. SubsOf(down, Answers) \cup SubsOf(up', {"open"}) = Awaited(pending')
    BY <1>2, <1>4, <1>6
  <2>3. \A s \in Subs : fate'[s] = "pending" <=> s \in Awaited(pending')
    <3>1. SUFFICES ASSUME NEW s \in Subs PROVE fate'[s] = "pending" <=> s \in Awaited(pending')
      OBVIOUS
    <3>2. CASE s = nextSub
      BY <1>4, <3>2
    <3>3. CASE s # nextSub
      BY <1>2, <1>4, <3>3
    <3>4. QED
      BY <3>2, <3>3
  <2>4. \A s \in Subs : s >= nextSub + 1 => fate'[s] = "none" /\ verdict[s] = "none"
    <3>1. SUFFICES ASSUME NEW s \in Subs, s >= nextSub + 1
                   PROVE  fate'[s] = "none" /\ verdict[s] = "none"
      OBVIOUS
    <3>2. s >= nextSub /\ s # nextSub
      BY <1>2, <3>1
    <3>3. fate[s] = "none" /\ verdict[s] = "none"
      BY <3>2 DEF IInv, LinedUp
    <3>4. QED
      BY <3>2, <3>3
  <2>5. InOrder(down, Answers)
    BY DEF IInv, LinedUp
  <2>6. \A s \in Subs : s >= nextSub' => fate'[s] = "none" /\ verdict'[s] = "none"
    BY <2>4 DEF daemonVars
  <2>7. \A s \in Subs : fate'[s] = "pending" <=> \E i \in DOMAIN pending' : pending'[i].sub = s
    BY <2>3 DEF Awaited
  <2>8. QED
    BY <1>4, <1>7, <2>1, <2>2, <2>5, <2>6, <2>7 DEF LinedUp, Increasing, Awaited
<1>9. WireType' /\ StartKept'
  BY <1>5 DEF IInv, WireType, StartKept, daemonVars, Live
<1>10. CommandsKept'
  <2>1. SUFFICES ASSUME NEW n \in Range(up')
                 PROVE  /\ n.t = "list" => phase' = "listing"
                        /\ n.t = "open" => /\ n.sub \in Subs /\ n.size \in Sizes
                                           /\ fate'[n.sub] = "pending" /\ verdict'[n.sub] = "none"
                        /\ n.t = "attach" => /\ n.sub \in Subs /\ n.pane \in Panes
                                             /\ fate'[n.sub] \in {"tab", "over"}
                                             /\ \A i \in DOMAIN stack' :
                                                   stack'[i].sub = n.sub => stack'[i].pane = n.pane
                        /\ n.t = "resize" => n.pane \in Panes /\ n.size \in Sizes
                        /\ n.t = "unsub" => n.sub \in Subs /\ fate'[n.sub] = "over"
    BY DEF CommandsKept
  <2>2. CASE n = m
    BY <1>1, <1>3, <2>2 DEF daemonVars
  <2>3. CASE n \in Range(up)
    <3>1. n.t \in {"open", "attach", "unsub"} => n.sub \in Subs /\ n.sub # nextSub
      BY <1>3, <2>3 DEF IInv, CommandsKept
    <3>2. n.t \in {"open", "attach", "unsub"} =>
              fate'[n.sub] = fate[n.sub] \/ (fate[n.sub] = "tab" /\ fate'[n.sub] = "over")
      BY <3>1
    <3>3. QED
      BY <2>3, <3>1, <3>2 DEF IInv, CommandsKept, daemonVars
  <2>4. CASE n \in Range(q) /\ n \notin Range(up)
    BY <2>4
  <2>5. QED
    BY <1>5, <2>2, <2>3, <2>4
<1>11. RepliesKept'
  <2>1. \A n \in Range(down) : n.t \in {"opened", "openError"} =>
            n.sub \in Subs /\ fate[n.sub] = "pending" /\ n.sub # nextSub
    BY <1>3 DEF IInv, RepliesKept
  <2>2. \A n \in Range(down) : n.t \in {"opened", "openError"} => fate'[n.sub] = "pending"
    BY <2>1
  <2>3. QED
    BY <2>2 DEF IInv, RepliesKept, daemonVars
<1>12. FatesKept'
  <2>1. ASSUME NEW s \in Subs
        PROVE  (fate'[s] = "failed" => fate[s] = "failed") /\ (fate'[s] = "tab" => fate[s] = "tab")
    BY <2>1
  <2>2. QED
    BY <2>1 DEF IInv, FatesKept, daemonVars
<1>13. \A i \in DOMAIN stack' : /\ i \in DOMAIN stack /\ stack'[i] = stack[i]
                               /\ stack[i].sub \in Subs /\ stack[i].sub # nextSub
                               /\ fate'[stack[i].sub] = "tab"
  <2>1. CASE stack' = <<>>
    BY <2>1
  <2>2. CASE stack' = stack /\ \A s \in Subs \ {nextSub} : fate'[s] = fate[s]
    BY <1>3, <2>2, TabsAre
  <2>3. QED
    BY <2>1, <2>2
<1>14. Len(stack') \in Nat /\ Len(stack') <= Len(stack)
  BY TabsAre
<1>15. TabsKept'
  <2>1. /\ Len(stack) + Len(pending) <= nextSub - 1
        /\ nextSub \in Int /\ Len(stack) \in Int /\ Len(pending) \in Int
    BY <1>2, TabsAre DEF IInv, TabsKept
  <2>2. Len(stack') + Len(pending') <= nextSub' - 1
    BY <1>4, <1>14, <2>1
  <2>3. QED
    BY <1>13, <2>2 DEF IInv, TabsKept, daemonVars
<1>16. TypeOK'
  <2>1. nextSub' \in 1 .. MaxSubs + 1
    BY TuiPanesConstants DEF Subs
  <2>2. active' \in 1 .. MaxSubs /\ (stack' # <<>> => active' <= Len(stack'))
        /\ stack' \in Seq(PaneEntry)
    <3>1. 1 \in 1 .. MaxSubs
      BY TuiPanesConstants
    <3>2. CASE stack' = <<>> /\ active' = 1
      BY <3>1, <3>2
    <3>3. CASE stack' = stack /\ active' = active
      BY <3>3 DEF IInv, TypeOK
    <3>4. QED
      BY <3>2, <3>3
  <2>3. QED
    BY <1>4, <2>1, <2>2 DEF IInv, TypeOK, daemonVars
<1>17. TabIsServed'
  <2>1. SUFFICES ASSUME NEW i \in DOMAIN stack'
                 PROVE  LET r == stack'[i].sub IN
                        \/ InFlight(up', "attach", r) \/ InFlight(down, "exit", r)
                        \/ fwd[r].pane = stack'[i].pane /\ fwd[r].st \in {"new", "live"}
                        \/ verdict[r] = "unattached"
    BY DEF TabIsServed, InFlight, daemonVars
  <2>2. i \in DOMAIN stack /\ stack'[i] = stack[i]
    BY <1>13
  <2>3. InFlight(up, "attach", stack[i].sub) => InFlight(up', "attach", stack[i].sub)
    BY <1>6, InFlightSubs
  <2>4. QED
    BY <2>2, <2>3 DEF IInv, TabIsServed
<1>18. TabFitsTile'
  <2>1. ASSUME NEW i \in DOMAIN stack', stack'[i].pane \in listed
        PROVE  Fits(up', stack'[i].pane, size, paneSize[stack'[i].pane])
    <3>1. i \in DOMAIN stack /\ stack'[i] = stack[i]
      BY <1>13
    <3>2. Fits(q, stack[i].pane, size, paneSize[stack[i].pane])
      BY <2>1, <3>1, FitsTile DEF IInv
    <3>3. up' = q \o <<m>> /\ <<m>> \in Seq(CommandRec) /\ Range(<<m>>) = {m}
      BY <1>1, FewMessages
    <3>4. Resizes(<<m>>, stack[i].pane) = {}
      BY <1>1, <3>3 DEF Resizes, Range
    <3>5. Fits(q \o <<m>>, stack[i].pane, size, paneSize[stack[i].pane])
      BY <3>2, <3>3, <3>4, FitsJoin
    <3>6. QED
      BY <3>1, <3>3, <3>5
  <2>2. QED
    BY <2>1, FitsTileNext DEF daemonVars
<1>19. QED
  BY <1>8, <1>9, <1>10, <1>11, <1>12, <1>15, <1>16, <1>17, <1>18 DEF IInv

\* Enter on a Fleet row.
LEMMA OpenRemoteStep == ASSUME IInv, OpenRemote PROVE IInv'
<1> DEFINE e == [sub |-> nextSub, alias |-> "remote"]
<1>1. /\ Live /\ nextSub \in Subs /\ pending' = Append(pending, e) /\ nextSub' = nextSub + 1
      /\ fate' = [fate EXCEPT ![nextSub] = "pending"]
      /\ up' = Append(up, Command("open", 0, nextSub, size))
      /\ UNCHANGED <<phase, stack, active, focus, size, down, daemonVars>>
  BY DEF OpenRemote
<1>2. e \in PendingOpen /\ e.sub = nextSub
  BY <1>1 DEF PendingOpen
<1>3. /\ fate' \in [Subs -> Fate] /\ fate'[nextSub] = "pending"
      /\ \A s \in Subs \ {nextSub} : fate'[s] = fate[s]
  BY <1>1 DEF IInv, WireType, Fate
<1>4. up \in Seq(CommandRec) /\ InOrder(up, {"open"}) /\ Live'
  BY <1>1, TabsAre DEF IInv, LinedUp, Live
<1> HIDE DEF e
<1>5. QED
  BY <1>1, <1>2, <1>3, <1>4, AskedStep

\* The last tab is closed, and a local shell asked for in its place.
LEMMA CloseLastStep == ASSUME IInv, CloseActive, Len(stack) = 1 PROVE IInv'
<1> DEFINE tab == stack[active]
           e == [sub |-> nextSub, alias |-> "local"]
           m == Command("open", 0, nextSub, size)
           q == up \o Bye(tab)
<1>1. /\ Live /\ stack # <<>> /\ nextSub \in Subs /\ nextSub' = nextSub + 1
      /\ pending' = Append(pending, e)
      /\ up' = up \o Bye(tab) \o <<m>>
      /\ fate' = [fate EXCEPT ![tab.sub] = "over", ![nextSub] = "pending"]
      /\ stack' = <<>> /\ active' = 1
      /\ UNCHANGED <<phase, focus, size, down, daemonVars>>
  BY DEF CloseActive, Bye
<1>2. /\ tab \in PaneEntry /\ tab.sub \in Subs /\ fate[tab.sub] = "tab"
      /\ up \in Seq(CommandRec) /\ InOrder(up, {"open"})
  BY <1>1, TabsAre DEF IInv, LinedUp
<1>3. fate[nextSub] = "none"
  BY <1>1, AwaitedAre DEF IInv, LinedUp
<1>4. /\ fate' \in [Subs -> Fate] /\ fate'[nextSub] = "pending" /\ fate'[tab.sub] = "over"
      /\ \A s \in Subs \ {nextSub} : fate'[s] = fate[s] \/ (fate[s] = "tab" /\ fate'[s] = "over")
  BY <1>1, <1>2, <1>3 DEF IInv, WireType, Fate
<1>5. e \in PendingOpen /\ e.sub = nextSub
  BY <1>1 DEF PendingOpen
<1>6. m \in CommandRec
  BY <1>1, TuiPanesConstants DEF Command, CommandRec, Subs, Sizes, IInv, TypeOK
<1>7. /\ Bye(tab) \in Seq(CommandRec)
      /\ \A n \in Range(Bye(tab)) : n.t = "close" \/ (n.t = "unsub" /\ n.sub = tab.sub)
      /\ \A p : Resizes(Bye(tab), p) = {}
  BY <1>2, ByeIsPlain
<1> HIDE DEF tab, e
<1>8. /\ q \in Seq(CommandRec) /\ Range(q) = Range(up) \cup Range(Bye(tab))
  BY <1>2, <1>7, JoinRange
<1>9. InOrder(q, {"open"}) /\ SubsOf(q, {"open"}) = SubsOf(up, {"open"})
  <2>1. \A n \in Range(Bye(tab)) : n.t \notin {"open"}
    BY <1>7
  <2>2. QED
    BY <1>2, <1>7, <2>1, JoinInOrder
<1>10. \A i \in DOMAIN stack : Fits(up, stack[i].pane, size, paneSize[stack[i].pane])
                                  => Fits(q, stack[i].pane, size, paneSize[stack[i].pane])
  BY <1>2, <1>7, FitsJoin
<1> HIDE DEF m, q
<1>11. up' = Append(q, m)
  BY <1>1, <1>6, <1>8, FewMessages DEF q
<1>12. SubsOf(up, {"attach"}) \subseteq SubsOf(q, {"attach"})
  BY <1>8 DEF SubsOf
<1>13. \A n \in Range(q) : \/ n \in Range(up) \/ n.t = "close"
                           \/ n.t = "unsub" /\ n.sub \in Subs /\ fate'[n.sub] = "over"
  BY <1>2, <1>4, <1>7, <1>8
<1>14. Live' /\ up' = Append(q, Command("open", 0, nextSub, size))
  BY <1>1, <1>11 DEF Live, m
<1>15. QED
  BY <1>1, <1>4, <1>5, <1>8, <1>9, <1>10, <1>12, <1>13, <1>14, AskedStep

\* The first answer in flight is the oldest request's.
LEMMA TakeAnswer ==
    ASSUME IInv, Live, down # <<>>, Head(down).t \in Answers, NEW s, s = Head(down).sub
    PROVE  /\ pending # <<>> /\ Head(pending).sub = s
           /\ s \in Subs /\ fate[s] = "pending" /\ Head(down) \in Range(down)
           /\ Tail(down) \in Seq(ReplyRec) /\ Range(Tail(down)) \subseteq Range(down)
           /\ InOrder(Tail(down), Answers)
           /\ SubsOf(Tail(down), {"exit"}) = SubsOf(down, {"exit"})
           /\ Tail(pending) \in Seq(PendingOpen) /\ Len(Tail(pending)) = Len(pending) - 1
           /\ Increasing(Tail(pending))
           /\ Awaited(pending) = Awaited(Tail(pending)) \cup {s}
           /\ SubsOf(Tail(down), Answers) \cup SubsOf(up, {"open"}) = Awaited(Tail(pending))
           /\ \A r \in Awaited(Tail(pending)) : s < r /\ r \in Subs
           /\ s \notin SubsOf(up, {"open"})
<1>1. /\ pending \in Seq(PendingOpen) /\ Increasing(pending)
      /\ Awaited(pending) \subseteq Subs
      /\ \A r \in Subs : fate[r] = "pending" <=> r \in Awaited(pending)
      /\ SubsOf(down, Answers) \cup SubsOf(up, {"open"}) = Awaited(pending)
      /\ \A a \in SubsOf(down, Answers) : \A o \in SubsOf(up, {"open"}) : a < o
      /\ \A a \in Subs : a \in Int
  BY AwaitedAre
<1>2. /\ down \in Seq(ReplyRec) /\ InOrder(down, Answers)
      /\ Tail(down) \in Seq(ReplyRec) /\ Range(Tail(down)) \subseteq Range(down)
      /\ Head(down) \in Range(down)
  BY TabsAre, TailRange DEF IInv, LinedUp
<1>3. SubsOf(Tail(down), {"exit"}) = SubsOf(down, {"exit"})
  BY <1>2, TailSubs DEF Answers
<1>4. /\ InOrder(Tail(down), Answers)
      /\ SubsOf(down, Answers) = SubsOf(Tail(down), Answers) \cup {s}
      /\ \A r \in SubsOf(Tail(down), Answers) : s < r
  <2>1. \A n \in ReplyRec : n.sub \in Int
    BY TuiPanesConstants DEF ReplyRec
  <2>2. \A n \in Range(down) : n.sub \in Int
    BY <1>2, <2>1 DEF Range
  <2>3. QED
    BY <1>2, <2>2, TailInOrder
<1>5. s \in Awaited(pending) /\ s \in Subs /\ fate[s] = "pending"
  BY <1>1, <1>4
<1>6. pending # <<>>
  BY <1>5 DEF Awaited
<1>7. /\ Increasing(Tail(pending)) /\ Awaited(pending) = Awaited(Tail(pending)) \cup {Head(pending).sub}
      /\ \A r \in Awaited(Tail(pending)) : Head(pending).sub < r
      /\ Tail(pending) \in Seq(PendingOpen) /\ Len(Tail(pending)) = Len(pending) - 1
  BY <1>1, <1>6, TailAwaited
<1>8. \A r \in Awaited(pending) \ {s} : s < r
  BY <1>1, <1>4
<1>9. Head(pending).sub = s
  <2>1. Head(pending).sub \in Awaited(pending) /\ Head(pending).sub \in Int /\ s \in Int
    BY <1>1, <1>5, <1>7
  <2>2. CASE Head(pending).sub # s
    <3>1. s < Head(pending).sub
      BY <1>8, <2>1, <2>2
    <3>2. s \in Awaited(Tail(pending))
      BY <1>5, <1>7, <2>2
    <3>3. Head(pending).sub < s
      BY <1>7, <3>2
    <3>4. QED
      BY <2>1, <3>1, <3>3
  <2>3. QED
    BY <2>2
<1>10. \A r \in Awaited(Tail(pending)) : s < r /\ r \in Subs
  BY <1>1, <1>7, <1>9
<1>11. s \notin Awaited(Tail(pending))
  BY <1>1, <1>5, <1>10
<1>12. s \notin SubsOf(Tail(down), Answers) /\ s \notin SubsOf(up, {"open"})
  BY <1>1, <1>4, <1>5
<1>13. SubsOf(Tail(down), Answers) \cup SubsOf(up, {"open"}) = Awaited(Tail(pending))
  BY <1>1, <1>4, <1>7, <1>9, <1>11, <1>12
<1>14. QED
  BY <1>2, <1>3, <1>4, <1>5, <1>6, <1>7, <1>9, <1>10, <1>12, <1>13

\* The oldest request is answered with its own outcome.
LEMMA AnsweredStep ==
    ASSUME IInv, Live, down # <<>>, Head(down).t \in Answers, NEW s, s = Head(down).sub,
           down' = Tail(down), pending' = Tail(pending),
           NEW x \in {"tab", "failed"}, fate' = [fate EXCEPT ![s] = x],
           x = "failed" => verdict[s] = "refused", x = "tab" => verdict[s] = "opened",
           UNCHANGED <<phase, nextSub, size, daemonVars>>,
           up' \in Seq(CommandRec), InOrder(up', {"open"}), SubsOf(up', {"open"}) = SubsOf(up, {"open"})
    PROVE  /\ WireType' /\ StartKept' /\ RepliesKept' /\ LinedUp' /\ FatesKept' /\ Live'
           /\ fate'[s] = x /\ \A r \in Subs \ {s} : fate'[r] = fate[r]
<1>1. /\ pending # <<>> /\ Head(pending).sub = s
      /\ s \in Subs /\ fate[s] = "pending" /\ Head(down) \in Range(down)
      /\ down' \in Seq(ReplyRec) /\ Range(down') \subseteq Range(down)
      /\ InOrder(down', Answers)
      /\ Increasing(pending') /\ Awaited(pending) = Awaited(pending') \cup {s}
      /\ SubsOf(down', Answers) \cup SubsOf(up, {"open"}) = Awaited(pending')
      /\ \A r \in Awaited(pending') : s < r /\ r \in Subs
  BY TakeAnswer
<1>2. /\ fate'[s] = x /\ fate' \in [Subs -> Fate]
      /\ \A r \in Subs \ {s} : fate'[r] = fate[r]
  BY <1>1 DEF IInv, WireType, Fate
<1>3. /\ \A r \in Subs : fate[r] = "pending" <=> r \in Awaited(pending)
      /\ \A a \in SubsOf(down, Answers) : \A o \in SubsOf(up, {"open"}) : a < o
      /\ \A a \in Subs : a \in Int
      /\ \A r \in Subs : r >= nextSub => fate[r] = "none" /\ verdict[r] = "none"
  BY AwaitedAre DEF IInv, LinedUp
<1>4. s \notin Awaited(pending')
  BY <1>1, <1>3
<1>5. Live' /\ WireType' /\ StartKept'
  BY <1>1, <1>2 DEF IInv, WireType, StartKept, Live, daemonVars
<1>6. RepliesKept'
  <2>1. \A n \in Range(down') : n.t \in Answers => n.sub # s
    BY <1>1, <1>4 DEF SubsOf
  <2>2. SUFFICES ASSUME NEW n \in Range(down')
                 PROVE  /\ n.t = "list" => n.pane \in exists \cup {0}
                        /\ n.t = "opened" => /\ n.sub \in Subs /\ n.pane \in exists
                                             /\ fate'[n.sub] = "pending" /\ verdict[n.sub] = "opened"
                        /\ n.t = "openError" => /\ n.sub \in Subs
                                                /\ fate'[n.sub] = "pending" /\ verdict[n.sub] = "refused"
                        /\ n.t = "exit" => n.sub \in Subs
    BY DEF RepliesKept, daemonVars
  <2>3. QED
    BY <1>1, <1>2, <2>1 DEF IInv, RepliesKept, Answers
<1>7. LinedUp'
  <2>1. \A a \in SubsOf(down', Answers) : \A o \in SubsOf(up', {"open"}) : a < o
    <3>1. SubsOf(down', Answers) \subseteq SubsOf(down, Answers)
      BY <1>1 DEF SubsOf
    <3>2. QED
      BY <1>3, <3>1
  <2>2. \A r \in Subs : fate'[r] = "pending" <=> r \in Awaited(pending')
    BY <1>1, <1>2, <1>3, <1>4
  <2>3. \A r \in Subs : r >= nextSub => fate'[r] = "none" /\ verdict[r] = "none"
    BY <1>1, <1>2, <1>3
  <2>4. \A r \in Subs : r >= nextSub' => fate'[r] = "none" /\ verdict'[r] = "none"
    BY <2>3 DEF daemonVars
  <2>5. \A r \in Subs : fate'[r] = "pending" <=> \E i \in DOMAIN pending' : pending'[i].sub = r
    BY <2>2 DEF Awaited
  <2>6. QED
    BY <1>1, <2>1, <2>4, <2>5 DEF LinedUp, Increasing, Awaited
<1>8. FatesKept'
  BY <1>1, <1>2 DEF IInv, FatesKept, daemonVars
<1>9. QED
  BY <1>2, <1>5, <1>6, <1>7, <1>8

\* handle_pane_open_failed: one request less.
LEMMA OpenFailedStep == ASSUME IInv, OpenFailed PROVE IInv'
<1> DEFINE s == Head(down).sub
<1>1. /\ Live /\ down # <<>> /\ Head(down).t = "openError" /\ down' = Tail(down)
      /\ UNCHANGED <<phase, stack, active, focus, size, nextSub, up, daemonVars>>
  BY DEF OpenFailed, Arrives
<1>2. Head(down).t \in Answers
  BY <1>1 DEF Answers
<1>3. /\ pending # <<>> /\ Head(pending).sub = s /\ s \in Subs /\ fate[s] = "pending"
      /\ Head(down) \in Range(down)
      /\ Tail(pending) \in Seq(PendingOpen) /\ Len(Tail(pending)) = Len(pending) - 1
      /\ SubsOf(down', {"exit"}) = SubsOf(down, {"exit"})
  BY <1>1, <1>2, TakeAnswer
<1>4. pending' = Tail(pending) /\ fate' = [fate EXCEPT ![s] = "failed"]
  BY <1>3 DEF OpenFailed
<1>5. verdict[s] = "refused"
  BY <1>1, <1>3 DEF IInv, RepliesKept
<1>6. up \in Seq(CommandRec) /\ InOrder(up, {"open"})
  BY <1>1, TabsAre DEF IInv, LinedUp
<1>7. /\ WireType' /\ StartKept' /\ RepliesKept' /\ LinedUp' /\ FatesKept' /\ Live'
      /\ \A r \in Subs \ {s} : fate'[r] = fate[r]
  BY <1>1, <1>2, <1>4, <1>5, <1>6, AnsweredStep
<1>8. TypeOK'
  BY <1>1, <1>3, <1>4 DEF IInv, TypeOK, Live, daemonVars
<1>9. CommandsKept'
  <2>1. s \notin SubsOf(up, {"open"})
    BY <1>1, <1>2, TakeAnswer
  <2>2. \A m \in Range(up) : m.t = "open" => m.sub # s
    BY <2>1 DEF SubsOf
  <2>3. QED
    BY <1>1, <1>3, <1>7, <2>2 DEF IInv, CommandsKept, daemonVars
<1>10. TabsKept'
  <2>1. Len(stack) + Len(pending') <= nextSub - 1
    BY <1>1, <1>3, <1>4, TabsAre DEF IInv, TypeOK, TabsKept
  <2>2. \A i \in DOMAIN stack : fate'[stack[i].sub] = "tab"
    BY <1>1, <1>3, <1>7, TabsAre
  <2>3. QED
    BY <1>1, <2>1, <2>2 DEF IInv, TabsKept, daemonVars
<1>11. TabIsServed'
  <2>1. \A r : InFlight(down, "exit", r) => InFlight(down', "exit", r)
    BY <1>3, InFlightSubs
  <2>2. QED
    BY <1>1, <2>1 DEF IInv, TabIsServed, daemonVars, InFlight
<1>12. TabFitsTile'
  BY <1>1 DEF IInv, TabFitsTile, daemonVars, Live
<1>13. QED
  BY <1>7, <1>8, <1>9, <1>10, <1>11, <1>12 DEF IInv

\* handle_pane_opened: the tab comes to the front, its attach and its resize go out.
LEMMA PaneOpenedStep == ASSUME IInv, PaneOpened PROVE IInv'
<1> DEFINE s == Head(down).sub
           p == Head(down).pane
           tab == [pane |-> p, sub |-> s]
           a == Command("attach", p, s, 0)
           r == Command("resize", p, 0, size)
           b == <<a, r>>
<1>1. /\ Live /\ down # <<>> /\ Head(down).t = "opened" /\ down' = Tail(down)
      /\ UNCHANGED <<phase, size, nextSub, daemonVars>>
  BY DEF PaneOpened, Arrives
<1>2. Head(down).t \in Answers
  BY <1>1 DEF Answers
<1>3. /\ pending # <<>> /\ Head(pending).sub = s /\ s \in Subs /\ fate[s] = "pending"
      /\ Head(down) \in Range(down)
      /\ Tail(pending) \in Seq(PendingOpen) /\ Len(Tail(pending)) = Len(pending) - 1
      /\ SubsOf(down', {"exit"}) = SubsOf(down, {"exit"})
  BY <1>1, <1>2, TakeAnswer
<1>4. /\ pending' = Tail(pending) /\ stack' = Append(stack, tab)
      /\ active' = Len(stack') /\ focus' = "pty"
      /\ fate' = [fate EXCEPT ![s] = "tab"]
      /\ up' = up \o b
  BY <1>3 DEF PaneOpened
<1>5. verdict[s] = "opened" /\ p \in exists /\ p \in Panes
  BY <1>1, <1>3 DEF IInv, RepliesKept, TypeOK
<1>6. /\ a \in CommandRec /\ a.t = "attach" /\ a.sub = s /\ a.pane = p
      /\ r \in CommandRec /\ r.t = "resize" /\ r.pane = p /\ r.size = size /\ size \in Sizes
      /\ tab \in PaneEntry /\ tab.pane = p /\ tab.sub = s
  <2>1. size \in Sizes
    BY DEF IInv, TypeOK
  <2>2. s \in 0 .. MaxSubs /\ p \in 0 .. MaxPanes /\ size \in 0 .. MaxSize
        /\ 0 \in 0 .. MaxSubs /\ 0 \in 0 .. MaxSize
    BY <1>3, <1>5, <2>1, TuiPanesConstants DEF Subs, Sizes, Panes
  <2> HIDE DEF s, p
  <2>3. a \in CommandRec /\ r \in CommandRec
    BY <2>2 DEF Command, CommandRec
  <2>4. /\ a.t = "attach" /\ a.sub = s /\ a.pane = p
        /\ r.t = "resize" /\ r.pane = p /\ r.size = size
    BY DEF Command
  <2>5. tab \in PaneEntry /\ tab.pane = p /\ tab.sub = s
    BY <1>3, <1>5 DEF PaneEntry
  <2>6. QED
    BY <2>1, <2>3, <2>4, <2>5
<1> HIDE DEF a, r, tab
<1>7. /\ up \in Seq(CommandRec) /\ InOrder(up, {"open"}) /\ stack \in Seq(PaneEntry)
      /\ DOMAIN stack = 1 .. Len(stack) /\ Len(stack) \in Nat
  BY <1>1, TabsAre DEF IInv, LinedUp
<1>7b. /\ b \in Seq(CommandRec) /\ Range(b) = {a, r} /\ Len(b) = 2
       /\ b[1] = a /\ b[2] = r /\ DOMAIN b = {1, 2}
  <2>1. b \in Seq(CommandRec) /\ Range(b) = {a, r}
    BY <1>6, TwoMessages
  <2>2. Len(b) = 2 /\ b[1] = a /\ b[2] = r /\ DOMAIN b = {1, 2}
    OBVIOUS
  <2>3. QED
    BY <2>1, <2>2
<1> HIDE DEF b
<1>8. /\ up' \in Seq(CommandRec) /\ Range(up') = Range(up) \cup {a, r}
      /\ Len(up') = Len(up) + Len(b)
      /\ \A i \in 1 .. Len(b) : up'[Len(up) + i] = b[i]
  <2>1. up \in Seq(CommandRec) /\ b \in Seq(CommandRec) /\ up' = up \o b
    BY <1>4, <1>7, <1>7b
  <2>2. /\ up \o b \in Seq(CommandRec) /\ Len(up \o b) = Len(up) + Len(b)
        /\ \A i \in 1 .. Len(b) : (up \o b)[Len(up) + i] = b[i]
        /\ Range(up \o b) = Range(up) \cup Range(b)
    BY <2>1, JoinRange
  <2>3. QED
    BY <1>7b, <2>1, <2>2
<1>9. /\ InOrder(up', {"open"}) /\ SubsOf(up', {"open"}) = SubsOf(up, {"open"})
  <2>1. \A n \in Range(b) : n.t \notin {"open"}
    BY <1>6, <1>7b
  <2>2. QED
    <3>1. b \in Seq(CommandRec)
      BY <1>7b
    <3>2. InOrder(up \o b, {"open"}) /\ SubsOf(up \o b, {"open"}) = SubsOf(up, {"open"})
      BY <1>7, <2>1, <3>1, JoinInOrder
    <3>3. QED
      BY <1>4, <3>2
<1>10. /\ WireType' /\ StartKept' /\ RepliesKept' /\ LinedUp' /\ FatesKept' /\ Live'
       /\ fate'[s] = "tab" /\ \A q \in Subs \ {s} : fate'[q] = fate[q]
  BY <1>1, <1>2, <1>4, <1>5, <1>8, <1>9, AnsweredStep
<1>11. /\ stack' \in Seq(PaneEntry) /\ Len(stack') = Len(stack) + 1
       /\ stack'[Len(stack) + 1] = tab /\ \A i \in DOMAIN stack : stack'[i] = stack[i]
  BY <1>4, <1>6, <1>7, AppendRange
<1>12. DOMAIN stack' = DOMAIN stack \cup {Len(stack) + 1}
  BY <1>7, <1>11
<1>13. \A i \in DOMAIN stack : /\ stack[i].sub \in Subs /\ stack[i].sub # s
                               /\ fate'[stack[i].sub] = "tab"
  BY <1>1, <1>3, <1>10, TabsAre
<1>14. Len(stack') + Len(pending') <= nextSub - 1
  <2>1. Len(stack) + Len(pending) <= nextSub - 1 /\ nextSub \in Int /\ Len(pending) \in Int
    BY DEF IInv, TypeOK, TabsKept
  <2>2. QED
    BY <1>3, <1>4, <1>7, <1>11, <2>1
<1>15. TypeOK'
  <2>1. Len(pending') \in Nat /\ nextSub \in 1 .. MaxSubs + 1
    BY <1>3, <1>4 DEF IInv, TypeOK
  <2>2. active' \in Int /\ active' = Len(stack') /\ 1 <= active' /\ active' <= nextSub - 1
    <3>1. nextSub \in Int /\ Len(stack') \in Nat /\ Len(stack') >= 1
      BY <1>7, <1>11, <2>1
    <3>2. Len(pending') >= 0 /\ Len(pending') \in Int
      BY <2>1
    <3>3. Len(stack') <= nextSub - 1
      BY <1>14, <3>1, <3>2
    <3>4. QED
      BY <1>4, <3>1, <3>3
  <2>2b. active' \in 1 .. MaxSubs /\ active' <= Len(stack')
    BY <2>1, <2>2, TuiPanesConstants
  <2>3. QED
    BY <1>1, <1>3, <1>4, <1>11, <2>2b DEF IInv, TypeOK, daemonVars
<1>16. CommandsKept'
  <2>1. s \notin SubsOf(up, {"open"})
    BY <1>1, <1>2, TakeAnswer
  <2>2. SUFFICES ASSUME NEW m \in Range(up')
                 PROVE  /\ m.t = "list" => phase' = "listing"
                        /\ m.t = "open" => /\ m.sub \in Subs /\ m.size \in Sizes
                                           /\ fate'[m.sub] = "pending" /\ verdict[m.sub] = "none"
                        /\ m.t = "attach" => /\ m.sub \in Subs /\ m.pane \in Panes
                                             /\ fate'[m.sub] \in {"tab", "over"}
                                             /\ \A i \in DOMAIN stack' :
                                                   stack'[i].sub = m.sub => stack'[i].pane = m.pane
                        /\ m.t = "resize" => m.pane \in Panes /\ m.size \in Sizes
                        /\ m.t = "unsub" => m.sub \in Subs /\ fate'[m.sub] = "over"
    BY <1>1 DEF CommandsKept, daemonVars
  <2>3. CASE m \in Range(up)
    <3>1. m.t \in {"open", "attach", "unsub"} => m.sub \in Subs /\ m.sub # s
      BY <1>3, <2>1, <2>3 DEF IInv, CommandsKept, SubsOf
    <3>2. m.t \in {"open", "attach", "unsub"} => fate'[m.sub] = fate[m.sub]
      BY <1>10, <3>1
    <3>3. \A i \in DOMAIN stack' : stack'[i].sub = m.sub /\ m.t = "attach" => i \in DOMAIN stack
      BY <1>6, <1>11, <1>12, <3>1
    <3>4. m.t = "attach" => \A i \in DOMAIN stack' : stack'[i].sub = m.sub => stack'[i].pane = m.pane
      BY <1>11, <2>3, <3>3 DEF IInv, CommandsKept
    <3>5. QED
      BY <1>1, <2>3, <3>1, <3>2, <3>4 DEF IInv, CommandsKept
  <2>4. CASE m = a
    <3>1. \A i \in DOMAIN stack' : stack'[i].sub = s => stack'[i].pane = p
      BY <1>6, <1>11, <1>12, <1>13
    <3>2. QED
      BY <1>3, <1>5, <1>6, <1>10, <2>4, <3>1
  <2>5. CASE m = r
    BY <1>5, <1>6, <2>5
  <2>6. QED
    BY <1>8, <2>3, <2>4, <2>5
<1>17. TabsKept'
  <2>1. \A i \in DOMAIN stack' : stack'[i].pane \in exists
    BY <1>5, <1>6, <1>11, <1>12 DEF IInv, TabsKept
  <2>2. \A i \in DOMAIN stack' : fate'[stack'[i].sub] = "tab"
    BY <1>6, <1>10, <1>11, <1>12, <1>13
  <2>3. \A i, j \in DOMAIN stack' : i # j => stack'[i].sub # stack'[j].sub
    BY <1>6, <1>11, <1>12, <1>13 DEF IInv, TabsKept
  <2>4. QED
    BY <1>1, <1>14, <2>1, <2>2, <2>3 DEF TabsKept, daemonVars
<1>18. TabIsServed'
  <2>1. /\ \A q : InFlight(up, "attach", q) => InFlight(up', "attach", q)
        /\ \A q : InFlight(down, "exit", q) => InFlight(down', "exit", q)
        /\ InFlight(up', "attach", s)
    <3>1. SubsOf(up, {"attach"}) \subseteq SubsOf(up', {"attach"}) /\ s \in SubsOf(up', {"attach"})
      BY <1>6, <1>8 DEF SubsOf
    <3>2. QED
      BY <1>3, <3>1, InFlightSubs
  <2>2. SUFFICES ASSUME NEW i \in DOMAIN stack'
                 PROVE  LET q == stack'[i].sub IN
                        \/ InFlight(up', "attach", q) \/ InFlight(down', "exit", q)
                        \/ fwd[q].pane = stack'[i].pane /\ fwd[q].st \in {"new", "live"}
                        \/ verdict[q] = "unattached"
    BY <1>1 DEF TabIsServed, InFlight, daemonVars
  <2>3. CASE i = Len(stack) + 1
    BY <1>6, <1>11, <2>1, <2>3
  <2>4. CASE i \in DOMAIN stack
    BY <1>1, <1>11, <2>1, <2>4 DEF IInv, TabIsServed
  <2>5. QED
    BY <1>12, <2>3, <2>4
<1>19. TabFitsTile'
  <2>1. /\ Len(b) = 2 /\ b[1] = a /\ b[2] = r /\ DOMAIN b = {1, 2}
    BY <1>7b
  <2>2. /\ DOMAIN up' = 1 .. Len(up) + 2 /\ up'[Len(up) + 2] = r /\ Len(up) \in Nat
        /\ Len(up) + 2 \in DOMAIN up'
    <3>1. DOMAIN up' = 1 .. Len(up') /\ Len(up) \in Nat
      BY <1>7, <1>8
    <3>2. Len(b) = 2 /\ 2 \in 1 .. Len(b) /\ b[2] = r
      BY <2>1
    <3>3. Len(up') = Len(up) + 2 /\ up'[Len(up) + 2] = r
      BY <1>8, <3>2
    <3>4. QED
      BY <3>1, <3>3
  <2>3. Fits(up', p, size, paneSize[p])
    <3>1. Len(up) + 2 \in Resizes(up', p) /\ up'[Len(up) + 2].size = size
      BY <1>6, <2>2 DEF Resizes
    <3>2. \A k \in Resizes(up', p) : k <= Len(up) + 2
      BY <2>2 DEF Resizes
    <3>3. QED
      BY <3>1, <3>2 DEF Fits
  <2>4. ASSUME NEW i \in DOMAIN stack, stack[i].pane \in listed, stack[i].pane # p
        PROVE  Fits(up', stack[i].pane, size, paneSize[stack[i].pane])
    <3>1. Fits(up, stack[i].pane, size, paneSize[stack[i].pane])
      BY <1>1, <2>4, FitsTile DEF IInv
    <3>2. Resizes(b, stack[i].pane) = {}
      BY <1>6, <2>1, <2>4 DEF Resizes
    <3>3. QED
      BY <1>4, <1>7, <1>7b, <3>1, <3>2, FitsJoin
  <2>5. ASSUME NEW i \in DOMAIN stack', stack'[i].pane \in listed
        PROVE  Fits(up', stack'[i].pane, size, paneSize[stack'[i].pane])
    <3>1. CASE stack'[i].pane = p
      BY <2>3, <3>1
    <3>2. CASE stack'[i].pane # p
      <4>1. i \in DOMAIN stack /\ stack'[i] = stack[i]
        BY <1>6, <1>11, <1>12, <3>2
      <4>2. QED
        BY <2>4, <2>5, <3>2, <4>1
    <3>3. QED
      BY <3>1, <3>2
  <2>6. QED
    BY <1>1, <2>5, FitsTileNext DEF daemonVars
<1>20. QED
  BY <1>10, <1>15, <1>16, <1>17, <1>18, <1>19 DEF IInv

-----------------------------------------------------------------------------
(* The inductive argument and what follows from it.                        *)

LEMMA UserStep == ASSUME IInv, User PROVE IInv'
<1>1. CASE CloseActive
  BY <1>1, CloseLastStep, CloseTabStep
<1>2. CASE \E tile \in {"pty", "fleet"} : FocusMoves(tile)
  BY <1>2, OthersStep
<1>3. CASE \E i \in 1 .. MaxSubs : TabClick(i)
  BY <1>3, OthersStep
<1>4. CASE \E z \in Sizes : Resize(z)
  BY <1>4, ResizeStep
<1>5. QED
  BY <1>1, <1>2, <1>3, <1>4, PtyInputStep, OpenRemoteStep, DetachStep DEF User

LEMMA SessionStep == ASSUME IInv, phase \notin {"ended", "crashed"}, Session PROVE IInv'
<1>1. CASE DaemonLists
  BY <1>1, DaemonListsStep
<1>2. CASE DaemonOpens
  <2>1. phase \in Phase /\ (phase = "start" => up = <<>>) /\ up # <<>>
    BY <1>2 DEF IInv, TypeOK, StartKept, DaemonOpens, Asked
  <2>2. phase \in {"listing", "opening"} \/ Live
    BY <2>1 DEF Phase, Live
  <2>3. QED
    BY <1>2, <2>2, DaemonOpensRoot, DaemonOpensStep
<1>3. CASE DaemonAttaches
  BY <1>3, AskedLive, DaemonAttachesStep DEF DaemonAttaches, Asked
<1>4. CASE DaemonTypes
  BY <1>4, AskedLive, DaemonTypesStep DEF DaemonTypes, Asked
<1>5. CASE DaemonResizes
  BY <1>5, AskedLive, DaemonResizesStep DEF DaemonResizes, Asked
<1>6. CASE DaemonCloses
  BY <1>6, AskedLive, DaemonTypesStep DEF DaemonCloses, Asked
<1>7. CASE DaemonUnsubscribes
  BY <1>7, AskedLive, DaemonUnsubscribesStep DEF DaemonUnsubscribes, Asked
<1>8. QED
  BY <1>1, <1>2, <1>3, <1>4, <1>5, <1>6, <1>7 DEF Session

LEMMA ForwardersStep == ASSUME IInv, phase \notin {"ended", "crashed"}, Forwarders PROVE IInv'
<1>1. PICK s \in Subs : \/ ForwardSnapshot(s) \/ ForwardOutput(s) \/ ForwardExit(s)
                        \/ ForwardLate(s) \/ Dropped(s)
  BY DEF Forwarders
<1>2. Live
  <2>1. fwd[s].st # "none"
    BY <1>1 DEF ForwardSnapshot, ForwardOutput, ForwardExit, ForwardLate, Dropped, Forwards
  <2>2. QED
    BY <2>1, ForwardedLive
<1>3. CASE ForwardSnapshot(s)
  BY <1>2, <1>3, ForwardsStep DEF ForwardSnapshot
<1>4. CASE ForwardOutput(s)
  BY <1>2, <1>4, ForwardsStep DEF ForwardOutput
<1>5. CASE ForwardExit(s)
  BY <1>2, <1>5, ForwardsStep DEF ForwardExit
<1>6. CASE ForwardLate(s)
  BY <1>2, <1>6, ForwardsStep DEF ForwardLate
<1>7. CASE Dropped(s)
  BY <1>2, <1>7, DroppedStep
<1>8. QED
  BY <1>1, <1>3, <1>4, <1>5, <1>6, <1>7

LEMMA NextIInv == IInv /\ [Next]_vars => IInv'
<1> SUFFICES ASSUME IInv, [Next]_vars PROVE IInv'
  OBVIOUS
<1>1. CASE UNCHANGED vars
  BY <1>1, StutterStep
<1>2. CASE Next
  <2>1. CASE User
    BY <2>1, UserStep
  <2>2. CASE Receive
    BY <2>2, StartStep, ListedStep, RootAnsweredStep, IgnoredStep, PaneExitStep,
       PaneOpenedStep, OpenFailedStep DEF Receive
  <2>3. CASE Session
    BY <1>2, <2>3, SessionStep DEF Next
  <2>4. CASE Forwarders
    BY <1>2, <2>4, ForwardersStep DEF Next
  <2>5. CASE DaemonGoes
    BY <2>5, DetachStep
  <2>6. CASE \E p \in Panes : ChildExits(p) \/ OtherCloses(p)
    BY <2>6, OthersStep
  <2>7. QED
    BY <1>2, <2>1, <2>2, <2>3, <2>4, <2>5, <2>6 DEF Next
<1>3. QED
  BY <1>1, <1>2

LEMMA Invariant == Spec => []IInv
  BY InitIInv, NextIInv, PTL DEF Spec

\* However opens, closes and failures interleave, an answer to OpenPane, which names
\* no request, reaches the request it is the outcome of, and a request that waits when
\* the daemon has decided has its answer in flight (handle_pane_opened,
\* handle_pane_open_failed, handle_open_pane).
THEOREM OpensReachTheirRequests == Spec => []OpensAnswered
<1>1. IInv => OpensAnswered
  <2>1. SUFFICES ASSUME IInv, NEW s \in Subs, Live, fate[s] = "pending", verdict[s] # "none"
                 PROVE  InFlight(down, "opened", s) \/ InFlight(down, "openError", s)
    BY DEF IInv, FatesKept, OpensAnswered
  <2>2. s \in SubsOf(down, Answers) \cup SubsOf(up, {"open"})
    BY <2>1, AwaitedAre
  <2>3. s \notin SubsOf(up, {"open"})
    BY <2>1 DEF IInv, CommandsKept, SubsOf
  <2>4. s \in SubsOf(down, {"opened"}) \/ s \in SubsOf(down, {"openError"})
    BY <2>2, <2>3 DEF SubsOf, Answers
  <2>5. QED
    BY <2>4, InFlightSubs
<1>2. QED
  BY <1>1, Invariant, PTL

\* The active position names a tab, a tab on the stack is attached, fed or about to be
\* told of its end, and its pane ends up with the size it is drawn in, in every order
\* of the user's, the daemon's and the forwarders' steps (App.pane_stack, active_pane,
\* handle_resize, handle_pane_event).
THEOREM TabsAreServedAndFit == Spec => []TabsInv
<1>1. IInv => TabsInv
  BY DEF IInv, TabsInv
<1>2. QED
  BY <1>1, Invariant, PTL
=============================================================================
