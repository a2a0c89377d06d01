------------------------------ MODULE PaneProofs ------------------------------
(***************************************************************************)
(* Proofs about local and remote panes, for every set of subscriptions,    *)
(* every channel and scrollback capacity and every amount of output.       *)
(*   - What both share: chunk sequences, the scrollback, and an invariant  *)
(*     that every pane keeps whatever feeds it.                            *)
(*   - LocalPane: its invariants, and that it implements PaneLog.          *)
(*   - RemotePane: its invariants.                                         *)
(***************************************************************************)
EXTENDS LocalPane, RemotePane, TLAPS

-----------------------------------------------------------------------------
(* What both kinds of pane share.                                          *)

\* Appending to a sequence keeps its elements and adds the new one at the end.
LEMMA AppendElements ==
    ASSUME NEW S, NEW q \in Seq(S), NEW e \in S
    PROVE  /\ Append(q, e) \in Seq(S)
           /\ Len(Append(q, e)) = Len(q) + 1
           /\ Append(q, e) # <<>>
           /\ Append(q, e)[Len(q) + 1] = e
           /\ \A i \in 1 .. Len(q) : Append(q, e)[i] = q[i]
  OBVIOUS

\* A non-empty sequence has a last element of its element set.
LEMMA LastElement ==
    ASSUME NEW S, NEW q \in Seq(S), q # <<>>
    PROVE  /\ Len(q) \in Nat \ {0}
           /\ q[Len(q)] \in S
           /\ q[1] \in S
  OBVIOUS

\* Appending an interval that starts where the last one ends keeps a sequence
\* gapless.
LEMMA GaplessAppend ==
    ASSUME NEW S, NEW q \in Seq(S), NEW e \in S, Gapless(q),
           q # <<>> => q[Len(q)].to = e.from
    PROVE  Gapless(Append(q, e))
<1>1. SUFFICES ASSUME NEW i \in 1 .. Len(q)
               PROVE  Append(q, e)[i].to = Append(q, e)[i + 1].from
  BY AppendElements DEF Gapless
<1>2. Append(q, e)[i] = q[i]
  BY AppendElements
<1>3. CASE i = Len(q)
  BY <1>2, <1>3, AppendElements
<1>4. CASE i < Len(q)
  <2>1. Append(q, e)[i + 1] = q[i + 1]
    BY <1>4
  <2>2. QED
    BY <1>2, <1>4, <2>1 DEF Gapless
<1>5. QED
  BY <1>3, <1>4

\* h and t are the front and the rest of the gapless sequence q of chunks.
Split(q, h, t) ==
    /\ q \in Seq(Chunk) /\ h \in Seq(Chunk) /\ t \in Seq(Chunk)
    /\ Gapless(q) /\ Len(q) > 0 /\ Len(q) = Len(h) + Len(t)
    /\ \A i \in 1 .. Len(h) : h[i] = q[i]
    /\ \A i \in 1 .. Len(t) : t[i] = q[Len(h) + i]

\* Dropping chunks from the front of a gapless sequence leaves a gapless one
\* with the same end, shorter by the bytes that were dropped.
LEMMA GaplessTail ==
    ASSUME NEW q, NEW h, NEW t, Split(q, h, t)
    PROVE  /\ Gapless(t)
           /\ t # <<>> => t[Len(t)] = q[Len(q)]
           /\ Span(t) \in Int /\ Span(q) \in Int /\ Span(h) \in Int
           /\ Span(q) - Span(h) = Span(t)
           /\ Len(h) = Len(q) => Span(t) = 0
<1>0. /\ q \in Seq(Chunk) /\ h \in Seq(Chunk) /\ t \in Seq(Chunk)
      /\ Gapless(q) /\ Len(q) > 0 /\ Len(q) = Len(h) + Len(t)
      /\ \A i \in 1 .. Len(h) : h[i] = q[i]
      /\ \A i \in 1 .. Len(t) : t[i] = q[Len(h) + i]
  BY DEF Split
<1> USE <1>0
<1> DEFINE k == Len(h)
<1> USE DEF Span
<1>3. \A i \in 1 .. Len(q) : q[i].from \in Int /\ q[i].to \in Int
  <2>1. \A i \in 1 .. Len(q) : q[i] \in Chunk
    OBVIOUS
  <2>2. \A c \in Chunk : c.from \in Int /\ c.to \in Int
    BY DEF Chunk
  <2>3. QED
    BY <2>1, <2>2
<1>4. Gapless(t)
  <2>1. SUFFICES ASSUME NEW i \in 1 .. Len(t) - 1
                 PROVE  t[i].to = t[i + 1].from
    BY DEF Gapless
  <2>2. t[i] = q[k + i] /\ t[i + 1] = q[k + i + 1] /\ k + i \in 1 .. Len(q) - 1
    <3>1. i \in 1 .. Len(t) /\ i + 1 \in 1 .. Len(t) /\ k + i \in 1 .. Len(q) - 1
      OBVIOUS
    <3>2. t[i] = q[k + i] /\ t[i + 1] = q[k + (i + 1)]
      BY <3>1
    <3>3. k + (i + 1) = k + i + 1
      OBVIOUS
    <3>4. QED
      BY <3>1, <3>2, <3>3
  <2>3. QED
    BY <2>2 DEF Gapless
<1>5. Span(q) = q[Len(q)].to - q[1].from /\ Span(q) \in Int
  <2>1. q # <<>> /\ 1 \in 1 .. Len(q) /\ Len(q) \in 1 .. Len(q)
    OBVIOUS
  <2>2. q[Len(q)].to \in Int /\ q[1].from \in Int
    BY <1>3, <2>1
  <2>3. Span(q) = q[Len(q)].to - q[1].from
    BY <2>1
  <2>4. QED
    BY <2>2, <2>3
<1>6. CASE k = Len(q)
  <2>1. t = <<>> /\ Span(t) = 0
    BY <1>6
  <2>2. h[1] = q[1] /\ h[Len(h)] = q[Len(q)] /\ h # <<>>
    BY <1>6
  <2>3. Span(h) = Span(q)
    BY <1>5, <2>2
  <2>4. QED
    BY <1>4, <1>5, <2>1, <2>3
<1>7. CASE k < Len(q)
  <2>1. t[1] = q[k + 1] /\ t[Len(t)] = q[Len(q)] /\ t # <<>>
    <3>1. 1 \in 1 .. Len(t) /\ Len(t) \in 1 .. Len(t) /\ k + Len(t) = Len(q)
      BY <1>7
    <3>2. t[1] = q[k + 1] /\ t[Len(t)] = q[k + Len(t)]
      BY <3>1
    <3>3. QED
      BY <3>1, <3>2
  <2>2. Span(t) = q[Len(q)].to - q[k + 1].from
    BY <2>1
  <2>3. Span(h) = q[k + 1].from - q[1].from
    <3>1. CASE k = 0
      BY <1>3, <1>7, <3>1
    <3>2. CASE k > 0
      <4>1. h[1] = q[1] /\ h[Len(h)] = q[k] /\ h # <<>>
        BY <3>2
      <4>2. q[k].to = q[k + 1].from
        BY <1>7, <3>2 DEF Gapless
      <4>3. QED
        BY <4>1, <4>2
    <3>3. QED
      BY <3>1, <3>2
  <2> HIDE DEF Span
  <2>4. Span(q) - Span(h) = Span(t) /\ Span(t) \in Int /\ Span(h) \in Int
    <3>1. k + 1 \in 1 .. Len(q) /\ Len(q) \in 1 .. Len(q) /\ 1 \in 1 .. Len(q)
      BY <1>7
    <3>2. q[k + 1].from \in Int /\ q[Len(q)].to \in Int /\ q[1].from \in Int
      BY <1>3, <3>1
    <3>3. QED
      BY SMTT(30), <1>5, <2>2, <2>3, <3>2
  <2>5. QED
    BY <1>4, <1>5, <1>7, <2>1, <2>4
<1>8. QED
  BY <1>6, <1>7

\* The snapshot is an interval of byte numbers.
LEMMA SnapshotType ==
    ASSUME scroll \in Seq(Chunk), pos \in Nat
    PROVE  Snapshot \in Chunk
<1>1. CASE scroll = <<>>
  BY <1>1 DEF Snapshot, Chunk
<1>2. CASE scroll # <<>>
  <2>1. scroll[1] \in Chunk /\ scroll[Len(scroll)] \in Chunk
    BY <1>2, LastElement
  <2>2. QED
    BY <1>2, <2>1 DEF Snapshot, Chunk
<1>3. QED
  BY <1>1, <1>2

\* The byte number the channel has reached is a number.
LEMMA SentToType ==
    ASSUME sent \in Seq(Update)
    PROVE  SentTo \in Nat
<1>1. CASE sent = <<>>
  BY <1>1 DEF SentTo
<1>2. CASE sent # <<>>
  <2>1. sent[Len(sent)] \in Update
    BY <1>2, LastElement
  <2>2. QED
    BY <1>2, <2>1 DEF SentTo, Update
<1>3. QED
  BY <1>1, <1>2

\* A receiver reads on at a byte number.
LEMMA ReadsAtType ==
    ASSUME sent \in Seq(Update), NEW i \in Nat \ {0}
    PROVE  ReadsAt(i) \in Nat
<1>1. CASE i <= Len(sent)
  <2>1. sent[i] \in Update
    BY <1>1
  <2>2. QED
    BY <1>1, <2>1 DEF ReadsAt, Update
<1>2. CASE ~(i <= Len(sent))
  BY <1>2, SentToType DEF ReadsAt
<1>3. QED
  BY <1>1, <1>2

\* The oldest retained update has a positive index not past the end.
LEMMA OldestType ==
    ASSUME sent \in Seq(Update)
    PROVE  Oldest \in Nat \ {0} /\ Oldest <= Len(sent) + 1
  BY PaneConstants DEF Oldest

\* Where a subscription stands is a byte number.
LEMMA AtType ==
    ASSUME NEW s \in Subs, out \in [Subs -> Seq(Event)], out[s] # <<>>
    PROVE  At(s) \in Nat
<1>1. out[s][Len(out[s])] \in Event
  BY LastElement
<1>2. QED
  BY <1>1 DEF At, Event

\* Pushing a chunk adds its length to the byte count.
LEMMA SpanAppend ==
    ASSUME NEW sb \in Seq(Chunk), NEW c \in Chunk,
           sb # <<>> => sb[Len(sb)].to = c.from
    PROVE  Span(Append(sb, c)) = Span(sb) + (c.to - c.from)
<1> DEFINE q == Append(sb, c)
<1>1. /\ Len(q) = Len(sb) + 1 /\ q # <<>> /\ q[Len(q)] = c
      /\ \A i \in 1 .. Len(sb) : q[i] = sb[i]
  BY AppendElements
<1> HIDE DEF q
<1>2. CASE sb = <<>>
  BY <1>1, <1>2 DEF Span, Chunk, q
<1>3. CASE sb # <<>>
  <2>1. q[1] = sb[1] /\ sb[1] \in Chunk /\ sb[Len(sb)] \in Chunk
    BY <1>1, <1>3, LastElement
  <2>2. Span(sb) = c.from - sb[1].from
    BY <1>3 DEF Span
  <2>3. Span(q) = c.to - sb[1].from
    BY <1>1, <2>1 DEF Span
  <2>4. QED
    BY <2>1, <2>2, <2>3 DEF Chunk, q
<1>4. QED
  BY <1>2, <1>3

\* Scrollback::append keeps the scrollback a gapless tail within capacity.
LEMMA ScrollAppendTail ==
    ASSUME StreamTypeOK, ScrollbackIsTail, NEW c \in Chunk, c.from = pos, c.from < c.to,
           ScrollAppend(c)
    PROVE  /\ scroll' \in Seq(Chunk) /\ total' \in Int /\ pos' = c.to
           /\ ScrollbackIsTail'
<1>1. /\ scroll \in Seq(Chunk) /\ ScrollCap \in Nat /\ Gapless(scroll)
      /\ total = Span(scroll) /\ (scroll # <<>> => scroll[Len(scroll)].to = c.from)
  BY PaneConstants DEF StreamTypeOK, ScrollbackIsTail
<1>2. PICK q : q = Append(scroll, c)
  OBVIOUS
<1>2a. c.from # c.to
  BY DEF Chunk
<1>3. PICK k \in 0 .. Len(q) :
          /\ \/ total + (c.to - c.from) - Span(SubSeq(q, 1, k)) <= ScrollCap
             \/ k = Len(q)
          /\ scroll' = SubSeq(q, k + 1, Len(q))
          /\ total' = total + (c.to - c.from) - Span(SubSeq(q, 1, k))
  BY <1>2, <1>2a DEF ScrollAppend
<1>4. PICK h :
          /\ h = SubSeq(q, 1, k)
          /\ total + (c.to - c.from) - Span(h) <= ScrollCap \/ k = Len(q)
          /\ total' = total + (c.to - c.from) - Span(h)
  BY <1>3
<1>4a. /\ total + (c.to - c.from) - Span(h) <= ScrollCap \/ k = Len(q)
       /\ total' = total + (c.to - c.from) - Span(h)
  BY <1>4
<1>5. /\ q \in Seq(Chunk) /\ Len(q) = Len(scroll) + 1
      /\ q # <<>> /\ q[Len(q)] = c
      /\ \A i \in 1 .. Len(scroll) : q[i] = scroll[i]
  BY <1>1, <1>2, AppendElements
<1>6. Gapless(q) /\ Span(q) = total + (c.to - c.from)
  BY <1>1, <1>2, GaplessAppend, SpanAppend
<1>7. /\ scroll' \in Seq(Chunk) /\ Len(scroll') = Len(q) - k
      /\ \A i \in 1 .. Len(scroll') : scroll'[i] = q[k + i]
  BY <1>3, <1>5
<1>8. /\ h \in Seq(Chunk) /\ Len(h) = k
      /\ \A i \in 1 .. Len(h) : h[i] = q[i]
  BY <1>4, <1>5
<1>9. PICK t : t = scroll'
  OBVIOUS
<1>10. Split(q, h, t)
  BY <1>5, <1>6, <1>7, <1>8, <1>9 DEF Split
<1>11. /\ Gapless(t)
       /\ t # <<>> => t[Len(t)] = c
       /\ Span(t) \in Int /\ Span(q) \in Int /\ Span(h) \in Int
       /\ Span(q) - Span(h) = Span(t)
       /\ k = Len(q) => Span(t) = 0
  BY <1>5, <1>8, <1>10, GaplessTail
<1>12. /\ total' = Span(t)
       /\ total' <= ScrollCap \/ k = Len(q)
  <2>1. total \in Int /\ c.to \in Int /\ c.from \in Int
    BY DEF StreamTypeOK, Chunk
  <2>2. total' = Span(t)
    BY <1>4a, <1>6, <1>11, <2>1
  <2>3. total' <= ScrollCap \/ k = Len(q)
    BY <1>4a
  <2>4. QED
    BY <2>2, <2>3
<1>13. total' <= ScrollCap
  BY <1>1, <1>11, <1>12
<1>14. pos' = c.to
  BY DEF ScrollAppend
<1>15. QED
  BY <1>7, <1>9, <1>11, <1>12, <1>13, <1>14 DEF ScrollbackIsTail

-----------------------------------------------------------------------------
(* What every pane keeps, whatever feeds it.                               *)

\* An Exit in the channel is that of a dead pane and carries its code.
ExitRecorded ==
    \A i \in 1 .. Len(sent) :
        sent[i].kind = "exit" => ~alive /\ sent[i].code = exitCode

\* A forwarder has sent nothing before it subscribes; while it runs it has sent
\* no exit, and its receiver is at most at the end of the channel.
ForwarderKept ==
    \A s \in Subs :
        /\ pc[s] \in {"idle", "spawned", "refused"} => out[s] = <<>>
        /\ pc[s] \in {"check", "stream"} =>
              /\ out[s] # <<>>
              /\ next[s] <= Len(sent) + 1
              /\ \A i \in 1 .. Len(out[s]) : out[s][i].kind # "exit"

StreamInv ==
    /\ StreamTypeOK
    /\ ScrollbackIsTail
    /\ ForwarderKept
    /\ ExitRecorded
    /\ ExitIsLast
    /\ ExitNotMissed
    /\ ExitCodeAgrees

\* A new pane keeps it.
LEMMA StreamInitInv == StreamInit => StreamInv
<1> SUFFICES ASSUME StreamInit PROVE StreamInv
  OBVIOUS
<1> USE DEF StreamInit
<1>1. StreamTypeOK
  BY DEF StreamTypeOK, ForwarderPc, Code
<1>2. ScrollbackIsTail
  BY PaneConstants DEF ScrollbackIsTail, Span, Gapless
<1>3. ForwarderKept /\ ExitRecorded
  BY DEF ForwarderKept, ExitRecorded
<1>4. ExitIsLast /\ ExitCodeAgrees /\ ExitNotMissed
  BY DEF ExitIsLast, ExitCodeAgrees, ExitNotMissed
<1>5. QED
  BY <1>1, <1>2, <1>3, <1>4 DEF StreamInv

\* So does a producer that appends to the scrollback and to the channel, records
\* the exit before it sends it, and never takes a death or its code back.
LEMMA ProducerStep ==
    ASSUME StreamInv, StreamTypeOK', ScrollbackIsTail', ExitRecorded',
           UNCHANGED <<pc, next, out>>,
           sent' = sent \/ \E u \in Update : Send(u),
           ~alive => ~alive' /\ exitCode' = exitCode
    PROVE  StreamInv'
<1>0. sent \in Seq(Update) /\ next \in [Subs -> Nat \ {0}]
  BY DEF StreamInv, StreamTypeOK
<1>1. /\ Len(sent') \in Nat /\ Len(sent') >= Len(sent)
      /\ \A i \in 1 .. Len(sent) : sent'[i] = sent[i]
  <2>1. CASE sent' = sent
    BY <1>0, <2>1
  <2>2. ASSUME NEW u \in Update, Send(u)
        PROVE  /\ Len(sent') \in Nat /\ Len(sent') >= Len(sent)
               /\ \A i \in 1 .. Len(sent) : sent'[i] = sent[i]
    BY <1>0, <2>2, AppendElements DEF Send
  <2>3. QED
    BY <2>1, <2>2
<1>2. ForwarderKept'
  BY <1>0, <1>1 DEF StreamInv, ForwarderKept
<1>3. ExitIsLast' /\ ExitCodeAgrees'
  BY DEF StreamInv, ExitIsLast, ExitCodeAgrees
<1>4. ExitNotMissed'
  <2>1. SUFFICES ASSUME NEW s \in Subs, pc[s] = "stream", PastExit(s)'
                 PROVE  Lagged(s)
    BY DEF ExitNotMissed, Lagged
  <2>2. next[s] \in Nat \ {0} /\ next[s] <= Len(sent) + 1
    BY <1>0, <2>1 DEF StreamInv, ForwarderKept
  <2>3. PICK i \in 1 .. Len(sent') : sent'[i].kind = "exit" /\ i < next[s]
    BY <2>1 DEF PastExit
  <2>4. i \in 1 .. Len(sent) /\ sent[i].kind = "exit"
    BY <1>0, <1>1, <2>2, <2>3
  <2>5. QED
    BY <2>1, <2>3, <2>4 DEF PastExit, StreamInv, ExitNotMissed
<1>5. QED
  BY <1>2, <1>3, <1>4 DEF StreamInv

-----------------------------------------------------------------------------
(* The steps of a forwarder.                                               *)

\* Forwarder s sends e on event_tx and goes on at p with its receiver at n.
Moves(s, p, n, e) ==
    /\ e \in Event
    /\ out' \in [Subs -> Seq(Event)] /\ out'[s] = Append(out[s], e)
    /\ pc' \in [Subs -> ForwarderPc] /\ pc'[s] = p
    /\ next' \in [Subs -> Nat \ {0}] /\ next'[s] = n
    /\ \A r \in Subs \ {s} : out'[r] = out[r] /\ pc'[r] = pc[r] /\ next'[r] = next[r]
    /\ UNCHANGED <<scroll, total, pos, sent, alive, exitCode, registered>>

\* How the actions write such a step.
LEMMA MovesIf ==
    ASSUME StreamTypeOK, NEW s \in Subs, NEW p \in ForwarderPc, NEW n \in Nat \ {0},
           NEW e \in Event,
           out' = [out EXCEPT ![s] = Append(@, e)],
           pc' = [pc EXCEPT ![s] = p],
           next' = [next EXCEPT ![s] = n],
           UNCHANGED <<scroll, total, pos, sent, alive, exitCode, registered>>
    PROVE  Moves(s, p, n, e)
<1>1. /\ out \in [Subs -> Seq(Event)] /\ pc \in [Subs -> ForwarderPc]
      /\ next \in [Subs -> Nat \ {0}]
  BY DEF StreamTypeOK
<1>2. out[s] \in Seq(Event)
  BY <1>1
<1>3. Append(out[s], e) \in Seq(Event)
  BY <1>2, AppendElements
<1>4. out' \in [Subs -> Seq(Event)] /\ out'[s] = Append(out[s], e)
  BY <1>1, <1>3
<1>5. pc' \in [Subs -> ForwarderPc] /\ pc'[s] = p
  BY <1>1
<1>6. next' \in [Subs -> Nat \ {0}] /\ next'[s] = n
  BY <1>1
<1>7. \A r \in Subs \ {s} : out'[r] = out[r] /\ pc'[r] = pc[r] /\ next'[r] = next[r]
  BY <1>1
<1>8. QED
  BY <1>4, <1>5, <1>6, <1>7 DEF Moves

\* Subscribing sends the snapshot and starts at the end of the channel.
LEMMA SubscribeMoves ==
    ASSUME StreamInv, NEW s \in Subs, Subscribe(s)
    PROVE  /\ pc[s] = "spawned" /\ out[s] = <<>>
           /\ Moves(s, "check", Len(sent) + 1, DataEvent("snapshot", Snapshot))
<1>1. /\ scroll \in Seq(Chunk) /\ pos \in Nat /\ sent \in Seq(Update)
      /\ pc \in [Subs -> ForwarderPc] /\ StreamTypeOK
  BY DEF StreamInv, StreamTypeOK
<1>2. PICK e : e = DataEvent("snapshot", Snapshot)
  OBVIOUS
<1>3. e \in Event
  BY <1>1, <1>2, SnapshotType DEF DataEvent, Event, Chunk, Code
<1>4. pc[s] = "spawned" /\ out[s] = <<>>
  BY DEF Subscribe, StreamInv, ForwarderKept
<1>5. Len(sent) + 1 \in Nat \ {0} /\ "check" \in ForwarderPc
  BY <1>1 DEF ForwarderPc
<1>6. Moves(s, "check", Len(sent) + 1, e)
  BY <1>1, <1>2, <1>3, <1>5, MovesIf DEF Subscribe
<1>7. QED
  BY <1>2, <1>4, <1>6

\* The early exit of a dead pane.
LEMMA CheckAliveMoves ==
    ASSUME StreamInv, NEW s \in Subs, CheckAlive(s), ~alive
    PROVE  /\ pc[s] = "check" /\ out[s] # <<>> /\ At(s) \in Nat
           /\ Moves(s, "done", next[s], ExitEvent(At(s), exitCode))
<1>1. /\ exitCode \in Code /\ next \in [Subs -> Nat \ {0}] /\ StreamTypeOK
      /\ out \in [Subs -> Seq(Event)]
  BY DEF StreamInv, StreamTypeOK
<1>2. pc[s] = "check" /\ out[s] # <<>>
  BY DEF CheckAlive, StreamInv, ForwarderKept
<1>3. PICK e : e = ExitEvent(At(s), exitCode)
  OBVIOUS
<1>4. e \in Event /\ At(s) \in Nat
  BY <1>1, <1>2, <1>3, AtType DEF ExitEvent, Event
<1>5. next' = [next EXCEPT ![s] = next[s]] /\ next[s] \in Nat \ {0}
  BY <1>1 DEF CheckAlive
<1>6. "done" \in ForwarderPc
  BY DEF ForwarderPc
<1>7. Moves(s, "done", next[s], e)
  BY <1>1, <1>3, <1>4, <1>5, <1>6, MovesIf DEF CheckAlive
<1>8. QED
  BY <1>2, <1>3, <1>4, <1>7

\* An update of the channel that holds output becomes an output event.
LEMMA RecvBytesMoves ==
    ASSUME StreamInv, NEW s \in Subs, RecvBytes(s)
    PROVE  /\ pc[s] = "stream" /\ out[s] # <<>> /\ At(s) \in Nat
           /\ next[s] \in 1 .. Len(sent) /\ sent[next[s]] \in Update
           /\ sent[next[s]].kind = "bytes"
           /\ Moves(s, "stream", next[s] + 1, DataEvent("output", sent[next[s]]))
<1>1. /\ sent \in Seq(Update) /\ next \in [Subs -> Nat \ {0}] /\ StreamTypeOK
      /\ out \in [Subs -> Seq(Event)] /\ pc \in [Subs -> ForwarderPc]
  BY DEF StreamInv, StreamTypeOK
<1>2. pc[s] = "stream" /\ out[s] # <<>>
  BY DEF RecvBytes, StreamInv, ForwarderKept
<1>3. next[s] \in 1 .. Len(sent) /\ sent[next[s]].kind = "bytes"
  BY <1>1, OldestType DEF RecvBytes
<1>4. PICK u : u = sent[next[s]]
  OBVIOUS
<1>5. u \in Update
  BY <1>1, <1>3, <1>4
<1>6. PICK e : e = DataEvent("output", u)
  OBVIOUS
<1>7. e \in Event
  BY <1>5, <1>6 DEF DataEvent, Event, Update, Code
<1>8. out' = [out EXCEPT ![s] = Append(@, e)]
  BY <1>4, <1>6 DEF RecvBytes
<1>9. next' = [next EXCEPT ![s] = next[s] + 1] /\ next[s] + 1 \in Nat \ {0}
  BY <1>3 DEF RecvBytes
<1>10. pc' = [pc EXCEPT ![s] = "stream"] /\ "stream" \in ForwarderPc
  BY <1>1, <1>2 DEF RecvBytes, ForwarderPc
<1>11. UNCHANGED <<scroll, total, pos, sent, alive, exitCode, registered>>
  BY DEF RecvBytes
<1>12. Moves(s, "stream", next[s] + 1, e)
  BY <1>1, <1>7, <1>8, <1>9, <1>10, <1>11, MovesIf
<1>13. QED
  BY <1>1, <1>2, <1>3, <1>4, <1>5, <1>6, <1>12, AtType

\* Exit in the channel becomes an exit event with its code.
LEMMA RecvExitMoves ==
    ASSUME StreamInv, NEW s \in Subs, RecvExit(s)
    PROVE  /\ pc[s] = "stream" /\ out[s] # <<>> /\ At(s) \in Nat
           /\ next[s] \in 1 .. Len(sent) /\ sent[next[s]].kind = "exit"
           /\ Moves(s, "done", next[s] + 1, ExitEvent(At(s), exitCode))
<1>1. /\ sent \in Seq(Update) /\ next \in [Subs -> Nat \ {0}] /\ StreamTypeOK
      /\ out \in [Subs -> Seq(Event)] /\ exitCode \in Code
  BY DEF StreamInv, StreamTypeOK
<1>2. pc[s] = "stream" /\ out[s] # <<>>
  BY DEF RecvExit, StreamInv, ForwarderKept
<1>3. next[s] \in 1 .. Len(sent) /\ sent[next[s]].kind = "exit"
  BY <1>1, OldestType DEF RecvExit
<1>4. sent[next[s]].code = exitCode
  BY <1>3 DEF StreamInv, ExitRecorded
<1>5. PICK e : e = ExitEvent(At(s), exitCode)
  OBVIOUS
<1>6. e \in Event /\ At(s) \in Nat
  BY <1>1, <1>2, <1>5, AtType DEF ExitEvent, Event
<1>7. out' = [out EXCEPT ![s] = Append(@, e)]
  BY <1>4, <1>5 DEF RecvExit
<1>8. next' = [next EXCEPT ![s] = next[s] + 1] /\ next[s] + 1 \in Nat \ {0}
  BY <1>3 DEF RecvExit
<1>9. pc' = [pc EXCEPT ![s] = "done"] /\ "done" \in ForwarderPc
  BY DEF RecvExit, ForwarderPc
<1>10. UNCHANGED <<scroll, total, pos, sent, alive, exitCode, registered>>
  BY DEF RecvExit
<1>11. Moves(s, "done", next[s] + 1, e)
  BY <1>1, <1>6, <1>7, <1>8, <1>9, <1>10, MovesIf
<1>12. QED
  BY <1>2, <1>3, <1>5, <1>6, <1>11

\* The event of an overrun receiver.
Skips(s) == LaggedEvent([from |-> At(s), to |-> ReadsAt(Oldest)], Oldest - next[s])

\* An overrun receiver announces the gap and resumes at the oldest update.
LEMMA RecvLaggedMoves ==
    ASSUME StreamInv, NEW s \in Subs, RecvLagged(s)
    PROVE  /\ pc[s] = "stream" /\ out[s] # <<>> /\ At(s) \in Nat
           /\ next[s] < Oldest /\ Oldest \in Nat \ {0} /\ Oldest <= Len(sent) + 1
           /\ Moves(s, "stream", Oldest, Skips(s))
<1>1. /\ sent \in Seq(Update) /\ next \in [Subs -> Nat \ {0}] /\ StreamTypeOK
      /\ out \in [Subs -> Seq(Event)] /\ pc \in [Subs -> ForwarderPc]
  BY DEF StreamInv, StreamTypeOK
<1>2. pc[s] = "stream" /\ out[s] # <<>> /\ next[s] < Oldest
  BY DEF RecvLagged, StreamInv, ForwarderKept
<1>3. Oldest \in Nat \ {0} /\ Oldest <= Len(sent) + 1
  BY <1>1, OldestType
<1>4. At(s) \in Nat /\ ReadsAt(Oldest) \in Nat /\ Oldest - next[s] \in Nat
  BY <1>1, <1>2, <1>3, AtType, ReadsAtType
<1>5. PICK e : e = Skips(s)
  OBVIOUS
<1>6. e \in Event
  BY <1>4, <1>5 DEF Skips, LaggedEvent, Event, Code
<1>7. out' = [out EXCEPT ![s] = Append(@, e)] /\ next' = [next EXCEPT ![s] = Oldest]
  BY <1>5 DEF RecvLagged, Skips
<1>8. pc' = [pc EXCEPT ![s] = "stream"] /\ "stream" \in ForwarderPc
  BY <1>1, <1>2 DEF RecvLagged, ForwarderPc
<1>9. UNCHANGED <<scroll, total, pos, sent, alive, exitCode, registered>>
  BY DEF RecvLagged
<1>10. PICK n : n = Oldest
  OBVIOUS
<1>11. Moves(s, "stream", n, e)
  BY <1>1, <1>3, <1>6, <1>7, <1>8, <1>9, <1>10, MovesIf
<1>12. QED
  BY <1>2, <1>3, <1>4, <1>5, <1>10, <1>11

\* What such a step does to the transcript of s.
LEMMA MovesAppends ==
    ASSUME StreamTypeOK, NEW s \in Subs, NEW p, NEW n, NEW e, Moves(s, p, n, e)
    PROVE  /\ out[s] \in Seq(Event) /\ out'[s] \in Seq(Event)
           /\ Len(out'[s]) = Len(out[s]) + 1 /\ out'[s] # <<>>
           /\ out'[s][Len(out[s]) + 1] = e /\ At(s)' = e.to
           /\ \A i \in 1 .. Len(out[s]) : out'[s][i] = out[s][i]
<1>1. out[s] \in Seq(Event) /\ e \in Event /\ out'[s] = Append(out[s], e)
  BY DEF StreamTypeOK, Moves
<1>2. /\ Append(out[s], e) \in Seq(Event)
      /\ Len(Append(out[s], e)) = Len(out[s]) + 1
      /\ Append(out[s], e) # <<>>
      /\ Append(out[s], e)[Len(out[s]) + 1] = e
      /\ \A i \in 1 .. Len(out[s]) : Append(out[s], e)[i] = out[s][i]
  BY <1>1, AppendElements
<1>3. QED
  BY <1>1, <1>2 DEF At

\* A running forwarder keeps the invariant if it ends exactly when it sends an
\* exit, and sends one only for a dead pane and with its code.
LEMMA MovesKeeps ==
    ASSUME StreamInv, NEW s \in Subs, NEW p \in {"check", "stream", "done"},
           NEW n \in Nat \ {0}, NEW e, Moves(s, p, n, e),
           pc[s] \in {"spawned", "check", "stream"},
           e.kind = "exit" <=> p = "done",
           e.kind = "exit" => ~alive /\ e.code = exitCode,
           n <= Len(sent) + 1,
           p = "stream" => \/ e.kind = "lagged"
                           \/ /\ pc[s] = "stream"
                              /\ \A i \in 1 .. Len(sent) :
                                    sent[i].kind = "exit" /\ i < n => i < next[s]
    PROVE  StreamInv'
<1>0. /\ StreamTypeOK /\ out \in [Subs -> Seq(Event)] /\ pc \in [Subs -> ForwarderPc]
      /\ next \in [Subs -> Nat \ {0}] /\ sent \in Seq(Update)
  BY DEF StreamInv, StreamTypeOK
<1>1. /\ out[s] \in Seq(Event) /\ out'[s] \in Seq(Event)
      /\ Len(out'[s]) = Len(out[s]) + 1 /\ out'[s] # <<>>
      /\ out'[s][Len(out[s]) + 1] = e
      /\ \A i \in 1 .. Len(out[s]) : out'[s][i] = out[s][i]
  BY <1>0, MovesAppends
<1>2. /\ pc'[s] = p /\ next'[s] = n
      /\ \A r \in Subs \ {s} : out'[r] = out[r] /\ pc'[r] = pc[r] /\ next'[r] = next[r]
      /\ UNCHANGED <<scroll, total, pos, sent, alive, exitCode, registered>>
  BY DEF Moves
<1>3. StreamTypeOK'
  BY <1>0 DEF Moves, StreamTypeOK
<1>4. \A i \in 1 .. Len(out[s]) : out[s][i].kind # "exit"
  BY <1>1 DEF StreamInv, ForwarderKept
<1>5. \A i \in 1 .. Len(out'[s]) - 1 : out'[s][i].kind # "exit"
  BY <1>1, <1>4
<1>6. ForwarderKept'
  <2>1. SUFFICES ASSUME NEW r \in Subs
                 PROVE  /\ pc'[r] \in {"idle", "spawned", "refused"} => out'[r] = <<>>
                        /\ pc'[r] \in {"check", "stream"} =>
                              /\ out'[r] # <<>> /\ next'[r] <= Len(sent') + 1
                              /\ \A i \in 1 .. Len(out'[r]) : out'[r][i].kind # "exit"
    BY DEF ForwarderKept
  <2>2. CASE r # s
    BY <1>2, <2>2 DEF StreamInv, ForwarderKept
  <2>3. CASE r = s /\ p = "done"
    BY <1>2, <2>3
  <2>4. CASE r = s /\ p # "done"
    <3>1. \A i \in 1 .. Len(out'[s]) : out'[s][i].kind # "exit"
      <4>1. out'[s][Len(out[s]) + 1].kind # "exit"
        BY <1>1, <2>4
      <4>2. \A i \in 1 .. Len(out'[s]) : i \in 1 .. Len(out[s]) \/ i = Len(out[s]) + 1
        BY <1>1
      <4>3. QED
        BY <1>1, <1>4, <4>1, <4>2
    <3>2. QED
      BY <1>1, <1>2, <2>4, <3>1
  <2>5. QED
    BY <2>2, <2>3, <2>4
<1>7. ScrollbackIsTail' /\ ExitRecorded'
  BY <1>2 DEF StreamInv, ScrollbackIsTail, Gapless, Span, ExitRecorded
<1>8. ExitIsLast'
  <2>1. SUFFICES ASSUME NEW r \in Subs
                 PROVE  /\ \A i \in 1 .. Len(out'[r]) - 1 : out'[r][i].kind # "exit"
                        /\ pc'[r] = "done" =>
                              out'[r] # <<>> /\ out'[r][Len(out'[r])].kind = "exit"
    BY DEF ExitIsLast
  <2>2. CASE r # s
    BY <1>2, <2>2 DEF StreamInv, ExitIsLast
  <2>3. CASE r = s
    BY <1>1, <1>2, <1>5, <2>3
  <2>4. QED
    BY <2>2, <2>3
<1>9. ExitCodeAgrees'
  <2>1. SUFFICES ASSUME NEW r \in Subs, NEW i \in 1 .. Len(out'[r]),
                        out'[r][i].kind = "exit"
                 PROVE  ~alive /\ out'[r][i].code = exitCode
    BY <1>2 DEF ExitCodeAgrees
  <2>2. CASE r # s
    BY <1>2, <2>1, <2>2 DEF StreamInv, ExitCodeAgrees
  <2>3. CASE r = s
    <3>1. i \in 1 .. Len(out[s]) + 1 /\ out'[s][i].kind = "exit"
      BY <1>1, <2>1, <2>3
    <3>2. i \notin 1 .. Len(out[s])
      BY <1>1, <1>4, <3>1
    <3>3. i = Len(out[s]) + 1
      BY <1>1, <3>1, <3>2
    <3>4. QED
      BY <1>1, <2>3, <3>1, <3>3
  <2>4. QED
    BY <2>2, <2>3
<1>10. ExitNotMissed'
  <2>1. SUFFICES ASSUME NEW r \in Subs, pc'[r] = "stream", PastExit(r)'
                 PROVE  Lagged(r)'
    BY DEF ExitNotMissed
  <2>2. CASE r # s
    BY <1>2, <2>1, <2>2 DEF StreamInv, ExitNotMissed, PastExit, Lagged
  <2>3. CASE r = s /\ e.kind = "lagged"
    <3>1. Len(out[s]) + 1 \in 1 .. Len(out'[s])
      BY <1>1
    <3>2. QED
      BY <1>1, <2>3, <3>1 DEF Lagged
  <2>4. CASE r = s /\ e.kind # "lagged"
    <3>1. PastExit(s) /\ pc[s] = "stream"
      BY <1>2, <2>1, <2>4 DEF PastExit
    <3>2. PICK i \in 1 .. Len(out[s]) : out[s][i].kind = "lagged"
      BY <3>1 DEF StreamInv, ExitNotMissed, Lagged
    <3>3. i \in 1 .. Len(out'[s]) /\ out'[s][i].kind = "lagged"
      BY <1>1, <3>2
    <3>4. QED
      BY <2>4, <3>3 DEF Lagged
  <2>5. QED
    BY <2>2, <2>3, <2>4
<1>11. QED
  BY <1>3, <1>6, <1>7, <1>8, <1>9, <1>10 DEF StreamInv

\* AttachPane, the abort of a forwarder and the step of a live one into its
\* loop only move its pc; the loop is entered before Exit is in the channel.
LEMMA PcStep ==
    ASSUME StreamInv, NEW s \in Subs,
           AttachPane(s) \/ AbortForwarder(s) \/ (CheckAlive(s) /\ alive)
    PROVE  /\ UNCHANGED <<scroll, total, pos, sent, alive, exitCode, registered, next, out>>
           /\ \A r \in Subs : pc'[r] \in {"check", "stream"} => pc[r] \in {"check", "stream"}
           /\ StreamInv'
<1>0. pc \in [Subs -> ForwarderPc]
  BY DEF StreamInv, StreamTypeOK
<1>1. UNCHANGED <<scroll, total, pos, sent, alive, exitCode, registered, next, out>>
  BY DEF AttachPane, AbortForwarder, CheckAlive
<1>2. PICK p \in {"spawned", "refused", "gone", "stream"} :
          /\ pc' = [pc EXCEPT ![s] = p]
          /\ p \in {"spawned", "refused"} => pc[s] = "idle"
          /\ p = "stream" => pc[s] = "check" /\ alive
  BY DEF AttachPane, AbortForwarder, CheckAlive
<1>3. pc'[s] = p /\ \A r \in Subs \ {s} : pc'[r] = pc[r]
  BY <1>0, <1>2
<1>4. pc' \in [Subs -> ForwarderPc]
  BY <1>0, <1>2 DEF ForwarderPc
<1>5. StreamTypeOK' /\ ScrollbackIsTail' /\ ExitRecorded' /\ ExitCodeAgrees'
  BY <1>1, <1>4 DEF StreamInv, StreamTypeOK, ScrollbackIsTail, Gapless, Span,
     ExitRecorded, ExitCodeAgrees
<1>6. \A r \in Subs : /\ pc'[r] \in {"idle", "spawned", "refused"} =>
                            pc[r] \in {"idle", "spawned", "refused"}
                      /\ pc'[r] \in {"check", "stream"} => pc[r] \in {"check", "stream"}
                      /\ pc'[r] = "done" => pc[r] = "done"
                      /\ pc'[r] = "stream" => pc[r] = "stream" \/ alive
  BY <1>2, <1>3
<1>7. ForwarderKept' /\ ExitIsLast'
  BY <1>1, <1>6 DEF StreamInv, ForwarderKept, ExitIsLast
<1>8. ExitNotMissed'
  <2>1. alive => \A r \in Subs : ~PastExit(r)
    BY DEF StreamInv, ExitRecorded, PastExit
  <2>2. \A r \in Subs : PastExit(r)' = PastExit(r) /\ Lagged(r)' = Lagged(r)
    BY <1>1 DEF PastExit, Lagged
  <2>3. QED
    BY <1>6, <2>1, <2>2 DEF StreamInv, ExitNotMissed
<1>9. QED
  BY <1>1, <1>5, <1>6, <1>7, <1>8 DEF StreamInv

\* Whatever one forwarder does, every pane keeps its invariant.
LEMMA ForwarderStep ==
    ASSUME StreamInv, NEW s \in Subs, AttachPane(s) \/ Forward(s) \/ AbortForwarder(s)
    PROVE  StreamInv'
<1>0. /\ next \in [Subs -> Nat \ {0}] /\ sent \in Seq(Update)
      /\ \A i \in 1 .. Len(sent) : sent[i].kind = "exit" => ~alive
  BY DEF StreamInv, StreamTypeOK, ExitRecorded
<1>1. CASE AttachPane(s) \/ AbortForwarder(s) \/ (CheckAlive(s) /\ alive)
  BY <1>1, PcStep
<1>2. CASE Subscribe(s)
  <2>1. PICK e : e = DataEvent("snapshot", Snapshot)
    OBVIOUS
  <2>2. e.kind = "snapshot"
    BY <2>1 DEF DataEvent
  <2>3. PICK n : n = Len(sent) + 1
    OBVIOUS
  <2>4. pc[s] = "spawned" /\ Moves(s, "check", n, e)
    BY <1>2, <2>1, <2>3, SubscribeMoves
  <2>5. n \in Nat \ {0} /\ n <= Len(sent) + 1
    BY <1>0, <2>3
  <2>6. QED
    BY <2>2, <2>4, <2>5, MovesKeeps
<1>3. CASE CheckAlive(s) /\ ~alive
  <2>1. PICK e : e = ExitEvent(At(s), exitCode)
    OBVIOUS
  <2>2. e.kind = "exit" /\ e.code = exitCode
    BY <2>1 DEF ExitEvent
  <2>3. PICK n : n = next[s]
    OBVIOUS
  <2>4. pc[s] = "check" /\ Moves(s, "done", n, e)
    BY <1>3, <2>1, <2>3, CheckAliveMoves
  <2>5. n \in Nat \ {0} /\ n <= Len(sent) + 1
    BY <1>0, <2>3, <2>4 DEF StreamInv, ForwarderKept
  <2>6. QED
    BY <1>3, <2>2, <2>4, <2>5, MovesKeeps
<1>4. CASE RecvBytes(s)
  <2>1. PICK e : e = DataEvent("output", sent[next[s]])
    OBVIOUS
  <2>2. e.kind = "output"
    BY <2>1 DEF DataEvent
  <2>3. PICK n : n = next[s] + 1
    OBVIOUS
  <2>4. /\ pc[s] = "stream" /\ next[s] \in 1 .. Len(sent)
        /\ sent[next[s]].kind = "bytes" /\ Moves(s, "stream", n, e)
    BY <1>4, <2>1, <2>3, RecvBytesMoves
  <2>5. n \in Nat \ {0} /\ n <= Len(sent) + 1
    BY <1>0, <2>3, <2>4
  <2>6. \A i \in 1 .. Len(sent) : sent[i].kind = "exit" /\ i < n => i < next[s]
    BY <1>0, <2>3, <2>4
  <2>7. QED
    BY <2>2, <2>4, <2>5, <2>6, MovesKeeps
<1>5. CASE RecvExit(s)
  <2>1. PICK e : e = ExitEvent(At(s), exitCode)
    OBVIOUS
  <2>2. e.kind = "exit" /\ e.code = exitCode
    BY <2>1 DEF ExitEvent
  <2>3. PICK n : n = next[s] + 1
    OBVIOUS
  <2>4. /\ pc[s] = "stream" /\ next[s] \in 1 .. Len(sent)
        /\ sent[next[s]].kind = "exit" /\ Moves(s, "done", n, e)
    BY <1>5, <2>1, <2>3, RecvExitMoves
  <2>5. n \in Nat \ {0} /\ n <= Len(sent) + 1 /\ ~alive
    BY <1>0, <2>3, <2>4
  <2>6. QED
    BY <2>2, <2>4, <2>5, MovesKeeps
<1>6. CASE RecvLagged(s)
  <2>1. PICK e : e = Skips(s)
    OBVIOUS
  <2>2. e.kind = "lagged"
    BY <2>1 DEF Skips, LaggedEvent
  <2>3. PICK n : n = Oldest
    OBVIOUS
  <2>4. /\ pc[s] = "stream" /\ n \in Nat \ {0} /\ n <= Len(sent) + 1
        /\ Moves(s, "stream", n, e)
    BY <1>6, <2>1, <2>3, RecvLaggedMoves
  <2>5. QED
    BY <2>2, <2>4, MovesKeeps
<1>7. QED
  BY <1>1, <1>2, <1>3, <1>4, <1>5, <1>6 DEF Forward

\* Where a receiver reads on does not depend on what is sent after that point,
\* as long as the channel stays gapless.
LEMMA ReadsAtSend ==
    ASSUME sent \in Seq(Update), NEW u \in Update, Send(u), u.from = SentTo,
           NEW i \in Nat \ {0}, i <= Len(sent) + 1
    PROVE  ReadsAt(i)' = ReadsAt(i)
<1>1. /\ Len(sent') = Len(sent) + 1 /\ sent'[Len(sent) + 1] = u
      /\ \A j \in 1 .. Len(sent) : sent'[j] = sent[j]
  BY AppendElements DEF Send
<1>2. CASE i <= Len(sent)
  BY <1>1, <1>2 DEF ReadsAt
<1>3. CASE i = Len(sent) + 1
  BY <1>1, <1>3 DEF ReadsAt
<1>4. QED
  BY <1>2, <1>3

\* After a chunk its receiver reads on where the chunk ends.
LEMMA ReadsAtNext ==
    ASSUME sent \in Seq(Update), Gapless(sent), NEW i \in 1 .. Len(sent)
    PROVE  ReadsAt(i) = sent[i].from /\ ReadsAt(i + 1) = sent[i].to
<1>1. CASE i = Len(sent)
  BY <1>1 DEF ReadsAt, SentTo
<1>2. CASE i < Len(sent)
  BY <1>2 DEF ReadsAt, Gapless
<1>3. QED
  BY <1>1, <1>2

\* Sending an update that starts where the channel stands keeps it gapless.
LEMMA SendGapless ==
    ASSUME sent \in Seq(Update), Gapless(sent), NEW u \in Update, Send(u), u.from = SentTo
    PROVE  /\ sent' \in Seq(Update) /\ Gapless(sent') /\ SentTo' = u.to
           /\ Len(sent') = Len(sent) + 1 /\ sent'[Len(sent) + 1] = u
           /\ \A i \in 1 .. Len(sent) : sent'[i] = sent[i]
<1>1. /\ sent' \in Seq(Update) /\ Len(sent') = Len(sent) + 1 /\ sent' # <<>>
      /\ sent'[Len(sent) + 1] = u /\ \A i \in 1 .. Len(sent) : sent'[i] = sent[i]
  BY AppendElements DEF Send
<1>2. sent # <<>> => sent[Len(sent)].to = u.from
  BY DEF SentTo
<1>3. Gapless(sent')
  BY <1>2, GaplessAppend DEF Send
<1>4. SentTo' = u.to
  BY <1>1 DEF SentTo
<1>5. QED
  BY <1>1, <1>3, <1>4

-----------------------------------------------------------------------------
(* A local pane: the inductive invariant.                                  *)

\* The updates in the channel follow each other without a gap and have caught
\* up with the scrollback (append and send share one critical section).
ChannelGapless ==
    /\ Gapless(sent)
    /\ SentTo = pos

\* A forwarder in its loop stands exactly where its receiver reads on.
LocalPlaced ==
    \A s \in Subs : pc[s] \in {"check", "stream"} => At(s) = ReadsAt(next[s])

\* The waiter's order: record the code, clear alive, send Exit.
WaiterOrder ==
    /\ alive <=> waiter \in {"wait", "reaped"}
    /\ \A i \in 1 .. Len(sent) : sent[i].kind = "exit" => waiter = "done"

LocalIInv == LocalTypeOK /\ StreamInv /\ ChannelGapless /\ LocalPlaced /\ WaiterOrder
        /\ StreamContiguous

\* LocalInit establishes the invariant.
LEMMA LocalInitIInv == LocalInit => LocalIInv
<1> SUFFICES ASSUME LocalInit PROVE LocalIInv
  OBVIOUS
<1> USE DEF LocalInit
<1>1. StreamInv
  BY StreamInitInv
<1>2. LocalTypeOK
  BY <1>1 DEF LocalTypeOK, StreamInv
<1>3. ChannelGapless
  BY DEF StreamInit, ChannelGapless, SentTo, Gapless
<1>4. LocalPlaced /\ WaiterOrder /\ StreamContiguous
  BY DEF StreamInit, LocalPlaced, WaiterOrder, StreamContiguous, Gapless
<1>5. QED
  BY <1>1, <1>2, <1>3, <1>4 DEF LocalIInv

-----------------------------------------------------------------------------
(* A local pane: one lemma per group of actions.                           *)

\* Steps of the child and of the waiter's bookkeeping, the end of the reader,
\* CloseLocalPane and stuttering.
LEMMA LocalQuietStep ==
    ASSUME LocalIInv, LocalTypeOK', UNCHANGED <<scroll, total, pos, sent, pc, next, out>>,
           alive' <=> waiter' \in {"wait", "reaped"},
           waiter = "done" => waiter' = "done",
           ~alive => ~alive' /\ exitCode' = exitCode
    PROVE  LocalIInv'
<1>1. ChannelGapless' /\ WaiterOrder'
  BY DEF LocalIInv, ChannelGapless, SentTo, Gapless, WaiterOrder
<1>2. LocalPlaced' /\ StreamContiguous'
  BY DEF LocalIInv, LocalPlaced, At, ReadsAt, SentTo, StreamContiguous, Gapless
<1>3. ScrollbackIsTail' /\ StreamTypeOK'
  BY DEF LocalIInv, StreamInv, ScrollbackIsTail, Gapless, Span, LocalTypeOK
<1>4. ExitRecorded'
  BY DEF LocalIInv, StreamInv, ExitRecorded
<1>5. StreamInv'
  BY <1>3, <1>4, ProducerStep DEF LocalIInv
<1>6. QED
  BY <1>1, <1>2, <1>5 DEF LocalIInv

\* Sending an update that starts where the channel stands disturbs no forwarder.
LEMMA LocalSendStep ==
    ASSUME LocalIInv, NEW u \in Update, Send(u), u.from = SentTo, pos' = u.to,
           LocalTypeOK', ScrollbackIsTail', ExitRecorded',
           u.kind = "exit" => waiter' = "done",
           waiter = "done" => waiter' = "done",
           alive <=> waiter' \in {"wait", "reaped"},
           UNCHANGED <<alive, exitCode, pc, next, out>>
    PROVE  LocalIInv'
<1>0. sent \in Seq(Update) /\ Gapless(sent) /\ next \in [Subs -> Nat \ {0}]
  BY DEF LocalIInv, LocalTypeOK, StreamTypeOK, ChannelGapless
<1>1. /\ sent' \in Seq(Update) /\ Gapless(sent') /\ SentTo' = u.to
      /\ Len(sent') = Len(sent) + 1 /\ sent'[Len(sent) + 1] = u
      /\ \A i \in 1 .. Len(sent) : sent'[i] = sent[i]
  BY <1>0, SendGapless
<1>2. StreamInv'
  BY ProducerStep DEF LocalIInv, LocalTypeOK
<1>3. ChannelGapless'
  BY <1>1 DEF ChannelGapless
<1>4. LocalPlaced'
  <2>1. SUFFICES ASSUME NEW s \in Subs, pc[s] \in {"check", "stream"}
                 PROVE  At(s)' = ReadsAt(next[s])'
    BY DEF LocalPlaced
  <2>2. PICK n : n = next[s]
    OBVIOUS
  <2>3. n \in Nat \ {0} /\ n <= Len(sent) + 1
    BY <1>0, <2>1, <2>2 DEF LocalIInv, StreamInv, ForwarderKept
  <2>4. ReadsAt(n)' = ReadsAt(n)
    BY <1>0, <2>3, ReadsAtSend
  <2>5. QED
    BY <2>1, <2>2, <2>4 DEF LocalIInv, LocalPlaced, At
<1>5. WaiterOrder'
  <2>1. ASSUME NEW i \in 1 .. Len(sent'), sent'[i].kind = "exit"
        PROVE  waiter' = "done"
    <3>1. CASE i \in 1 .. Len(sent)
      BY <1>1, <2>1, <3>1 DEF LocalIInv, WaiterOrder
    <3>2. CASE i = Len(sent) + 1
      BY <1>1, <2>1, <3>2
    <3>3. QED
      BY <1>0, <1>1, <3>1, <3>2
  <2>2. QED
    BY <2>1 DEF WaiterOrder
<1>6. StreamContiguous'
  BY DEF LocalIInv, StreamContiguous, Gapless
<1>7. QED
  BY <1>2, <1>3, <1>4, <1>5, <1>6 DEF LocalIInv

\* reader_loop: append and send as one step keep channel and scrollback together.
LEMMA ReaderReadStep ==
    ASSUME LocalIInv, ReaderRead
    PROVE  LocalIInv'
<1>1. PICK n \in 1 .. ReadSize :
          /\ ScrollAppend([from |-> pos, to |-> pos + n])
          /\ Send(BytesUpdate([from |-> pos, to |-> pos + n]))
  BY DEF ReaderRead
<1>2. PICK c : c = [from |-> pos, to |-> pos + n]
  OBVIOUS
<1>3. /\ pos \in Nat /\ n \in Nat /\ n > 0 /\ StreamTypeOK /\ ScrollbackIsTail
      /\ sent \in Seq(Update)
  BY LocalConstants DEF LocalIInv, LocalTypeOK, StreamTypeOK, StreamInv
<1>4. c \in Chunk /\ c.from = pos /\ c.from < c.to /\ ScrollAppend(c)
  BY <1>1, <1>2, <1>3 DEF Chunk
<1>5. /\ scroll' \in Seq(Chunk) /\ total' \in Int /\ pos' = c.to
      /\ ScrollbackIsTail'
  BY <1>3, <1>4, ScrollAppendTail
<1>6. PICK u : u = BytesUpdate(c)
  OBVIOUS
<1>7. /\ u \in Update /\ u.kind = "bytes" /\ u.from = SentTo /\ u.to = c.to /\ Send(u)
  BY <1>1, <1>2, <1>4, <1>6 DEF BytesUpdate, Update, Chunk, Code, LocalIInv, ChannelGapless
<1>8. UNCHANGED <<alive, exitCode, registered, pc, next, out, threadVars>>
  BY DEF ReaderRead
<1>9. /\ sent' \in Seq(Update) /\ Len(sent') = Len(sent) + 1 /\ sent'[Len(sent) + 1] = u
      /\ \A i \in 1 .. Len(sent) : sent'[i] = sent[i]
  BY <1>3, <1>7, AppendElements DEF Send
<1>10. LocalTypeOK'
  BY <1>4, <1>5, <1>8, <1>9 DEF LocalIInv, LocalTypeOK, StreamTypeOK, threadVars, Chunk
<1>11. ExitRecorded'
  BY <1>3, <1>7, <1>8, <1>9 DEF LocalIInv, StreamInv, ExitRecorded
<1>12. alive <=> waiter' \in {"wait", "reaped"}
  BY <1>8 DEF LocalIInv, WaiterOrder, threadVars
<1>13. QED
  BY <1>5, <1>7, <1>8, <1>10, <1>11, <1>12, LocalSendStep DEF threadVars

\* Exit enters the channel ahead of every forwarder that is in its loop.
LEMMA WaiterSendsExitStep ==
    ASSUME LocalIInv, WaiterSendsExit
    PROVE  LocalIInv'
<1>1. PICK u : u = ExitUpdate(SentTo, exitCode)
  OBVIOUS
<1>2. sent \in Seq(Update) /\ exitCode \in Code /\ SentTo = pos
  BY DEF LocalIInv, LocalTypeOK, StreamTypeOK, ChannelGapless
<1>3. /\ u \in Update /\ u.kind = "exit" /\ u.from = SentTo /\ u.to = pos
      /\ u.code = exitCode /\ Send(u)
  BY <1>1, <1>2, SentToType DEF WaiterSendsExit, ExitUpdate, Update
<1>4. /\ UNCHANGED <<scroll, total, pos, alive, exitCode, registered, pc, next, out>>
      /\ UNCHANGED <<written, slaveOpen, child, reader>>
      /\ waiter = "dead" /\ waiter' = "done" /\ ~alive
  BY DEF WaiterSendsExit, LocalIInv, WaiterOrder
<1>5. /\ sent' \in Seq(Update) /\ Len(sent') = Len(sent) + 1 /\ sent'[Len(sent) + 1] = u
      /\ \A i \in 1 .. Len(sent) : sent'[i] = sent[i]
  BY <1>2, <1>3, AppendElements DEF Send
<1>6. LocalTypeOK'
  BY <1>4, <1>5 DEF LocalIInv, LocalTypeOK, StreamTypeOK
<1>7. ScrollbackIsTail'
  BY <1>4 DEF LocalIInv, StreamInv, ScrollbackIsTail, Gapless, Span
<1>8. ExitRecorded'
  BY <1>2, <1>3, <1>4, <1>5 DEF LocalIInv, StreamInv, ExitRecorded
<1>9. QED
  BY <1>3, <1>4, <1>6, <1>7, <1>8, LocalSendStep

-----------------------------------------------------------------------------
(* A local pane: the forwarders.                                           *)

\* A step of a forwarder leaves everything but its own transcript alone: its
\* event starts where the subscription stands and ends where it reads on.
LEMMA LocalMovesStep ==
    ASSUME LocalIInv, NEW s \in Subs, NEW p, NEW n, NEW e, Moves(s, p, n, e),
           StreamInv', UNCHANGED threadVars,
           p \in {"check", "stream"} => At(s)' = ReadsAt(next[s])',
           out[s] # <<>> => e.from = At(s)
    PROVE  LocalIInv'
<1>0. /\ UNCHANGED <<scroll, total, pos, sent, alive, exitCode, registered>>
      /\ \A r \in Subs \ {s} : out'[r] = out[r] /\ pc'[r] = pc[r] /\ next'[r] = next[r]
      /\ pc'[s] = p /\ StreamTypeOK
  BY DEF Moves, LocalIInv, LocalTypeOK
<1>1. LocalTypeOK'
  BY DEF LocalIInv, LocalTypeOK, StreamInv, threadVars
<1>2. ChannelGapless' /\ WaiterOrder'
  BY <1>0 DEF LocalIInv, ChannelGapless, Gapless, SentTo, WaiterOrder, threadVars
<1>3. LocalPlaced'
  <2>1. ASSUME NEW r \in Subs \ {s}, pc[r] \in {"check", "stream"}
        PROVE  At(r)' = ReadsAt(next[r])'
    <3>1. At(r) = ReadsAt(next[r]) /\ out'[r] = out[r] /\ next'[r] = next[r]
      BY <1>0, <2>1 DEF LocalIInv, LocalPlaced
    <3>2. QED
      BY <1>0, <3>1 DEF At, ReadsAt, SentTo
  <2>2. QED
    BY <1>0, <2>1 DEF LocalPlaced
<1>4. StreamContiguous'
  <2>1. out[s] \in Seq(Event) /\ e \in Event /\ out'[s] = Append(out[s], e)
    BY <1>0 DEF Moves, StreamTypeOK
  <2>2. Gapless(out[s])
    BY DEF LocalIInv, StreamContiguous
  <2>3. Gapless(out'[s])
    BY <2>1, <2>2, GaplessAppend DEF At
  <2>4. QED
    BY <1>0, <2>3 DEF LocalIInv, StreamContiguous
<1>5. QED
  BY <1>1, <1>2, <1>3, <1>4 DEF LocalIInv

\* Subscribing places the receiver exactly at the end of the snapshot.
LEMMA LocalSubscribeStep ==
    ASSUME LocalIInv, NEW s \in Subs, Subscribe(s), UNCHANGED threadVars
    PROVE  LocalIInv'
<1>0. sent \in Seq(Update) /\ StreamInv /\ StreamTypeOK
  BY DEF LocalIInv, LocalTypeOK, StreamTypeOK
<1>1. PICK e : e = DataEvent("snapshot", Snapshot)
  OBVIOUS
<1>2. PICK n : n = Len(sent) + 1
  OBVIOUS
<1>3. Moves(s, "check", n, e)
  BY <1>0, <1>1, <1>2, SubscribeMoves
<1>4. out[s] = <<>>
  BY <1>0, SubscribeMoves
<1>5. At(s)' = pos
  <2>1. e.to = pos
    BY <1>1 DEF DataEvent, LocalIInv, StreamInv, ScrollbackIsTail, Snapshot
  <2>2. QED
    BY <1>0, <1>3, <2>1, MovesAppends
<1>6. ReadsAt(next[s])' = pos
  <2>1. next'[s] = n /\ sent' = sent
    BY <1>3 DEF Moves
  <2>2. QED
    BY <1>0, <1>2, <2>1 DEF ReadsAt, SentTo, LocalIInv, ChannelGapless
<1>7. StreamInv'
  BY <1>0, ForwarderStep DEF Forward
<1>8. QED
  BY <1>3, <1>4, <1>5, <1>6, <1>7, LocalMovesStep

\* An exit starts where the subscription stands.
LEMMA LocalExitStep ==
    ASSUME LocalIInv, NEW s \in Subs, (CheckAlive(s) /\ ~alive) \/ RecvExit(s),
           UNCHANGED threadVars
    PROVE  LocalIInv'
<1>1. PICK e : e = ExitEvent(At(s), exitCode)
  OBVIOUS
<1>2. e.from = At(s)
  BY <1>1 DEF ExitEvent
<1>3. PICK n : Moves(s, "done", n, e)
  BY <1>1, CheckAliveMoves, RecvExitMoves DEF LocalIInv
<1>4. StreamInv'
  BY ForwarderStep DEF LocalIInv, Forward
<1>5. QED
  BY <1>2, <1>3, <1>4, LocalMovesStep

\* Receiving an output chunk moves the subscription over exactly that chunk.
LEMMA LocalRecvBytesStep ==
    ASSUME LocalIInv, NEW s \in Subs, RecvBytes(s), UNCHANGED threadVars
    PROVE  LocalIInv'
<1>0. sent \in Seq(Update) /\ Gapless(sent) /\ StreamInv /\ StreamTypeOK
  BY DEF LocalIInv, LocalTypeOK, StreamTypeOK, ChannelGapless
<1>1. PICK u : u = sent[next[s]]
  OBVIOUS
<1>2. PICK e : e = DataEvent("output", u)
  OBVIOUS
<1>3. PICK n : n = next[s]
  OBVIOUS
<1>4. /\ n \in 1 .. Len(sent) /\ u \in Update /\ pc[s] = "stream"
      /\ Moves(s, "stream", n + 1, e)
  BY <1>0, <1>1, <1>2, <1>3, RecvBytesMoves
<1>5. e.from = u.from /\ e.to = u.to
  BY <1>2 DEF DataEvent
<1>6. ReadsAt(n) = u.from /\ ReadsAt(n + 1) = u.to
  BY <1>0, <1>1, <1>3, <1>4, ReadsAtNext
<1>7. At(s)' = ReadsAt(next[s])'
  <2>1. At(s)' = u.to
    BY <1>0, <1>4, <1>5, MovesAppends
  <2>2. next'[s] = n + 1 /\ sent' = sent
    BY <1>4 DEF Moves
  <2>3. QED
    BY <1>6, <2>1, <2>2 DEF ReadsAt, SentTo
<1>8. e.from = At(s)
  BY <1>3, <1>4, <1>5, <1>6 DEF LocalIInv, LocalPlaced
<1>9. StreamInv'
  BY <1>0, ForwarderStep DEF Forward
<1>10. QED
  BY <1>4, <1>7, <1>8, <1>9, LocalMovesStep

\* An overrun receiver resumes at the oldest update; the gap is announced.
LEMMA LocalRecvLaggedStep ==
    ASSUME LocalIInv, NEW s \in Subs, RecvLagged(s), UNCHANGED threadVars
    PROVE  LocalIInv'
<1>0. StreamInv /\ StreamTypeOK
  BY DEF LocalIInv, LocalTypeOK
<1>1. PICK e : e = Skips(s)
  OBVIOUS
<1>2. PICK n : n = Oldest
  OBVIOUS
<1>3. Moves(s, "stream", n, e)
  BY <1>0, <1>1, <1>2, RecvLaggedMoves
<1>4. e.from = At(s) /\ e.to = ReadsAt(n)
  BY <1>1, <1>2 DEF Skips, LaggedEvent
<1>5. At(s)' = ReadsAt(next[s])'
  <2>1. At(s)' = ReadsAt(n)
    BY <1>0, <1>3, <1>4, MovesAppends
  <2>2. next'[s] = n /\ sent' = sent
    BY <1>3 DEF Moves
  <2>3. QED
    BY <2>1, <2>2 DEF ReadsAt, SentTo
<1>6. StreamInv'
  BY <1>0, ForwarderStep DEF Forward
<1>7. QED
  BY <1>3, <1>4, <1>5, <1>6, LocalMovesStep

\* Attaching, aborting and entering the loop move no receiver.
LEMMA LocalControlStep ==
    ASSUME LocalIInv, NEW s \in Subs, UNCHANGED threadVars,
           AttachPane(s) \/ AbortForwarder(s) \/ (CheckAlive(s) /\ alive)
    PROVE  LocalIInv'
<1>1. /\ UNCHANGED <<scroll, total, pos, sent, alive, exitCode, registered, next, out>>
      /\ \A r \in Subs : pc'[r] \in {"check", "stream"} => pc[r] \in {"check", "stream"}
      /\ StreamInv'
  BY PcStep DEF LocalIInv
<1>2. LocalTypeOK'
  BY <1>1 DEF LocalIInv, LocalTypeOK, StreamInv, threadVars
<1>3. ChannelGapless' /\ WaiterOrder' /\ StreamContiguous'
  BY <1>1 DEF LocalIInv, ChannelGapless, Gapless, SentTo, WaiterOrder, StreamContiguous,
     threadVars
<1>4. LocalPlaced'
  BY <1>1 DEF LocalIInv, LocalPlaced, At, ReadsAt, SentTo
<1>5. QED
  BY <1>1, <1>2, <1>3, <1>4 DEF LocalIInv

-----------------------------------------------------------------------------
(* A local pane: the theorems.                                             *)

\* Every step of the pane preserves the invariant.
LEMMA LocalNextIInv == LocalIInv /\ [LocalNext]_localVars => LocalIInv'
<1> SUFFICES ASSUME LocalIInv, [LocalNext]_localVars PROVE LocalIInv'
  OBVIOUS
<1>0. alive <=> waiter \in {"wait", "reaped"}
  BY DEF LocalIInv, WaiterOrder
<1>1. CASE UNCHANGED localVars
  <2>1. LocalTypeOK'
    BY <1>1 DEF localVars, streamVars, threadVars, LocalIInv, LocalTypeOK, StreamTypeOK
  <2>2. QED
    BY <1>0, <1>1, <2>1, LocalQuietStep DEF localVars, streamVars, threadVars
<1>2. CASE \/ ChildWrites \/ ChildExits \/ LastWriterCloses \/ ReaderEnds \/ CloseLocalPane
           \/ WaiterReaps \/ WaiterMarksDead
  <2>1. LocalTypeOK'
    <3> USE DEF streamVars, threadVars, LocalIInv, LocalTypeOK, StreamTypeOK
    <3>1. CASE ChildWrites
      BY <3>1 DEF ChildWrites
    <3>2. CASE ChildExits
      BY <3>2 DEF ChildExits
    <3>3. CASE LastWriterCloses
      BY <3>3 DEF LastWriterCloses
    <3>4. CASE ReaderEnds
      BY <3>4 DEF ReaderEnds
    <3>5. CASE CloseLocalPane
      BY <3>5 DEF CloseLocalPane
    <3>6. CASE WaiterReaps
      BY <3>6 DEF WaiterReaps
    <3>7. CASE WaiterMarksDead
      BY <3>7 DEF WaiterMarksDead
    <3>8. QED
      BY <1>2, <3>1, <3>2, <3>3, <3>4, <3>5, <3>6, <3>7
  <2>2. /\ UNCHANGED <<scroll, total, pos, sent, pc, next, out>>
        /\ alive' <=> waiter' \in {"wait", "reaped"}
        /\ waiter = "done" => waiter' = "done"
        /\ ~alive => ~alive' /\ exitCode' = exitCode
    BY <1>0, <1>2 DEF ChildWrites, ChildExits, LastWriterCloses, ReaderEnds, CloseLocalPane,
       WaiterReaps, WaiterMarksDead, streamVars, threadVars
  <2>3. QED
    BY <2>1, <2>2, LocalQuietStep
<1>3. CASE ReaderRead \/ WaiterSendsExit
  BY <1>3, ReaderReadStep, WaiterSendsExitStep
<1>4. ASSUME NEW s \in Subs, LocalClient(s) PROVE LocalIInv'
  BY <1>4, LocalControlStep, LocalSubscribeStep, LocalExitStep, LocalRecvBytesStep, LocalRecvLaggedStep
     DEF LocalClient, Forward
<1>5. QED
  BY <1>1, <1>2, <1>3, <1>4 DEF LocalNext, Reader, Waiter

\* The invariant holds in every reachable state.
LEMMA LocalInvariant == LocalSpec => []LocalIInv
  BY LocalInitIInv, LocalNextIInv, PTL DEF LocalSpec

\* Every variable keeps its type in every behaviour of a local pane.
THEOREM TypeCorrect == LocalSpec => []LocalTypeOK
<1>1. LocalIInv => LocalTypeOK
  BY DEF LocalIInv
<1>2. QED
  BY <1>1, LocalInvariant, PTL

\* Every subscriber of a local pane sees every byte from its snapshot on exactly
\* once, or in a gap that a PaneLagged announces, for every interleaving of the
\* reader, the waiter and any number of forwarders (Pane::subscribe, reader_loop).
THEOREM NoByteLostOrDuplicated == LocalSpec => []StreamContiguous
<1>1. LocalIInv => StreamContiguous
  BY DEF LocalIInv
<1>2. QED
  BY <1>1, LocalInvariant, PTL

\* The scrollback is always a gapless tail of the output within its capacity
\* (Scrollback::append).
THEOREM ScrollbackCorrect == LocalSpec => []ScrollbackIsTail
<1>1. LocalIInv => ScrollbackIsTail
  BY DEF LocalIInv, StreamInv
<1>2. QED
  BY <1>1, LocalInvariant, PTL

\* PaneExit is sent at most once and last, only a forwarder that was overrun can
\* get past Exit without it, and it carries the recorded code.
THEOREM ExitProtocol == LocalSpec => []ExitProtocolKept
<1>1. LocalIInv => ExitProtocolKept
  BY DEF LocalIInv, StreamInv, ExitProtocolKept
<1>2. QED
  BY <1>1, LocalInvariant, PTL

-----------------------------------------------------------------------------
(* A local pane implements PaneLog.  Besides LocalIInv that needs that the *)
(* updates in the channel lie in the order of their bytes: an overrun      *)
(* receiver jumps forward, and no update reaches past what was read.       *)

\* The updates in the channel are intervals in the order of their bytes, none
\* of which reaches past the newest byte.
ChannelOrdered ==
    /\ \A i \in 1 .. Len(sent) : sent[i].from <= sent[i].to /\ sent[i].to <= pos
    /\ \A i, j \in 1 .. Len(sent) : i < j => sent[i].to <= sent[j].from

\* No chunk of the scrollback starts past the newest byte.
ScrollBelow == \A i \in 1 .. Len(scroll) : scroll[i].from <= pos

RInv == LocalIInv /\ ChannelOrdered /\ ScrollBelow

\* Sending an interval that starts at the newest byte keeps the channel ordered.
LEMMA SendOrdered ==
    ASSUME RInv, NEW u \in Update, Send(u), u.from = pos, u.from <= u.to, pos' = u.to
    PROVE  ChannelOrdered'
<1>0. sent \in Seq(Update) /\ sent' = Append(sent, u) /\ pos \in Nat
  BY DEF RInv, LocalIInv, LocalTypeOK, StreamTypeOK, Send
<1>1. /\ sent' \in Seq(Update) /\ Len(sent') = Len(sent) + 1
      /\ sent'[Len(sent) + 1] = u /\ \A i \in 1 .. Len(sent) : sent'[i] = sent[i]
  BY <1>0, AppendElements
<1>2. \A i \in 1 .. Len(sent) : /\ sent[i].from \in Nat /\ sent[i].to \in Nat
                                /\ sent[i].from <= sent[i].to /\ sent[i].to <= pos
  <2>1. \A i \in 1 .. Len(sent) : sent[i] \in Update
    BY <1>0
  <2>2. QED
    BY <2>1 DEF RInv, ChannelOrdered, Update
<1>3. u.from \in Nat /\ u.to \in Nat
  BY DEF Update
<1>4. \A i \in 1 .. Len(sent') : sent'[i].from <= sent'[i].to /\ sent'[i].to <= pos'
  <2>1. SUFFICES ASSUME NEW i \in 1 .. Len(sent')
                 PROVE  sent'[i].from <= sent'[i].to /\ sent'[i].to <= pos'
    OBVIOUS
  <2>2. CASE i = Len(sent) + 1
    BY <1>1, <1>3, <2>2
  <2>3. CASE i \in 1 .. Len(sent)
    <3>1. sent'[i] = sent[i] /\ sent[i].from <= sent[i].to /\ sent[i].to <= pos
      BY <1>1, <1>2, <2>3
    <3>2. sent[i].to \in Nat
      BY <1>2, <2>3
    <3>3. QED
      BY <1>0, <1>3, <3>1, <3>2
  <2>4. QED
    BY <1>0, <1>1, <2>2, <2>3
<1>5. \A i, j \in 1 .. Len(sent') : i < j => sent'[i].to <= sent'[j].from
  <2>1. SUFFICES ASSUME NEW i \in 1 .. Len(sent'), NEW j \in 1 .. Len(sent'), i < j
                 PROVE  sent'[i].to <= sent'[j].from
    OBVIOUS
  <2>2. i \in 1 .. Len(sent) /\ sent'[i] = sent[i] /\ sent[i].to <= pos
    BY <1>0, <1>1, <1>2, <2>1
  <2>3. CASE j = Len(sent) + 1
    BY <1>1, <2>2, <2>3
  <2>4. CASE j \in 1 .. Len(sent)
    BY <1>1, <2>1, <2>2, <2>4 DEF RInv, ChannelOrdered
  <2>5. QED
    BY <1>0, <1>1, <2>3, <2>4
<1>6. QED
  BY <1>4, <1>5 DEF ChannelOrdered

\* Scrollback::append only adds the new chunk and drops old ones.
LEMMA AppendBelow ==
    ASSUME RInv, NEW c \in Chunk, c.from = pos, c.from < c.to, ScrollAppend(c)
    PROVE  ScrollBelow'
<1>0. /\ scroll \in Seq(Chunk) /\ pos \in Nat /\ pos' = c.to /\ pos < pos'
      /\ pos' \in Nat /\ \A i \in 1 .. Len(scroll) : scroll[i].from <= pos
  BY DEF RInv, LocalIInv, LocalTypeOK, StreamTypeOK, ScrollBelow, ScrollAppend, Chunk
<1>1. PICK q : q = Append(scroll, c)
  OBVIOUS
<1>2. q \in Seq(Chunk) /\ Len(q) = Len(scroll) + 1 /\ q[Len(scroll) + 1] = c
      /\ \A i \in 1 .. Len(scroll) : q[i] = scroll[i]
  BY <1>0, <1>1, AppendElements
<1>3. \A i \in 1 .. Len(q) : q[i].from \in Nat /\ q[i].from <= pos'
  <2>1. SUFFICES ASSUME NEW i \in 1 .. Len(q)
                 PROVE  q[i].from \in Nat /\ q[i].from <= pos'
    OBVIOUS
  <2>2. q[i].from \in Nat
    <3>1. q[i] \in Chunk
      BY <1>2
    <3>2. QED
      BY <3>1 DEF Chunk
  <2>3. q[i].from <= pos
    BY <1>0, <1>2
  <2>4. QED
    BY <1>0, <2>2, <2>3
<1>4. c.from # c.to
  BY <1>0
<1>4a. PICK k \in 0 .. Len(q) : scroll' = SubSeq(q, k + 1, Len(q))
  BY <1>1, <1>4 DEF ScrollAppend
<1>5. Len(scroll') = Len(q) - k /\ \A i \in 1 .. Len(scroll') : scroll'[i] = q[k + i]
  BY <1>2, <1>4a
<1>6. QED
  BY <1>2, <1>3, <1>5 DEF ScrollBelow

\* Only the reader and the waiter's Exit add to the channel, and both start
\* where it stands.
LEMMA NextRInv == RInv /\ [LocalNext]_localVars => RInv'
<1> SUFFICES ASSUME RInv, [LocalNext]_localVars PROVE RInv'
  OBVIOUS
<1>0. LocalIInv' /\ LocalIInv
  BY LocalNextIInv DEF RInv
<1>1. CASE UNCHANGED <<sent, pos, scroll>>
  BY <1>0, <1>1 DEF RInv, ChannelOrdered, ScrollBelow
<1>2. CASE ReaderRead
  <2>1. PICK n \in 1 .. ReadSize :
            /\ ScrollAppend([from |-> pos, to |-> pos + n])
            /\ Send(BytesUpdate([from |-> pos, to |-> pos + n]))
    BY <1>2 DEF ReaderRead
  <2>2. PICK u : u = BytesUpdate([from |-> pos, to |-> pos + n])
    OBVIOUS
  <2>3. pos \in Nat /\ n \in Nat /\ pos' = pos + n
    BY <2>1, LocalConstants DEF LocalIInv, LocalTypeOK, StreamTypeOK, RInv, ScrollAppend
  <2>4. u \in Update /\ u.from = pos /\ u.to = pos + n
    BY <2>2, <2>3 DEF BytesUpdate, Update, Code
  <2>5. ChannelOrdered'
    BY <2>1, <2>2, <2>3, <2>4, SendOrdered
  <2>6. n > 0
    BY LocalConstants
  <2>7. ScrollBelow'
    BY <2>1, <2>3, <2>6, AppendBelow DEF Chunk
  <2>8. QED
    BY <1>0, <2>5, <2>7 DEF RInv
<1>3. CASE WaiterSendsExit
  <2>1. PICK u : u = ExitUpdate(SentTo, exitCode)
    OBVIOUS
  <2>2. sent \in Seq(Update) /\ exitCode \in Code /\ SentTo = pos /\ pos \in Nat
    BY <1>0 DEF LocalIInv, LocalTypeOK, StreamTypeOK, ChannelGapless
  <2>3. u \in Update /\ u.from = pos /\ u.to = pos
    BY <2>1, <2>2 DEF ExitUpdate, Update
  <2>4. Send(u) /\ pos' = pos /\ scroll' = scroll
    BY <1>3, <2>1 DEF WaiterSendsExit
  <2>5. QED
    BY <1>0, <2>2, <2>3, <2>4, SendOrdered DEF RInv, ScrollBelow
<1>4. CASE UNCHANGED localVars
  BY <1>1, <1>4 DEF localVars, streamVars
<1>5. CASE ChildWrites \/ ChildExits \/ LastWriterCloses \/ ReaderEnds \/ CloseLocalPane
           \/ WaiterReaps \/ WaiterMarksDead
  BY <1>1, <1>5 DEF ChildWrites, ChildExits, LastWriterCloses, ReaderEnds, CloseLocalPane,
     WaiterReaps, WaiterMarksDead, streamVars
<1>6. ASSUME NEW s \in Subs, LocalClient(s) PROVE RInv'
  BY <1>1, <1>6 DEF LocalClient, Forward, AttachPane, AbortForwarder, Subscribe, CheckAlive,
     RecvBytes, RecvExit, RecvLagged
<1>7. QED
  BY <1>2, <1>3, <1>4, <1>5, <1>6 DEF LocalNext, Reader, Waiter

\* A receiver never reads on before a byte it has passed, nor past the newest.
LEMMA ReadsForward ==
    ASSUME RInv, NEW i \in Nat \ {0}, NEW j \in Nat \ {0}, i <= j, j <= Len(sent) + 1
    PROVE  ReadsAt(i) <= ReadsAt(j) /\ ReadsAt(j) <= pos
<1>0. sent \in Seq(Update) /\ pos \in Nat /\ SentTo = pos
  BY DEF RInv, LocalIInv, LocalTypeOK, StreamTypeOK, ChannelGapless
<1>1. \A k \in 1 .. Len(sent) : /\ sent[k].from \in Nat /\ sent[k].to \in Nat
                                /\ sent[k].from <= sent[k].to /\ sent[k].to <= pos
  <2>1. \A k \in 1 .. Len(sent) : sent[k] \in Update
    BY <1>0
  <2>2. QED
    BY <2>1 DEF RInv, ChannelOrdered, Update
<1>2. CASE j = Len(sent) + 1
  BY <1>0, <1>1, <1>2 DEF ReadsAt
<1>3. CASE j <= Len(sent)
  <2>1. ReadsAt(i) = sent[i].from /\ ReadsAt(j) = sent[j].from
    BY <1>0, <1>3 DEF ReadsAt
  <2>2. i < j => sent[i].to <= sent[j].from
    BY <1>0, <1>3 DEF RInv, ChannelOrdered
  <2>3. QED
    BY <1>0, <1>1, <1>3, <2>1, <2>2
<1>4. QED
  BY <1>0, <1>2, <1>3

-----------------------------------------------------------------------------
(* Each step of a local pane is one of the log, or leaves it as it is.     *)

\* What the log sees of a pane stays the same while these do.
LEMMA QuietLog ==
    ASSUME RInv, UNCHANGED <<pos, alive, out, pc>>, alive \/ exitCode' = exitCode
    PROVE  UNCHANGED Log!logVars
<1>1. [s \in Subs |-> Standing(s)]' = [s \in Subs |-> Standing(s)]
  BY DEF Standing
<1>2. QED
  BY <1>1 DEF Log!logVars

\* Where a subscriber stands after its forwarder has moved.
LEMMA StandingNext ==
    ASSUME RInv, NEW s \in Subs, NEW to, pc' = [pc EXCEPT ![s] = to],
           NEW st, st = IF to = "done" THEN "ended"
                        ELSE IF to \in {"refused", "gone"} THEN "left" ELSE "open"
    PROVE  [r \in Subs |-> Standing(r)]' = [[r \in Subs |-> Standing(r)] EXCEPT ![s] = st]
<1>1. pc \in [Subs -> ForwarderPc]
  BY DEF RInv, LocalIInv, LocalTypeOK, StreamTypeOK
<1>2. pc'[s] = to /\ \A r \in Subs \ {s} : pc'[r] = pc[r]
  BY <1>1
<1>3. Standing(s)' = st /\ \A r \in Subs \ {s} : Standing(r)' = Standing(r)
  BY <1>2 DEF Standing
<1>4. QED
  BY <1>3

\* A forwarder that leaves its subscriber's standing alone.
LEMMA StandingSame ==
    ASSUME RInv, NEW s \in Subs, NEW to, pc' = [pc EXCEPT ![s] = to],
           pc[s] \in {"idle", "spawned", "check", "stream"},
           to \in {"idle", "spawned", "check", "stream"}
    PROVE  UNCHANGED [r \in Subs |-> Standing(r)]
<1>1. pc \in [Subs -> ForwarderPc]
  BY DEF RInv, LocalIInv, LocalTypeOK, StreamTypeOK
<1>2. pc'[s] = to /\ \A r \in Subs \ {s} : pc'[r] = pc[r]
  BY <1>1
<1>3. Standing(s)' = Standing(s) /\ \A r \in Subs \ {s} : Standing(r)' = Standing(r)
  BY <1>2 DEF Standing
<1>4. QED
  BY <1>3

\* An event that a live forwarder sends is one that its subscriber hears.
LEMMA HearsEvent ==
    ASSUME RInv, NEW s \in Subs, NEW e \in Event,
           pc[s] \in {"spawned", "check", "stream"},
           out' = [out EXCEPT ![s] = Append(@, e)],
           UNCHANGED <<pos, alive, exitCode>>
    PROVE  Log!Hears(s, e.kind, e.from) /\ Log!Heard(s) = e
<1>1. out \in [Subs -> Seq(Event)] /\ out[s] \in Seq(Event)
  BY DEF RInv, LocalIInv, LocalTypeOK, StreamTypeOK
<1>2. out'[s] = Append(out[s], e)
  BY <1>1
<1>3. Len(out'[s]) = Len(out[s]) + 1 /\ out'[s][Len(out[s]) + 1] = e
  BY <1>1, <1>2, AppendElements
<1>4. Log!Heard(s) = e
  BY <1>3 DEF Log!Heard
<1>5. Standing(s) = "open"
  BY DEF Standing
<1>6. QED
  BY <1>3, <1>4, <1>5 DEF Log!Hears

-----------------------------------------------------------------------------

\* A new subscriber hears a snapshot within the scrollback's capacity.
LEMMA SubscribeAttaches ==
    ASSUME RInv, NEW s \in Subs, Subscribe(s)
    PROVE  Log!Attach(s)
<1>0. /\ scroll \in Seq(Chunk) /\ pos \in Nat /\ ScrollCap \in Nat
      /\ pc[s] = "spawned" /\ out[s] = <<>>
  BY PaneConstants DEF RInv, LocalIInv, LocalTypeOK, StreamTypeOK, StreamInv, ForwarderKept, Subscribe
<1>1. PICK e : e = DataEvent("snapshot", Snapshot)
  OBVIOUS
<1>2. /\ e \in Event /\ e.kind = "snapshot"
      /\ e.from = Snapshot.from /\ e.to = Snapshot.to /\ e.from \in Nat
  BY <1>0, <1>1, SnapshotType DEF DataEvent, Event, Chunk, Code
<1>3. out' = [out EXCEPT ![s] = Append(@, e)] /\ UNCHANGED <<pos, alive, exitCode>>
  BY <1>1 DEF Subscribe
<1>4. Log!Hears(s, "snapshot", e.from) /\ Log!Heard(s) = e
  BY <1>0, <1>2, <1>3, HearsEvent
<1>5. Snapshot.to = pos /\ Snapshot.from \in pos - ScrollCap .. pos
  <2>1. CASE scroll = <<>>
    BY <1>0, <2>1 DEF Snapshot
  <2>2. CASE scroll # <<>>
    <3>1. /\ scroll[Len(scroll)].to = pos
          /\ pos - scroll[1].from <= ScrollCap
      BY <2>2 DEF RInv, LocalIInv, StreamInv, ScrollbackIsTail, Span
    <3>2. scroll[1].from <= pos
      BY <1>0, <2>2 DEF RInv, ScrollBelow
    <3>3. scroll[1] \in Chunk
      BY <1>0, <2>2, LastElement
    <3>4. QED
      BY <1>0, <2>2, <3>1, <3>2, <3>3 DEF Snapshot, Chunk
  <2>3. QED
    BY <2>1, <2>2
<1>6. UNCHANGED [r \in Subs |-> Standing(r)]
  BY <1>0, StandingSame DEF Subscribe
<1>7. QED
  BY <1>0, <1>2, <1>4, <1>5, <1>6 DEF Log!Attach

\* A subscription never stands past what the pane has produced.
LEMMA StandsBelow ==
    ASSUME RInv, NEW s \in Subs, pc[s] \in {"check", "stream"}
    PROVE  /\ out[s] # <<>> /\ At(s) \in Nat /\ At(s) = ReadsAt(next[s])
           /\ next[s] \in Nat \ {0} /\ next[s] <= Len(sent) + 1
<1>1. out \in [Subs -> Seq(Event)] /\ next \in [Subs -> Nat \ {0}]
  BY DEF RInv, LocalIInv, LocalTypeOK, StreamTypeOK
<1>2. out[s] # <<>> /\ At(s) = ReadsAt(next[s]) /\ next[s] <= Len(sent) + 1
  BY DEF RInv, LocalIInv, StreamInv, ForwarderKept, LocalPlaced
<1>3. QED
  BY <1>1, <1>2, AtType

\* The early exit of forward_pane tells the subscriber of a dead pane.
LEMMA CheckAliveTells ==
    ASSUME RInv, NEW s \in Subs, CheckAlive(s)
    PROVE  Log!Tell(s) \/ UNCHANGED Log!logVars
<1>0. pc[s] = "check" /\ UNCHANGED <<pos, alive, exitCode>>
  BY DEF CheckAlive
<1>1. CASE alive
  <2>1. pc' = [pc EXCEPT ![s] = "stream"] /\ out' = out
    BY <1>1 DEF CheckAlive
  <2>2. UNCHANGED [r \in Subs |-> Standing(r)]
    BY <1>0, <2>1, StandingSame
  <2>3. QED
    BY <1>0, <2>1, <2>2 DEF Log!logVars
<1>2. CASE ~alive
  <2>1. PICK e : e = ExitEvent(At(s), exitCode)
    OBVIOUS
  <2>2. exitCode \in Code /\ At(s) \in Nat /\ out[s] # <<>>
    BY <1>0, StandsBelow DEF RInv, LocalIInv, LocalTypeOK, StreamTypeOK
  <2>3. /\ e \in Event /\ e.kind = "exit" /\ e.from = At(s) /\ e.to = At(s)
        /\ e.code = exitCode
    BY <2>1, <2>2 DEF ExitEvent, Event
  <2>4. pc' = [pc EXCEPT ![s] = "done"] /\ out' = [out EXCEPT ![s] = Append(@, e)]
    BY <1>2, <2>1 DEF CheckAlive
  <2>5. Log!Hears(s, "exit", At(s)) /\ Log!Heard(s) = e
    BY <1>0, <2>3, <2>4, HearsEvent
  <2>6. [r \in Subs |-> Standing(r)]' = [[r \in Subs |-> Standing(r)] EXCEPT ![s] = "ended"]
    BY <2>4, StandingNext
  <2>7. Log!Stands(s) = At(s)
    BY DEF Log!Stands, At
  <2>8. QED
    BY <1>2, <2>2, <2>3, <2>5, <2>6, <2>7 DEF Log!Tell
<1>3. QED
  BY <1>1, <1>2

\* A chunk from the channel is delivered where the subscriber stands.
LEMMA RecvBytesDelivers ==
    ASSUME RInv, NEW s \in Subs, RecvBytes(s)
    PROVE  Log!Deliver(s)
<1>0. /\ pc[s] = "stream" /\ next[s] \in 1 .. Len(sent) /\ sent[next[s]].kind = "bytes"
      /\ UNCHANGED <<pos, alive, exitCode, pc>>
      /\ sent \in Seq(Update) /\ pos \in Nat
  BY OldestType DEF RecvBytes, RInv, LocalIInv, LocalTypeOK, StreamTypeOK
<1>1. out[s] # <<>> /\ At(s) \in Nat /\ At(s) = ReadsAt(next[s])
  BY <1>0, StandsBelow
<1>2. PICK u : u = sent[next[s]]
  OBVIOUS
<1>3. u \in Update /\ u.from = At(s) /\ u.from <= u.to /\ u.to <= pos
  BY <1>0, <1>1, <1>2 DEF ReadsAt, RInv, ChannelOrdered
<1>4. PICK e : e = DataEvent("output", u)
  OBVIOUS
<1>5. e \in Event /\ e.kind = "output" /\ e.from = At(s) /\ e.to = u.to
  BY <1>3, <1>4 DEF DataEvent, Event, Update, Code
<1>6. out' = [out EXCEPT ![s] = Append(@, e)]
  BY <1>2, <1>4 DEF RecvBytes
<1>7. Log!Hears(s, "output", At(s)) /\ Log!Heard(s) = e
  BY <1>0, <1>5, <1>6, HearsEvent
<1>8. e.to \in At(s) .. pos
  BY <1>0, <1>1, <1>3, <1>5 DEF Update
<1>9. Log!Stands(s) = At(s) /\ UNCHANGED [r \in Subs |-> Standing(r)]
  BY <1>0 DEF Log!Stands, At, Standing
<1>10. QED
  BY <1>1, <1>7, <1>8, <1>9 DEF Log!Deliver

\* Exit from the channel tells the subscriber.
LEMMA RecvExitTells ==
    ASSUME RInv, NEW s \in Subs, RecvExit(s)
    PROVE  Log!Tell(s)
<1>0. /\ pc[s] = "stream" /\ next[s] \in 1 .. Len(sent) /\ sent[next[s]].kind = "exit"
      /\ UNCHANGED <<pos, alive, exitCode>> /\ exitCode \in Code
  BY OldestType DEF RecvExit, RInv, LocalIInv, LocalTypeOK, StreamTypeOK
<1>1. out[s] # <<>> /\ At(s) \in Nat
  BY <1>0, StandsBelow
<1>2. ~alive /\ sent[next[s]].code = exitCode
  BY <1>0 DEF RInv, LocalIInv, StreamInv, ExitRecorded
<1>3. PICK e : e = ExitEvent(At(s), exitCode)
  OBVIOUS
<1>4. /\ e \in Event /\ e.kind = "exit" /\ e.from = At(s) /\ e.to = At(s)
      /\ e.code = exitCode
  BY <1>0, <1>1, <1>3 DEF ExitEvent, Event
<1>5. pc' = [pc EXCEPT ![s] = "done"] /\ out' = [out EXCEPT ![s] = Append(@, e)]
  BY <1>2, <1>3 DEF RecvExit
<1>6. Log!Hears(s, "exit", At(s)) /\ Log!Heard(s) = e
  BY <1>0, <1>4, <1>5, HearsEvent
<1>7. [r \in Subs |-> Standing(r)]' = [[r \in Subs |-> Standing(r)] EXCEPT ![s] = "ended"]
  BY <1>5, StandingNext
<1>8. Log!Stands(s) = At(s)
  BY DEF Log!Stands, At
<1>9. QED
  BY <1>1, <1>2, <1>4, <1>6, <1>7, <1>8 DEF Log!Tell

\* What an overrun receiver skips is named, and lies ahead of the subscriber.
LEMMA RecvLaggedLoses ==
    ASSUME RInv, NEW s \in Subs, RecvLagged(s)
    PROVE  Log!Lose(s)
<1>0. /\ pc[s] = "stream" /\ next[s] < Oldest /\ sent \in Seq(Update) /\ pos \in Nat
      /\ UNCHANGED <<pos, alive, exitCode, pc>>
      /\ Oldest \in Nat \ {0} /\ Oldest <= Len(sent) + 1
  BY OldestType DEF RecvLagged, RInv, LocalIInv, LocalTypeOK, StreamTypeOK
<1>1. /\ out[s] # <<>> /\ At(s) \in Nat /\ At(s) = ReadsAt(next[s])
      /\ next[s] \in Nat \ {0}
  BY <1>0, StandsBelow
<1>2. ReadsAt(Oldest) \in At(s) .. pos /\ ReadsAt(Oldest) \in Nat
  <2>1. ReadsAt(Oldest) \in Nat
    BY <1>0, ReadsAtType
  <2>2. ReadsAt(next[s]) <= ReadsAt(Oldest) /\ ReadsAt(Oldest) <= pos
    BY <1>0, <1>1, ReadsForward
  <2>3. QED
    BY <1>0, <1>1, <2>1, <2>2
<1>3. PICK e : e = LaggedEvent([from |-> At(s), to |-> ReadsAt(Oldest)], Oldest - next[s])
  OBVIOUS
<1>4. Oldest - next[s] \in Nat
  BY <1>0, <1>1
<1>5. e \in Event /\ e.kind = "lagged" /\ e.from = At(s) /\ e.to = ReadsAt(Oldest)
  BY <1>1, <1>2, <1>3, <1>4 DEF LaggedEvent, Event, Code
<1>6. out' = [out EXCEPT ![s] = Append(@, e)]
  BY <1>3 DEF RecvLagged
<1>7. Log!Hears(s, "lagged", At(s)) /\ Log!Heard(s) = e
  BY <1>0, <1>5, <1>6, HearsEvent
<1>8. Log!Stands(s) = At(s) /\ UNCHANGED [r \in Subs |-> Standing(r)]
  BY <1>0 DEF Log!Stands, At, Standing
<1>9. QED
  BY <1>1, <1>2, <1>5, <1>7, <1>8 DEF Log!Lose

\* A client that is refused, or whose forwarder is aborted, leaves.
LEMMA ControlLeaves ==
    ASSUME RInv, NEW s \in Subs, AttachPane(s) \/ AbortForwarder(s)
    PROVE  Log!Leave(s) \/ UNCHANGED Log!logVars
<1>0. /\ UNCHANGED <<pos, alive, exitCode, out>>
      /\ pc[s] \in {"idle", "spawned", "check", "stream", "done"}
  BY DEF AttachPane, AbortForwarder
<1>1. CASE pc' = [pc EXCEPT ![s] = "spawned"] /\ pc[s] = "idle"
  <2>1. UNCHANGED [r \in Subs |-> Standing(r)]
    BY <1>1, StandingSame
  <2>2. QED
    BY <1>0, <2>1 DEF Log!logVars
<1>2. ASSUME NEW to \in {"refused", "gone"}, pc' = [pc EXCEPT ![s] = to]
      PROVE  Log!Leave(s)
  <2>1. [r \in Subs |-> Standing(r)]' = [[r \in Subs |-> Standing(r)] EXCEPT ![s] = "left"]
    BY <1>2, StandingNext
  <2>2. Standing(s) # "left"
    BY <1>0 DEF Standing
  <2>3. QED
    BY <1>0, <2>1, <2>2 DEF Log!Leave
<1>3. QED
  BY <1>1, <1>2 DEF AttachPane, AbortForwarder

-----------------------------------------------------------------------------

\* The initial states are initial states of the log.
LEMMA InitLog == LocalInit => RInv /\ Log!Init
<1> SUFFICES ASSUME LocalInit PROVE RInv /\ Log!Init
  OBVIOUS
<1>1. RInv
  BY LocalInitIInv DEF RInv, ChannelOrdered, ScrollBelow, LocalInit, StreamInit
<1>2. Log!Init
  BY DEF Log!Init, LocalInit, StreamInit, Standing
<1>3. QED
  BY <1>1, <1>2

\* Every step is one of the log or leaves it as it is.
LEMMA NextLog == RInv /\ [LocalNext]_localVars => [Log!Next]_(Log!logVars)
<1> SUFFICES ASSUME RInv, [LocalNext]_localVars PROVE Log!Next \/ UNCHANGED Log!logVars
  OBVIOUS
<1>1. CASE \/ UNCHANGED localVars
           \/ ChildWrites \/ ChildExits \/ LastWriterCloses \/ ReaderEnds \/ CloseLocalPane
           \/ WaiterReaps \/ WaiterSendsExit
  <2>1. UNCHANGED <<pos, alive, out, pc>> /\ (alive \/ exitCode' = exitCode)
    <3>1. WaiterReaps => alive
      BY DEF WaiterReaps, RInv, LocalIInv, WaiterOrder
    <3>2. QED
      BY <1>1, <3>1 DEF localVars, streamVars, ChildWrites, ChildExits, LastWriterCloses,
         ReaderEnds, CloseLocalPane, WaiterReaps, WaiterSendsExit
  <2>2. QED
    BY <2>1, QuietLog
<1>2. CASE ReaderRead
  <2>1. PICK n \in 1 .. ReadSize : pos' = pos + n
    BY <1>2 DEF ReaderRead, ScrollAppend
  <2>2. pos \in Nat /\ pos' \in Nat /\ pos' > pos
    BY <2>1, LocalConstants DEF RInv, LocalIInv, LocalTypeOK, StreamTypeOK
  <2>3. UNCHANGED <<alive, exitCode, out, pc>>
    BY <1>2 DEF ReaderRead
  <2>4. UNCHANGED [s \in Subs |-> Standing(s)]
    BY <2>3 DEF Standing
  <2>5. Log!Produce
    BY <2>2, <2>3, <2>4 DEF Log!Produce
  <2>6. QED
    BY <2>5 DEF Log!Next
<1>3. CASE WaiterMarksDead
  <2>1. /\ alive /\ alive' = FALSE /\ exitCode' = exitCode /\ exitCode \in Code
        /\ UNCHANGED <<pos, out, pc>>
    BY <1>3 DEF WaiterMarksDead, RInv, LocalIInv, WaiterOrder, LocalTypeOK, StreamTypeOK
  <2>2. UNCHANGED [s \in Subs |-> Standing(s)]
    BY <2>1 DEF Standing
  <2>3. Log!End
    BY <2>1, <2>2 DEF Log!End
  <2>4. QED
    BY <2>3 DEF Log!Next
<1>4. ASSUME NEW s \in Subs, LocalClient(s)
      PROVE  Log!Next \/ UNCHANGED Log!logVars
  BY <1>4, SubscribeAttaches, CheckAliveTells, RecvBytesDelivers, RecvExitTells,
     RecvLaggedLoses, ControlLeaves DEF LocalClient, Forward, Log!Next
<1>5. QED
  BY <1>1, <1>2, <1>3, <1>4 DEF LocalNext, Reader, Waiter

\* A local pane keeps the promise of PaneLog: whatever the reader, the waiter, the
\* ring and any number of forwarders do, each subscriber hears a transcript of one
\* append-only log (Pane::subscribe, reader_loop, spawn_waiter, forward_pane).
THEOREM ImplementsPaneLog == LocalSpec => KeepsPaneLog
<1>1. LocalSpec => []RInv
  BY InitLog, NextRInv, PTL DEF LocalSpec
<1>2. QED
  BY <1>1, InitLog, NextLog, PTL DEF LocalSpec, KeepsPaneLog, Log!Spec

-----------------------------------------------------------------------------
(* A remote pane: the inductive invariant.                                 *)

\* The updates in the channel follow each other without a gap, and lag behind
\* the scrollback by the chunk the driver has appended and not yet sent.
ChannelFollows ==
    /\ Gapless(sent)
    /\ IF driver = "appended"
       THEN holding.from = SentTo /\ holding.to = pos /\ holding.from <= holding.to
       ELSE SentTo = pos

\* The driver clears alive before it sends Exit, and sends nothing after it.
DriverOrder ==
    /\ alive <=> driver \in {"select", "appended", "ended"}
    /\ \A i \in 1 .. Len(sent) :
          sent[i].kind = "exit" => i = Len(sent) /\ driver = "done"

\* Subscription s stands where its receiver reads on.
ReadsOn(s) == At(s) = ReadsAt(next[s])

\* The next thing s receives is the chunk its snapshot ended with: the driver
\* still holds it, or has sent it since.
SeesTwice(s) ==
    /\ Len(out[s]) = 1
    /\ \/ /\ next[s] = Len(sent) + 1 /\ driver = "appended"
          /\ At(s) = holding.to /\ holding.from < holding.to
       \/ /\ next[s] <= Len(sent) /\ sent[next[s]].kind = "bytes"
          /\ At(s) = sent[next[s]].to /\ sent[next[s]].from < sent[next[s]].to

RemotePlaced ==
    \A s \in Subs : pc[s] \in {"check", "stream"} => ReadsOn(s) \/ SeesTwice(s)

RemoteIInv == RemoteTypeOK /\ StreamInv /\ ChannelFollows /\ DriverOrder /\ RemotePlaced
        /\ AtMostOneChunkTwice

\* RemoteInit establishes the invariant.
LEMMA RemoteInitIInv == RemoteInit => RemoteIInv
<1> SUFFICES ASSUME RemoteInit PROVE RemoteIInv
  OBVIOUS
<1> USE DEF RemoteInit
<1>1. StreamInv
  BY StreamInitInv
<1>2. NoChunk \in Chunk /\ <<>> \in Seq({"data", "resize", "close"}) /\ <<>> \in Seq(Msg)
  BY DEF NoChunk, Chunk
<1>3. RemoteTypeOK
  BY <1>1, <1>2, RemoteConstants DEF RemoteTypeOK, StreamInv
<1>4. ChannelFollows
  BY DEF StreamInit, ChannelFollows, SentTo, Gapless
<1>5. DriverOrder /\ RemotePlaced /\ AtMostOneChunkTwice
  BY DEF StreamInit, DriverOrder, RemotePlaced, AtMostOneChunkTwice
<1>6. QED
  BY <1>1, <1>3, <1>4, <1>5 DEF RemoteIInv

-----------------------------------------------------------------------------
(* A remote pane: one lemma per group of actions.                          *)

\* Steps of the remote end, of the clients' commands and of the driver that
\* neither append nor send.
LEMMA RemoteQuietStep ==
    ASSUME RemoteIInv, RemoteTypeOK', UNCHANGED <<scroll, total, pos, sent, pc, next, out>>,
           \/ driver' = driver /\ holding' = holding
           \/ driver # "appended" /\ driver' # "appended",
           alive' <=> driver' \in {"select", "appended", "ended"},
           driver = "done" => driver' = "done",
           ~alive => ~alive' /\ exitCode' = exitCode
    PROVE  RemoteIInv'
<1>1. ChannelFollows'
  BY DEF RemoteIInv, ChannelFollows, Gapless, SentTo
<1>2. DriverOrder'
  BY DEF RemoteIInv, DriverOrder
<1>3. RemotePlaced'
  <2>1. \A s \in Subs : /\ ReadsOn(s)' = ReadsOn(s)
                        /\ SeesTwice(s) => SeesTwice(s)'
    BY DEF ReadsOn, SeesTwice, At, ReadsAt, SentTo
  <2>2. QED
    BY <2>1 DEF RemoteIInv, RemotePlaced
<1>4. AtMostOneChunkTwice'
  BY DEF RemoteIInv, AtMostOneChunkTwice
<1>5. ScrollbackIsTail' /\ StreamTypeOK'
  BY DEF RemoteIInv, StreamInv, ScrollbackIsTail, Gapless, Span, RemoteTypeOK
<1>6. ExitRecorded'
  BY DEF RemoteIInv, StreamInv, ExitRecorded
<1>7. StreamInv'
  BY <1>5, <1>6, ProducerStep DEF RemoteIInv
<1>8. QED
  BY <1>1, <1>2, <1>3, <1>4, <1>7 DEF RemoteIInv

\* What the driver takes from the channel.
LEMMA HeadOfInbox ==
    ASSUME inbox \in Seq(Msg), inbox # <<>>
    PROVE  /\ Tail(inbox) \in Seq(Msg) /\ Head(inbox) \in Msg
           /\ Head(inbox).kind = "data" => Head(inbox).size \in Nat
           /\ Head(inbox).kind = "status" => Head(inbox).code \in Codes
<1>1. Tail(inbox) \in Seq(Msg) /\ Head(inbox) \in Msg
  OBVIOUS
<1>2. PICK m : m = Head(inbox)
  OBVIOUS
<1>3. /\ m.kind = "data" => m.size \in Nat
      /\ m.kind = "status" => m.code \in Codes
  BY <1>1, <1>2, RemoteConstants DEF Msg
<1>4. QED
  BY <1>1, <1>2, <1>3

\* Output reaches the scrollback before it reaches the channel.
LEMMA DriverAppendsStep ==
    ASSUME RemoteIInv, DriverAppends
    PROVE  RemoteIInv'
<1>0. /\ inbox \in Seq(Msg) /\ pos \in Nat /\ StreamTypeOK /\ ScrollbackIsTail
      /\ driver = "select" /\ SentTo = pos /\ inbox # <<>> /\ Head(inbox).kind = "data"
  BY DEF RemoteIInv, RemoteTypeOK, StreamTypeOK, StreamInv, ChannelFollows, DriverAppends, TakeMsg
<1>1. PICK n : n = Head(inbox).size
  OBVIOUS
<1>2. n \in Nat /\ Tail(inbox) \in Seq(Msg)
  BY <1>0, <1>1, HeadOfInbox
<1>3. PICK c : c = [from |-> pos, to |-> pos + n]
  OBVIOUS
<1>4. c \in Chunk /\ c.from = pos /\ c.to = pos + n
  BY <1>0, <1>2, <1>3 DEF Chunk
<1>5. /\ ScrollAppend(c) /\ holding' = c /\ driver' = "appended" /\ inbox' = Tail(inbox)
      /\ UNCHANGED <<sent, alive, exitCode, registered, pc, next, out,
                     cmds, issued, arrived, remote>>
  BY <1>1, <1>3 DEF DriverAppends, TakeMsg, exitVars, subVars
<1>6. /\ scroll' \in Seq(Chunk) /\ total' \in Int /\ pos' = c.to
      /\ ScrollbackIsTail'
  <2>1. CASE n = 0
    <3>1. scroll' = scroll /\ total' = total /\ pos' = pos
      <4>1. c.from = c.to
        BY <1>0, <1>4, <2>1
      <4>2. QED
        BY <1>0, <1>4, <1>5, <4>1 DEF ScrollAppend
    <3>2. QED
      BY <1>0, <1>4, <2>1, <3>1 DEF StreamTypeOK, ScrollbackIsTail, Gapless, Span
  <2>2. CASE n # 0
    <3>1. c.from < c.to
      BY <1>0, <1>2, <1>4, <2>2
    <3>2. QED
      BY <1>0, <1>4, <1>5, <3>1, ScrollAppendTail
  <2>3. QED
    BY <2>1, <2>2
<1>7. StreamTypeOK'
  BY <1>0, <1>4, <1>5, <1>6 DEF StreamTypeOK, Chunk
<1>8. RemoteTypeOK'
  BY <1>2, <1>4, <1>5, <1>7 DEF RemoteIInv, RemoteTypeOK
<1>9. ExitRecorded'
  BY <1>5 DEF RemoteIInv, StreamInv, ExitRecorded
<1>10. StreamInv'
  BY <1>5, <1>6, <1>7, <1>9, ProducerStep DEF RemoteIInv
<1>11. ChannelFollows'
  BY <1>0, <1>2, <1>4, <1>5, <1>6 DEF RemoteIInv, ChannelFollows, Gapless, SentTo
<1>12. DriverOrder'
  BY <1>0, <1>5 DEF RemoteIInv, DriverOrder
<1>13. RemotePlaced'
  <2>1. \A s \in Subs : /\ ReadsOn(s)' = ReadsOn(s)
                        /\ SeesTwice(s) => SeesTwice(s)'
    BY <1>0, <1>5 DEF ReadsOn, SeesTwice, At, ReadsAt, SentTo
  <2>2. QED
    BY <1>5, <2>1 DEF RemoteIInv, RemotePlaced
<1>14. AtMostOneChunkTwice'
  BY <1>5 DEF RemoteIInv, AtMostOneChunkTwice
<1>15. QED
  BY <1>8, <1>10, <1>11, <1>12, <1>13, <1>14 DEF RemoteIInv

\* What the invariant needs of a step that sends u on the channel.
LEMMA RemoteSendStep ==
    ASSUME RemoteIInv, NEW u \in Update, Send(u), u.from = SentTo, RemoteTypeOK', ExitRecorded',
           u.kind = "exit" => driver' = "done",
           \/ /\ driver = "appended" /\ u.kind = "bytes"
              /\ u.from = holding.from /\ u.to = holding.to
           \/ driver # "appended" /\ u.to = u.from,
           driver \in {"appended", "dead"} /\ driver' # "appended",
           alive <=> driver' \in {"select", "appended", "ended"},
           UNCHANGED <<scroll, total, pos, alive, exitCode, pc, next, out>>
    PROVE  RemoteIInv'
<1>0. /\ sent \in Seq(Update) /\ Gapless(sent) /\ next \in [Subs -> Nat \ {0}]
      /\ pos \in Nat /\ out \in [Subs -> Seq(Event)]
      /\ \A i \in 1 .. Len(sent) : sent[i].kind # "exit"
  BY DEF RemoteIInv, RemoteTypeOK, StreamTypeOK, ChannelFollows, DriverOrder
<1>1. /\ sent' \in Seq(Update) /\ Gapless(sent') /\ SentTo' = u.to
      /\ Len(sent') = Len(sent) + 1 /\ sent'[Len(sent) + 1] = u
      /\ \A i \in 1 .. Len(sent) : sent'[i] = sent[i]
  BY <1>0, SendGapless
<1>2. StreamInv'
  <2>1. ScrollbackIsTail' /\ StreamTypeOK'
    BY DEF RemoteIInv, StreamInv, ScrollbackIsTail, Gapless, Span, RemoteTypeOK
  <2>2. QED
    BY <2>1, ProducerStep DEF RemoteIInv
<1>3. ChannelFollows'
  BY <1>1 DEF RemoteIInv, ChannelFollows
<1>4. DriverOrder'
  <2>1. ASSUME NEW i \in 1 .. Len(sent'), sent'[i].kind = "exit"
        PROVE  i = Len(sent') /\ driver' = "done"
    <3>1. i \notin 1 .. Len(sent)
      BY <1>0, <1>1, <2>1
    <3>2. i = Len(sent) + 1
      BY <1>0, <1>1, <3>1
    <3>3. QED
      BY <1>1, <2>1, <3>2
  <2>2. alive' <=> driver' \in {"select", "appended", "ended"}
    OBVIOUS
  <2>3. QED
    BY <2>1, <2>2 DEF DriverOrder
<1>5. RemotePlaced'
  <2>1. SUFFICES ASSUME NEW s \in Subs, pc[s] \in {"check", "stream"}
                 PROVE  ReadsOn(s)' \/ SeesTwice(s)'
    BY DEF RemotePlaced
  <2>2. next[s] \in Nat \ {0} /\ next[s] <= Len(sent) + 1
    BY <1>0, <2>1 DEF RemoteIInv, StreamInv, ForwarderKept
  <2>3. PICK n : n = next[s]
    OBVIOUS
  <2>4. ReadsAt(n)' = ReadsAt(n)
    BY <1>0, <2>2, <2>3, ReadsAtSend
  <2>5. CASE ReadsOn(s)
    BY <2>3, <2>4, <2>5 DEF ReadsOn, At
  <2>6. CASE SeesTwice(s) /\ n = Len(sent) + 1
    <3>1. u.kind = "bytes" /\ At(s) = u.to /\ u.from < u.to /\ Len(out[s]) = 1
      BY <1>0, <2>3, <2>6 DEF SeesTwice
    <3>2. n <= Len(sent') /\ sent'[n] = u
      BY <1>0, <1>1, <2>6
    <3>3. QED
      BY <2>3, <3>1, <3>2 DEF SeesTwice, At
  <2>7. CASE SeesTwice(s) /\ n # Len(sent) + 1
    <3>1. /\ Len(out[s]) = 1 /\ n <= Len(sent) /\ sent[n].kind = "bytes"
          /\ At(s) = sent[n].to /\ sent[n].from < sent[n].to
      BY <2>3, <2>7 DEF SeesTwice
    <3>2. n <= Len(sent') /\ sent'[n] = sent[n]
      BY <1>0, <1>1, <2>2, <2>3, <3>1
    <3>3. QED
      BY <2>3, <3>1, <3>2 DEF SeesTwice, At
  <2>8. QED
    BY <2>1, <2>5, <2>6, <2>7 DEF RemoteIInv, RemotePlaced
<1>6. AtMostOneChunkTwice'
  BY DEF RemoteIInv, AtMostOneChunkTwice
<1>7. QED
  BY <1>2, <1>3, <1>4, <1>5, <1>6 DEF RemoteIInv

\* The held chunk goes to the channel.
LEMMA DriverSendsStep ==
    ASSUME RemoteIInv, DriverSends
    PROVE  RemoteIInv'
<1>1. PICK u : u = BytesUpdate(holding)
  OBVIOUS
<1>2. holding \in Chunk /\ driver = "appended" /\ holding.from = SentTo /\ alive
  BY DEF RemoteIInv, RemoteTypeOK, ChannelFollows, DriverSends, DriverOrder
<1>3. /\ u \in Update /\ u.kind = "bytes" /\ u.from = SentTo
      /\ u.from = holding.from /\ u.to = holding.to
  BY <1>1, <1>2 DEF BytesUpdate, Update, Chunk, Code
<1>4. /\ Send(u) /\ holding' = NoChunk /\ driver' = "select"
      /\ UNCHANGED <<scroll, total, pos, alive, exitCode, registered, pc, next, out,
                     cmds, issued, inbox, arrived, remote>>
  BY <1>1 DEF DriverSends, exitVars, subVars
<1>5. sent \in Seq(Update) /\ sent' = Append(sent, u)
  BY <1>4 DEF RemoteIInv, RemoteTypeOK, StreamTypeOK, Send
<1>6. /\ sent' \in Seq(Update) /\ Len(sent') = Len(sent) + 1 /\ sent'[Len(sent) + 1] = u
      /\ \A i \in 1 .. Len(sent) : sent'[i] = sent[i]
  BY <1>3, <1>5, AppendElements
<1>7. RemoteTypeOK'
  <2>1. NoChunk \in Chunk
    BY DEF NoChunk, Chunk
  <2>2. StreamTypeOK'
    BY <1>4, <1>6 DEF RemoteIInv, RemoteTypeOK, StreamTypeOK
  <2>3. QED
    BY <1>4, <2>1, <2>2 DEF RemoteIInv, RemoteTypeOK
<1>8. ExitRecorded'
  BY <1>3, <1>4, <1>5, <1>6 DEF RemoteIInv, StreamInv, ExitRecorded
<1>9. QED
  BY <1>2, <1>3, <1>4, <1>7, <1>8, RemoteSendStep

\* Exit is the last thing sent.
LEMMA DriverSendsExitStep ==
    ASSUME RemoteIInv, DriverSendsExit
    PROVE  RemoteIInv'
<1>1. PICK u : u = ExitUpdate(SentTo, exitCode)
  OBVIOUS
<1>2. sent \in Seq(Update) /\ exitCode \in Code /\ driver = "dead" /\ ~alive
  BY DEF RemoteIInv, RemoteTypeOK, StreamTypeOK, DriverSendsExit, DriverOrder
<1>3. /\ u \in Update /\ u.kind = "exit" /\ u.from = SentTo /\ u.to = u.from
      /\ u.code = exitCode
  BY <1>1, <1>2, SentToType DEF ExitUpdate, Update
<1>4. /\ Send(u) /\ driver' = "done"
      /\ UNCHANGED <<scroll, total, pos, alive, exitCode, registered, pc, next, out,
                     cmds, issued, inbox, arrived, remote, holding>>
  BY <1>1 DEF DriverSendsExit, exitVars, subVars
<1>5. sent' = Append(sent, u)
  BY <1>4 DEF Send
<1>6. /\ sent' \in Seq(Update) /\ Len(sent') = Len(sent) + 1 /\ sent'[Len(sent) + 1] = u
      /\ \A i \in 1 .. Len(sent) : sent'[i] = sent[i]
  BY <1>2, <1>3, <1>5, AppendElements
<1>7. RemoteTypeOK'
  <2>1. StreamTypeOK'
    BY <1>4, <1>6 DEF RemoteIInv, RemoteTypeOK, StreamTypeOK
  <2>2. QED
    BY <1>4, <2>1 DEF RemoteIInv, RemoteTypeOK
<1>8. ExitRecorded'
  BY <1>2, <1>3, <1>4, <1>6 DEF RemoteIInv, StreamInv, ExitRecorded
<1>9. QED
  BY <1>2, <1>3, <1>4, <1>7, <1>8, RemoteSendStep

-----------------------------------------------------------------------------
(* A remote pane: the forwarders.                                          *)

\* What two consecutive events of a subscription may look like.
Follows(a, b, first) ==
    \/ a.to = b.from
    \/ first /\ b.kind = "output" /\ b.from < a.to /\ b.to = a.to

\* A step of a forwarder leaves everything but its own transcript alone, so it
\* has to place its own receiver and to join its event to the transcript.
LEMMA RemoteMovesStep ==
    ASSUME RemoteIInv, NEW s \in Subs, NEW p, NEW n, NEW e, Moves(s, p, n, e),
           StreamInv', UNCHANGED driverVars,
           p \in {"check", "stream"} => ReadsOn(s)' \/ SeesTwice(s)',
           out[s] # <<>> => Follows(out[s][Len(out[s])], e, Len(out[s]) = 1)
    PROVE  RemoteIInv'
<1>0. /\ UNCHANGED <<scroll, total, pos, sent, alive, exitCode, registered>>
      /\ \A r \in Subs \ {s} : out'[r] = out[r] /\ pc'[r] = pc[r] /\ next'[r] = next[r]
      /\ pc'[s] = p /\ StreamTypeOK
  BY DEF Moves, RemoteIInv, RemoteTypeOK
<1>1. RemoteTypeOK'
  BY DEF RemoteIInv, RemoteTypeOK, StreamInv, driverVars
<1>2. ChannelFollows' /\ DriverOrder'
  BY <1>0 DEF RemoteIInv, ChannelFollows, Gapless, SentTo, DriverOrder, driverVars
<1>3. RemotePlaced'
  <2>1. ASSUME NEW r \in Subs \ {s}, pc[r] \in {"check", "stream"}
        PROVE  ReadsOn(r)' \/ SeesTwice(r)'
    <3>1. ReadsOn(r) \/ SeesTwice(r)
      BY <2>1 DEF RemoteIInv, RemotePlaced
    <3>2. out'[r] = out[r] /\ next'[r] = next[r]
      BY <1>0
    <3>3. CASE ReadsOn(r)
      BY <1>0, <3>2, <3>3 DEF ReadsOn, At, ReadsAt, SentTo
    <3>4. CASE SeesTwice(r)
      BY <1>0, <3>2, <3>4 DEF SeesTwice, At, driverVars
    <3>5. QED
      BY <3>1, <3>3, <3>4
  <2>2. QED
    BY <1>0, <2>1 DEF RemotePlaced
<1>4. AtMostOneChunkTwice'
  <2>1. /\ out[s] \in Seq(Event) /\ Len(out'[s]) = Len(out[s]) + 1
        /\ out'[s][Len(out[s]) + 1] = e
        /\ \A i \in 1 .. Len(out[s]) : out'[s][i] = out[s][i]
    BY <1>0, MovesAppends
  <2>2. \A r \in Subs : \A i \in 1 .. Len(out[r]) - 1 :
           Follows(out[r][i], out[r][i + 1], i = 1)
    BY DEF RemoteIInv, AtMostOneChunkTwice, Follows
  <2>3. ASSUME NEW r \in Subs, NEW i \in 1 .. Len(out'[r]) - 1
        PROVE  Follows(out'[r][i], out'[r][i + 1], i = 1)
    <3>1. CASE r # s
      BY <1>0, <2>2, <2>3, <3>1
    <3>2. CASE r = s /\ i = Len(out[s])
      <4>1. out[s] # <<>> /\ out'[s][i] = out[s][Len(out[s])] /\ out'[s][i + 1] = e
        BY <2>1, <2>3, <3>2
      <4>2. QED
        BY <3>2, <4>1
    <3>3. CASE r = s /\ i # Len(out[s])
      <4>1. i \in 1 .. Len(out[s]) - 1 /\ i \in 1 .. Len(out[s]) /\ i + 1 \in 1 .. Len(out[s])
        <5>1. Len(out[s]) \in Nat /\ i \in 1 .. Len(out[s]) /\ i # Len(out[s])
          BY <2>1, <2>3, <3>3
        <5>2. QED
          BY <5>1
      <4>2. out'[s][i] = out[s][i] /\ out'[s][i + 1] = out[s][i + 1]
        BY <2>1, <4>1
      <4>3. QED
        BY <2>2, <3>3, <4>1, <4>2
    <3>4. QED
      BY <3>1, <3>2, <3>3
  <2>4. QED
    BY <2>3 DEF AtMostOneChunkTwice, Follows
<1>5. QED
  BY <1>1, <1>2, <1>3, <1>4 DEF RemoteIInv

\* The snapshot ends at the newest byte: the receiver reads on there, unless
\* the driver still holds the last chunk.
LEMMA RemoteSubscribeStep ==
    ASSUME RemoteIInv, NEW s \in Subs, Subscribe(s), UNCHANGED driverVars
    PROVE  RemoteIInv'
<1>0. sent \in Seq(Update) /\ StreamInv /\ StreamTypeOK /\ holding \in Chunk
  BY DEF RemoteIInv, RemoteTypeOK, StreamTypeOK
<1>1. PICK e : e = DataEvent("snapshot", Snapshot)
  OBVIOUS
<1>2. PICK n : n = Len(sent) + 1
  OBVIOUS
<1>3. Moves(s, "check", n, e)
  BY <1>0, <1>1, <1>2, SubscribeMoves
<1>3a. out[s] = <<>>
  BY <1>0, SubscribeMoves
<1>4. At(s)' = pos /\ Len(out'[s]) = 1
  <2>1. e.to = pos
    BY <1>1 DEF DataEvent, RemoteIInv, StreamInv, ScrollbackIsTail, Snapshot
  <2>2. At(s)' = e.to /\ Len(out'[s]) = Len(out[s]) + 1
    BY <1>0, <1>3, MovesAppends
  <2>3. Len(out[s]) = 0
    BY <1>3a
  <2>4. QED
    BY <2>1, <2>2, <2>3
<1>5. next'[s] = n /\ sent' = sent /\ ReadsAt(next[s])' = SentTo
  BY <1>0, <1>2, <1>3 DEF Moves, ReadsAt, SentTo
<1>6. ReadsOn(s)' \/ SeesTwice(s)'
  <2>1. CASE driver = "appended" /\ holding.from < holding.to
    BY <1>2, <1>4, <1>5, <2>1 DEF RemoteIInv, ChannelFollows, SeesTwice, driverVars
  <2>2. CASE driver = "appended" /\ holding.from = holding.to
    BY <1>4, <1>5, <2>2 DEF RemoteIInv, ChannelFollows, ReadsOn
  <2>3. CASE driver # "appended"
    BY <1>4, <1>5, <2>3 DEF RemoteIInv, ChannelFollows, ReadsOn
  <2>4. QED
    BY <1>0, <2>1, <2>2, <2>3 DEF RemoteIInv, ChannelFollows, Chunk
<1>7. StreamInv'
  BY <1>0, ForwarderStep DEF Forward
<1>8. QED
  BY <1>3, <1>3a, <1>6, <1>7, RemoteMovesStep

\* An exit starts where the subscription stands.
LEMMA RemoteExitStep ==
    ASSUME RemoteIInv, NEW s \in Subs, (CheckAlive(s) /\ ~alive) \/ RecvExit(s),
           UNCHANGED driverVars
    PROVE  RemoteIInv'
<1>1. PICK e : e = ExitEvent(At(s), exitCode)
  OBVIOUS
<1>2. e.from = At(s)
  BY <1>1 DEF ExitEvent
<1>3. PICK n : Moves(s, "done", n, e)
  BY <1>1, CheckAliveMoves, RecvExitMoves DEF RemoteIInv
<1>4. StreamInv'
  BY ForwarderStep DEF RemoteIInv, Forward
<1>5. Follows(out[s][Len(out[s])], e, Len(out[s]) = 1)
  BY <1>2 DEF Follows, At
<1>6. QED
  BY <1>3, <1>4, <1>5, RemoteMovesStep

\* A chunk starts where the subscription stands, or is the one its snapshot
\* ended with.
LEMMA RemoteRecvBytesStep ==
    ASSUME RemoteIInv, NEW s \in Subs, RecvBytes(s), UNCHANGED driverVars
    PROVE  RemoteIInv'
<1>0. sent \in Seq(Update) /\ Gapless(sent) /\ StreamInv /\ StreamTypeOK
  BY DEF RemoteIInv, RemoteTypeOK, StreamTypeOK, ChannelFollows
<1>1. PICK u : u = sent[next[s]]
  OBVIOUS
<1>2. PICK e : e = DataEvent("output", u)
  OBVIOUS
<1>3. PICK n : n = next[s]
  OBVIOUS
<1>4. /\ n \in 1 .. Len(sent) /\ u \in Update /\ pc[s] = "stream"
      /\ Moves(s, "stream", n + 1, e)
  BY <1>0, <1>1, <1>2, <1>3, RecvBytesMoves
<1>5. e.kind = "output" /\ e.from = u.from /\ e.to = u.to
  BY <1>2 DEF DataEvent
<1>6. ReadsAt(n) = u.from /\ ReadsAt(n + 1) = u.to
  BY <1>0, <1>1, <1>3, <1>4, ReadsAtNext
<1>7. ReadsOn(s)'
  <2>1. At(s)' = u.to
    BY <1>0, <1>4, <1>5, MovesAppends
  <2>2. next'[s] = n + 1 /\ sent' = sent
    BY <1>4 DEF Moves
  <2>3. QED
    BY <1>6, <2>1, <2>2 DEF ReadsOn, ReadsAt, SentTo
<1>8. Follows(out[s][Len(out[s])], e, Len(out[s]) = 1)
  <2>1. ReadsOn(s) \/ SeesTwice(s)
    BY <1>4 DEF RemoteIInv, RemotePlaced
  <2>2. CASE ReadsOn(s)
    BY <1>3, <1>5, <1>6, <2>2 DEF ReadsOn, Follows, At
  <2>3. CASE SeesTwice(s)
    <3>1. Len(out[s]) = 1 /\ At(s) = u.to /\ u.from < u.to
      BY <1>0, <1>1, <1>3, <1>4, <2>3 DEF SeesTwice
    <3>2. QED
      BY <1>5, <3>1 DEF Follows, At
  <2>4. QED
    BY <2>1, <2>2, <2>3
<1>9. StreamInv'
  BY <1>0, ForwarderStep DEF Forward
<1>10. QED
  BY <1>4, <1>7, <1>8, <1>9, RemoteMovesStep

\* A gap starts where the subscription stands and ends where it reads on.
LEMMA RemoteRecvLaggedStep ==
    ASSUME RemoteIInv, NEW s \in Subs, RecvLagged(s), UNCHANGED driverVars
    PROVE  RemoteIInv'
<1>0. StreamInv /\ StreamTypeOK
  BY DEF RemoteIInv, RemoteTypeOK
<1>1. PICK e : e = Skips(s)
  OBVIOUS
<1>2. PICK n : n = Oldest
  OBVIOUS
<1>3. Moves(s, "stream", n, e)
  BY <1>0, <1>1, <1>2, RecvLaggedMoves
<1>4. e.from = At(s) /\ e.to = ReadsAt(n)
  BY <1>1, <1>2 DEF Skips, LaggedEvent
<1>5. ReadsOn(s)'
  <2>1. At(s)' = ReadsAt(n)
    BY <1>0, <1>3, <1>4, MovesAppends
  <2>2. next'[s] = n /\ sent' = sent
    BY <1>3 DEF Moves
  <2>3. QED
    BY <2>1, <2>2 DEF ReadsOn, ReadsAt, SentTo
<1>6. Follows(out[s][Len(out[s])], e, Len(out[s]) = 1)
  BY <1>4 DEF Follows, At
<1>7. StreamInv'
  BY <1>0, ForwarderStep DEF Forward
<1>8. QED
  BY <1>3, <1>5, <1>6, <1>7, RemoteMovesStep

\* Attaching, aborting and entering the loop move no receiver.
LEMMA RemoteControlStep ==
    ASSUME RemoteIInv, NEW s \in Subs, UNCHANGED driverVars,
           AttachPane(s) \/ AbortForwarder(s) \/ (CheckAlive(s) /\ alive)
    PROVE  RemoteIInv'
<1>1. /\ UNCHANGED <<scroll, total, pos, sent, alive, exitCode, registered, next, out>>
      /\ \A r \in Subs : pc'[r] \in {"check", "stream"} => pc[r] \in {"check", "stream"}
      /\ StreamInv'
  BY PcStep DEF RemoteIInv
<1>2. RemoteTypeOK'
  BY <1>1 DEF RemoteIInv, RemoteTypeOK, StreamInv, driverVars
<1>3. ChannelFollows' /\ DriverOrder' /\ AtMostOneChunkTwice'
  BY <1>1 DEF RemoteIInv, ChannelFollows, Gapless, SentTo, DriverOrder, AtMostOneChunkTwice,
     driverVars
<1>4. RemotePlaced'
  <2>1. \A r \in Subs : ReadsOn(r)' = ReadsOn(r) /\ SeesTwice(r)' = SeesTwice(r)
    BY <1>1 DEF ReadsOn, SeesTwice, At, ReadsAt, SentTo, driverVars
  <2>2. QED
    BY <1>1, <2>1 DEF RemoteIInv, RemotePlaced
<1>5. QED
  BY <1>1, <1>2, <1>3, <1>4 DEF RemoteIInv

-----------------------------------------------------------------------------
(* A remote pane: the theorems.                                            *)

\* The types of the queues and of the stream after a step that sends nothing.
LEMMA QuietTypes ==
    ASSUME RemoteIInv, UNCHANGED <<scroll, total, pos, sent, pc, next, out, holding>>,
           \/ RemoteData \/ RemoteStatus \/ RemoteEof \/ RemoteClose
           \/ (\E k \in {"data", "resize"} : Command(k)) \/ CloseRemotePane
           \/ DriverForwards \/ DriverCloses \/ DriverStatus \/ DriverEnds
           \/ DriverMarksDead \/ UNCHANGED remoteVars
    PROVE  RemoteTypeOK'
<1>0. /\ cmds \in Seq({"data", "resize", "close"}) /\ issued \in 0 .. MaxCmds
      /\ inbox \in Seq(Msg) /\ arrived \in 0 .. MaxMsgs
      /\ remote \in {"open", "eof", "closed"} /\ StreamTypeOK
      /\ driver \in {"select", "appended", "ended", "dead", "done"}
      /\ MaxMsgs \in Nat /\ MaxCmds \in Nat
  BY RemoteConstants DEF RemoteIInv, RemoteTypeOK
<1>1. ASSUME NEW m \in Msg, Receive(m)
      PROVE  inbox' \in Seq(Msg) /\ arrived' \in 0 .. MaxMsgs
  BY <1>0, <1>1, AppendElements DEF Receive
<1>2. ASSUME NEW k \in {"data", "resize", "close"}
      PROVE  Append(cmds, k) \in Seq({"data", "resize", "close"})
  BY <1>0, AppendElements
<1>3. cmds # <<>> => Tail(cmds) \in Seq({"data", "resize", "close"})
  BY <1>0
<1>4. /\ [kind |-> "eof"] \in Msg /\ [kind |-> "close"] \in Msg
      /\ \A n \in DataSizes : [kind |-> "data", size |-> n] \in Msg
      /\ \A c \in Codes : [kind |-> "status", code |-> c] \in Msg
  BY DEF Msg
<1>5. cmds' \in Seq({"data", "resize", "close"}) /\ issued' \in 0 .. MaxCmds
  <2>1. CASE \E k \in {"data", "resize"} : Command(k)
    BY <1>0, <1>2, <2>1 DEF Command
  <2>2. CASE CloseRemotePane
    BY <1>0, <1>2, <2>2 DEF CloseRemotePane
  <2>3. CASE DriverForwards \/ DriverCloses
    BY <1>0, <1>3, <2>3 DEF DriverForwards, DriverCloses, TakeCmd
  <2>4. CASE UNCHANGED <<cmds, issued>>
    BY <1>0, <2>4
  <2>5. QED
    BY <2>1, <2>2, <2>3, <2>4 DEF RemoteData, RemoteStatus, RemoteEof, RemoteClose,
       DriverStatus, DriverEnds, TakeMsg, DriverMarksDead, remoteVars, driverVars
<1>6. inbox' \in Seq(Msg) /\ arrived' \in 0 .. MaxMsgs
  <2>1. CASE RemoteData \/ RemoteStatus \/ RemoteEof
    BY <1>1, <1>4, <2>1 DEF RemoteData, RemoteStatus, RemoteEof
  <2>2. CASE RemoteClose
    BY <1>0, <1>4, <2>2, AppendElements DEF RemoteClose
  <2>3. CASE DriverStatus \/ DriverEnds
    BY <1>0, <2>3, HeadOfInbox DEF DriverStatus, DriverEnds, TakeMsg
  <2>4. CASE UNCHANGED <<inbox, arrived>>
    BY <1>0, <2>4
  <2>5. QED
    BY <2>1, <2>2, <2>3, <2>4 DEF Command, CloseRemotePane, DriverForwards, DriverCloses,
       TakeCmd, DriverMarksDead, remoteVars, driverVars
<1>7. remote' \in {"open", "eof", "closed"}
  BY <1>0 DEF RemoteData, RemoteStatus, RemoteEof, RemoteClose, Command, CloseRemotePane,
     DriverForwards, DriverCloses, TakeCmd, DriverStatus, DriverEnds, TakeMsg,
     DriverMarksDead, remoteVars, driverVars
<1>8. driver' \in {"select", "appended", "ended", "dead", "done"}
  BY <1>0 DEF RemoteData, RemoteStatus, RemoteEof, RemoteClose, Command, CloseRemotePane,
     DriverForwards, DriverCloses, TakeCmd, DriverStatus, DriverEnds, TakeMsg,
     DriverMarksDead, remoteVars, driverVars
<1>9. alive' \in BOOLEAN /\ exitCode' \in Code /\ registered' \in BOOLEAN
  <2>1. CASE DriverStatus
    BY <1>0, <2>1, HeadOfInbox DEF DriverStatus, TakeMsg, StreamTypeOK, Code
  <2>2. CASE DriverMarksDead
    BY <1>0, <2>2 DEF DriverMarksDead, StreamTypeOK
  <2>3. CASE CloseRemotePane
    BY <1>0, <2>3 DEF CloseRemotePane, exitVars, StreamTypeOK
  <2>4. CASE UNCHANGED <<alive, exitCode, registered>>
    BY <1>0, <2>4 DEF StreamTypeOK
  <2>5. QED
    BY <2>1, <2>2, <2>3, <2>4 DEF RemoteData, RemoteStatus, RemoteEof, RemoteClose,
       Command, DriverForwards, DriverCloses, TakeCmd, DriverEnds, TakeMsg, exitVars,
       remoteVars, streamVars
<1>10. StreamTypeOK'
  BY <1>0, <1>9 DEF StreamTypeOK
<1>11. holding' \in Chunk
  BY DEF RemoteIInv, RemoteTypeOK
<1>12. QED
  BY <1>5, <1>6, <1>7, <1>8, <1>10, <1>11 DEF RemoteTypeOK

\* Every step of the pane preserves the invariant.
LEMMA RemoteNextIInv == RemoteIInv /\ [RemoteNext]_remoteVars => RemoteIInv'
<1> SUFFICES ASSUME RemoteIInv, [RemoteNext]_remoteVars PROVE RemoteIInv'
  OBVIOUS
<1>0. alive <=> driver \in {"select", "appended", "ended"}
  BY DEF RemoteIInv, DriverOrder
<1>1. CASE \/ RemoteData \/ RemoteStatus \/ RemoteEof \/ RemoteClose
           \/ (\E k \in {"data", "resize"} : Command(k)) \/ CloseRemotePane \/ UNCHANGED remoteVars
  <2>1. UNCHANGED <<scroll, total, pos, sent, pc, next, out, alive, exitCode, driver, holding>>
    BY <1>1 DEF RemoteData, RemoteStatus, RemoteEof, RemoteClose, Command, CloseRemotePane,
       remoteVars, driverVars, streamVars, exitVars, subVars
  <2>2. RemoteTypeOK'
    BY <1>1, <2>1, QuietTypes
  <2>3. QED
    BY <1>0, <2>1, <2>2, RemoteQuietStep
<1>2. CASE \/ DriverForwards \/ DriverCloses \/ DriverStatus \/ DriverEnds
           \/ DriverMarksDead
  <2>1. UNCHANGED <<scroll, total, pos, sent, pc, next, out, holding>>
    BY <1>2 DEF DriverForwards, DriverCloses, TakeCmd, DriverStatus, DriverEnds, TakeMsg,
       DriverMarksDead, streamVars, exitVars, subVars
  <2>2. RemoteTypeOK'
    BY <1>2, <2>1, QuietTypes
  <2>3. /\ driver \in {"select", "ended"} /\ driver' # "appended"
        /\ alive' <=> driver' \in {"select", "appended", "ended"}
    BY <1>0, <1>2 DEF DriverForwards, DriverCloses, TakeCmd, DriverStatus, DriverEnds,
       TakeMsg, DriverMarksDead, streamVars, exitVars
  <2>4. QED
    BY <1>0, <2>1, <2>2, <2>3, RemoteQuietStep
<1>3. CASE DriverAppends \/ DriverSends \/ DriverSendsExit
  BY <1>3, DriverAppendsStep, DriverSendsStep, DriverSendsExitStep
<1>4. ASSUME NEW s \in Subs, RemoteClient(s) PROVE RemoteIInv'
  BY <1>4, RemoteControlStep, RemoteSubscribeStep, RemoteExitStep, RemoteRecvBytesStep, RemoteRecvLaggedStep
     DEF RemoteClient, Forward
<1>5. QED
  BY <1>1, <1>2, <1>3, <1>4 DEF RemoteNext, Driver

\* The invariant holds in every reachable state.
LEMMA RemoteInvariant == RemoteSpec => []RemoteIInv
  BY RemoteInitIInv, RemoteNextIInv, PTL DEF RemoteSpec

\* A subscriber of a remote pane misses no byte unannounced, and sees at most one
\* chunk twice: the last one of its snapshot, if the driver had appended it and
\* not yet sent it when the subscription was made (drive_channel, subscribe).
THEOREM OneChunkTwice == RemoteSpec => []AtMostOneChunkTwice
<1>1. RemoteIInv => AtMostOneChunkTwice
  BY DEF RemoteIInv
<1>2. QED
  BY <1>1, RemoteInvariant, PTL

\* The scrollback of a remote pane is a tail of its output within its capacity,
\* PaneExit comes once, last and with the recorded code, and, unlike a local
\* pane's, Exit is the last update the channel carries (drive_channel).
THEOREM RemotePaneCorrect == RemoteSpec => []RemotePaneInv
<1>1. RemoteIInv => RemotePaneInv
  BY DEF RemoteIInv, RemotePaneInv, StreamInv, ExitProtocolKept, DriverOrder, NoBytesAfterExit
<1>2. QED
  BY <1>1, RemoteInvariant, PTL
=============================================================================
