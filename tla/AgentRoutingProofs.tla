-------------------------- MODULE AgentRoutingProofs --------------------------
(***************************************************************************)
(* What a client is told of its requests, for any number of clients,       *)
(* requests and agent connections.                                         *)
(*                                                                         *)
(* It rests on what a daemon id means: on its connection it stands for one *)
(* request, wherever it is kept, and a request has one id on one           *)
(* connection.  Ids restart on every connection, so a handle says neither  *)
(* which connection it is for nor, on another one, which request.          *)
(***************************************************************************)
EXTENDS AgentRouting, SequenceTheorems, TLAPS

-----------------------------------------------------------------------------
(* The inductive invariant.                                                *)

\* What the agent of k was told or will be, and what it says: writer, agent and pipe.
SentTo(k) ==
    agent[k] \cup {pipe[k][i] : i \in 1 .. Len(pipe[k])}
    \cup {[id |-> writer[k][i].id, req |-> writer[k][i].req] :
             i \in {j \in 1 .. Len(writer[k]) : writer[k][j].op = "request"}}

\* What sessions hold between the routing entry and the send.
Sending(k) ==
    {[id |-> cmd[c].id, req |-> cmd[c].req] :
        c \in {d \in Clients : cmd[d].step = "forward" /\ cmd[d].conn = k}}

Entries(k) == routing[k] \cup SentTo(k) \cup Sending(k)

\* An id was given out by alloc_id, for a request that was issued.
IdsAllocated ==
    \A k \in Conns : \A e \in Entries(k) :
        e.id < nextId[k] /\ e.req \in issued /\ k <= made

IdMeansRequest == \A k \in Conns : \A e, f \in Entries(k) : e.id = f.id => e = f

RequestHasOneId ==
    \A k, l \in Conns : \A e \in Entries(k) : \A f \in Entries(l) :
        e.req = f.req => k = l /\ e = f

\* A session handles a request of its own client, which nobody has served yet.
CommandKept ==
    \A c \in Clients : cmd[c] # Idle =>
        /\ open[c] /\ cmd[c].req \in issued /\ Owner[cmd[c].req] = c
        /\ cmd[c].conn <= made
        /\ \A h \in handles[c] : h.req # cmd[c].req
        /\ \A k \in Conns : \A e \in SentTo(k) : e.req # cmd[c].req
        /\ cmd[c].step = "register" =>
              /\ log[cmd[c].req] = <<>>
              /\ \A k \in Conns : \A e \in Entries(k) : e.req # cmd[c].req

\* Until it is sent, a request keeps its entry, unless it was told.
ForwardKept ==
    \A c \in Clients : cmd[c].step = "forward" /\ cmd[c].req \notin lost =>
        \/ Told(cmd[c].req)
        \/ [id |-> cmd[c].id, req |-> cmd[c].req] \in routing[cmd[c].conn]

\* A client has at most one handle of a request, and it is its own.
HandlesKept ==
    \A c \in Clients :
        /\ \A h \in handles[c] : h.req \in Subs /\ Owner[h.req] = c /\ h.req \in issued
        /\ \A g, h \in handles[c] : g.req = h.req => g = h

\* On the connection in the pool every subscription's entry has its handle.
PooledHaveHandles ==
    \A k \in Conns : \A e \in routing[k] :
        k = pool /\ e.req \in Subs /\ ~Underway(e.req) =>
            [req |-> e.req, id |-> e.id] \in handles[Owner[e.req]]

\* ... and none is of a client that has gone.
GoneNotPooled ==
    \A k \in Conns : \A e \in routing[k] :
        k = pool /\ e.req \in Subs => open[Owner[e.req]]

\* An action has been told nothing while it has an entry, and nothing but its result
\* once it had that.
ActionsToldOnce ==
    /\ \A k \in Conns : \A e \in routing[k] : e.req \in Actions => log[e.req] = <<>>
    /\ \A a \in Actions : \A i \in 1 .. Len(log[a]) :
          log[a][i].kind = "result" => Len(log[a]) = 1 /\ ~Underway(a)

\* Nothing is told of what was not issued.
ToldAreIssued == \A r \in Reqs \ issued : log[r] = <<>>

\* What is registered after the parser's drain is refused, or accepted and lost.
DrainedAreLost ==
    \A k \in Conns : \A e \in routing[k] :
        parser[k] = "done" => Underway(e.req) \/ e.req \in lost

\* A request that is still looked after has an entry, if nothing else.
NoneForgotten ==
    \A r \in issued \ lost :
        \/ Underway(r) \/ Told(r) \/ Withdrawn(r)
        \/ \E k \in Conns : \E e \in routing[k] : e.req = r

\* A supervisor that has the host to itself leaves at most the pooled session up.
OldAreDropped == ~Shared => \A k \in 1 .. made : k = pool \/ k \in dropped

IInv == /\ TypeOK /\ RightAddressee
        /\ IdsAllocated /\ IdMeansRequest /\ RequestHasOneId
        /\ CommandKept /\ ForwardKept
        /\ HandlesKept /\ PooledHaveHandles /\ GoneNotPooled
        /\ ActionsToldOnce /\ ToldAreIssued
        /\ DrainedAreLost /\ NoneForgotten /\ OldAreDropped

-----------------------------------------------------------------------------
(* Lemmas.                                                                 *)

LEMMA CommandShape ==
    ASSUME TypeOK, NEW c \in Clients, cmd[c] # Idle
    PROVE  /\ cmd[c].step \in {"register", "forward"}
           /\ cmd[c].req \in Reqs /\ cmd[c].conn \in Conns
           /\ cmd[c].step = "forward" => cmd[c].id \in Nat
BY DEF TypeOK, Command, Idle

LEMMA EntriesType ==
    ASSUME TypeOK, NEW k \in Conns
    PROVE  Entries(k) \subseteq Entry
<1>1. routing[k] \subseteq Entry /\ agent[k] \subseteq Entry /\ pipe[k] \in Seq(Entry)
      /\ writer[k] \in Seq(Message)
  BY DEF TypeOK
<1>2. ASSUME NEW i \in 1 .. Len(writer[k]), writer[k][i].op = "request"
      PROVE  writer[k][i].id \in Nat /\ writer[k][i].req \in Reqs
  <2>1. writer[k][i] \in Message
    BY <1>1
  <2>2. QED
    BY <1>2, <2>1 DEF Message
<1>3. SentTo(k) \subseteq Entry
  <2>1. ASSUME NEW i \in 1 .. Len(pipe[k])
        PROVE  pipe[k][i] \in Entry
    BY <1>1, <2>1, ElementOfSeq
  <2>2. ASSUME NEW i \in 1 .. Len(writer[k]), writer[k][i].op = "request"
        PROVE  [id |-> writer[k][i].id, req |-> writer[k][i].req] \in Entry
    BY <1>2, <2>2 DEF Entry
  <2>3. QED
    BY <1>1, <2>1, <2>2 DEF SentTo
<1>4. Sending(k) \subseteq Entry
  <2>1. ASSUME NEW c \in Clients, cmd[c].step = "forward"
        PROVE  cmd[c].id \in Nat /\ cmd[c].req \in Reqs
    BY <2>1, CommandShape DEF Idle
  <2>2. QED
    BY <2>1 DEF Sending, Entry
<1>5. QED
  BY <1>1, <1>3, <1>4 DEF Entries

\* What was told stays told.
LEMMA ToldStays ==
    ASSUME TypeOK, NEW r \in Reqs, NEW x \in Answer,
           log'[r] = log[r] \/ log'[r] = Append(log[r], x)
    PROVE  /\ Told(r) => Told(r)'
           /\ log'[r] # log[r] /\ x.kind \in {"result", "unavailable"} => Told(r)'
<1>1. log[r] \in Seq(Answer)
  BY DEF TypeOK
<1>2. CASE log'[r] = log[r]
  BY <1>2 DEF Told
<1>3. CASE log'[r] = Append(log[r], x)
  <2> DEFINE s == log[r]
             t == log'[r]
  <2>1. /\ Len(t) = Len(s) + 1 /\ t[Len(s) + 1] = x
        /\ \A i \in 1 .. Len(s) : t[i] = s[i]
    BY <1>1, <1>3, AppendProperties
  <2>2. Len(s) \in Nat
    BY <1>1
  <2> HIDE DEF s, t
  <2>3. (\E i \in 1 .. Len(s) : s[i].kind \in {"result", "unavailable"})
           => \E i \in 1 .. Len(t) : t[i].kind \in {"result", "unavailable"}
    BY <2>1, <2>2
  <2>4. x.kind \in {"result", "unavailable"}
           => \E i \in 1 .. Len(t) : t[i].kind \in {"result", "unavailable"}
    BY <2>1, <2>2
  <2>5. QED
    BY <2>3, <2>4 DEF Told, s, t
<1>4. QED
  BY <1>2, <1>3

LEMMA EntriesShrink ==
    ASSUME TypeOK, TypeOK', IdsAllocated, IdMeansRequest, RequestHasOneId,
           \A k \in Conns : Entries(k)' \subseteq Entries(k),
           nextId' = nextId, issued \subseteq issued', made <= made'
    PROVE  IdsAllocated' /\ IdMeansRequest' /\ RequestHasOneId'
<1>1. made \in Int /\ made' \in Int /\ Conns' = Conns /\ Conns \subseteq Int
  BY RoutingConstants DEF TypeOK, Conns
<1>2. IdsAllocated'
  BY <1>1 DEF IdsAllocated
<1>3. IdMeansRequest'
  BY <1>1 DEF IdMeansRequest
<1>4. RequestHasOneId'
  BY <1>1 DEF RequestHasOneId
<1>5. QED
  BY <1>2, <1>3, <1>4

LEMMA DrainType ==
    ASSUME TypeOK, NEW k \in Conns, Drain(k)
    PROVE  routing' \in [Conns -> SUBSET Entry] /\ log' \in [Reqs -> Seq(Answer)]
<1>1. routing' \in [Conns -> SUBSET Entry]
  BY DEF Drain, TypeOK
<1>2. ASSUME NEW r \in Reqs
      PROVE  Append(log[r], Unavailable(r)) \in Seq(Answer)
  <2>1. log[r] \in Seq(Answer) /\ Unavailable(r) \in Answer
    BY DEF TypeOK, Unavailable, Answer
  <2>2. QED
    BY <2>1, AppendProperties
<1>3. log' \in [Reqs -> Seq(Answer)]
  BY <1>2 DEF Drain, TypeOK
<1>4. QED
  BY <1>1, <1>3

LEMMA ReleaseType ==
    ASSUME IInv, NEW hs \in SUBSET Entry, Release(hs)
    PROVE  /\ routing' \in [Conns -> SUBSET Entry] /\ writer' \in [Conns -> Seq(Message)]
           /\ lost' \subseteq issued
<1>1. TypeOK /\ IdsAllocated /\ pool \in 0 .. made /\ made \in 0 .. MaxConns
  BY DEF IInv, TypeOK
<1>2. CASE pool = 0
  BY <1>1, <1>2 DEF Release, TypeOK
<1>3. CASE pool # 0
  <2>1. pool \in Conns
    BY <1>1, <1>3, RoutingConstants DEF Conns
  <2>2. routing' \in [Conns -> SUBSET Entry]
    BY <1>1, <1>3, <2>1 DEF Release, TypeOK
  <2>3. \A e \in routing[pool] : e.req \in issued
    BY <1>1, <2>1 DEF IdsAllocated, Entries
  <2>4. lost' \subseteq issued
    BY <1>1, <1>3, <2>1, <2>3 DEF Release, TypeOK
  <2>5. writer' \in [Conns -> Seq(Message)]
    <3> DEFINE m == [op |-> "unsubscribe", ids |-> {h.id : h \in hs}]
    <3>1. m \in Message
      BY DEF Message, Entry
    <3>2. writer[pool] \in Seq(Message)
      BY <1>1, <2>1 DEF TypeOK
    <3>3. writer' = writer \/ writer' = [writer EXCEPT ![pool] = Append(writer[pool], m)]
      BY <1>3 DEF Release
    <3>4. Append(writer[pool], m) \in Seq(Message)
      BY <3>1, <3>2, AppendProperties
    <3> HIDE DEF m
    <3>5. QED
      BY <1>1, <3>3, <3>4 DEF TypeOK
  <2>6. QED
    BY <2>2, <2>4, <2>5
<1>4. QED
  BY <1>2, <1>3

\* The types, an action at a time.
LEMMA StepTypeOK ==
    ASSUME IInv, [Next]_vars
    PROVE  TypeOK'
<1> USE DEF connVars, clientVars
<1>0. TypeOK /\ IdsAllocated /\ CommandKept
  BY DEF IInv
<1>1. ASSUME NEW k \in Conns, DropSession(k)
      PROVE  TypeOK'
  BY <1>0, <1>1 DEF TypeOK, DropSession
<1>2. ASSUME RegisterAgent
      PROVE  TypeOK'
  <2>1. made + 1 \in Conns /\ made' = made + 1 /\ pool' = made + 1 /\ made + 1 \in 0 .. MaxConns
    BY <1>0, <1>2, RoutingConstants DEF TypeOK, RegisterAgent, Conns
  <2>2. pool' \in 0 .. made' /\ made' \in 0 .. MaxConns
    BY <1>0, <2>1 DEF TypeOK
  <2>3. routing' \in [Conns -> SUBSET Entry] /\ log' \in [Reqs -> Seq(Answer)]
    <3>1. CASE pool = 0
      BY <1>0, <1>2, <3>1 DEF TypeOK, RegisterAgent
    <3>2. CASE pool # 0
      <4>1. pool \in Conns /\ Drain(pool)
        BY <1>0, <1>2, <3>2, RoutingConstants DEF TypeOK, RegisterAgent, Conns
      <4>2. QED
        BY <1>0, <4>1, DrainType
    <3>3. QED
      BY <3>1, <3>2
  <2>4. /\ capable' \in [Conns -> BOOLEAN]
        /\ driver' \in [Conns -> {"none", "run", "closing", "eof", "gone"}]
        /\ parser' \in [Conns -> {"none", "run", "done"}]
    BY <1>0, <1>2 DEF TypeOK, RegisterAgent
  <2>5. QED
    BY <1>0, <1>2, <2>2, <2>3, <2>4 DEF TypeOK, RegisterAgent
<1>3. ASSUME RemoveAgent
      PROVE  TypeOK'
  <2>1. pool \in Conns
    BY <1>0, <1>3, RoutingConstants DEF TypeOK, RemoveAgent, Conns
  <2>2. pool' \in 0 .. made
    BY <1>0, <1>3, RoutingConstants DEF TypeOK, RemoveAgent
  <2>3. QED
    BY <1>0, <1>3, <2>1, <2>2 DEF TypeOK, RemoveAgent
<1>4. ASSUME NEW k \in Conns, ShutdownConn(k)
      PROVE  TypeOK'
  BY <1>0, <1>4, DrainType DEF TypeOK, ShutdownConn
<1>5. ASSUME NEW k \in Conns, DriverWrites(k)
      PROVE  TypeOK'
  <2>1. writer[k] \in Seq(Message) /\ writer[k] # <<>>
    BY <1>0, <1>5 DEF TypeOK, DriverWrites
  <2>2. Head(writer[k]) \in Message /\ Tail(writer[k]) \in Seq(Message)
    BY <2>1, HeadTailProperties
  <2>3. writer' \in [Conns -> Seq(Message)]
    BY <1>0, <1>5, <2>2 DEF TypeOK, DriverWrites
  <2>4. agent' \in [Conns -> SUBSET Entry]
    <3> DEFINE m == Head(writer[k])
    <3>1. m.op = "request" => [id |-> m.id, req |-> m.req] \in Entry
      BY <2>2 DEF Message, Entry
    <3>2. QED
      BY <1>0, <1>5, <3>1 DEF TypeOK, DriverWrites
  <2>5. QED
    BY <1>0, <1>5, <2>3, <2>4 DEF TypeOK, DriverWrites
<1>6. ASSUME NEW k \in Conns, DriverDropsPipe(k)
      PROVE  TypeOK'
  BY <1>0, <1>6 DEF TypeOK, DriverDropsPipe
<1>7. ASSUME NEW k \in Conns, DriverReturns(k)
      PROVE  TypeOK'
  <2>1. <<>> \in Seq(Message)
    OBVIOUS
  <2>2. QED
    BY <1>0, <1>7, <2>1 DEF TypeOK, DriverReturns
<1>8. ASSUME NEW k \in Conns, ParserRoutes(k)
      PROVE  TypeOK'
  <2>1. pipe[k] \in Seq(Entry) /\ pipe[k] # <<>>
    BY <1>0, <1>8 DEF TypeOK, ParserRoutes
  <2>2. Head(pipe[k]) \in Entry /\ Tail(pipe[k]) \in Seq(Entry)
    BY <2>1, HeadTailProperties
  <2>3. pipe' \in [Conns -> Seq(Entry)]
    BY <1>0, <1>8, <2>2 DEF TypeOK, ParserRoutes
  <2>4. routing' \in [Conns -> SUBSET Entry]
    BY <1>0, <1>8 DEF TypeOK, ParserRoutes
  <2>5. log' \in [Reqs -> Seq(Answer)]
    <3> DEFINE x == [kind |-> IF Head(pipe[k]).req \in Actions THEN "result" ELSE "event",
                     from |-> Head(pipe[k]).req]
    <3>1. x \in Answer
      BY <2>2 DEF Answer, Entry
    <3>2. ASSUME NEW r \in Reqs
          PROVE  Append(log[r], x) \in Seq(Answer)
      BY <1>0, <3>1, AppendProperties DEF TypeOK
    <3>3. \A r \in Reqs : log'[r] = log[r] \/ log'[r] = Append(log[r], x)
      BY <1>8 DEF ParserRoutes
    <3>4. log' = [r \in Reqs |-> log'[r]]
      BY <1>8 DEF ParserRoutes
    <3> HIDE DEF x
    <3>5. QED
      BY <1>0, <3>2, <3>3, <3>4 DEF TypeOK
  <2>6. QED
    BY <1>0, <1>8, <2>3, <2>4, <2>5 DEF TypeOK, ParserRoutes
<1>9. ASSUME NEW k \in Conns, ParserEnds(k)
      PROVE  TypeOK'
  BY <1>0, <1>9, DrainType DEF TypeOK, ParserEnds
<1>10. ASSUME NEW k \in Conns, AgentSays(k)
       PROVE  TypeOK'
  <2>1. PICK e \in agent[k] :
           /\ pipe' = [pipe EXCEPT ![k] = Append(pipe[k], e)]
           /\ agent' = [agent EXCEPT ![k] = IF e.req \in Actions THEN agent[k] \ {e}
                                            ELSE agent[k]]
    BY <1>10 DEF AgentSays
  <2>2. Append(pipe[k], e) \in Seq(Entry)
    BY <1>0, AppendProperties DEF TypeOK
  <2>3. pipe' \in [Conns -> Seq(Entry)] /\ agent' \in [Conns -> SUBSET Entry]
    BY <1>0, <2>1, <2>2 DEF TypeOK
  <2>4. events' \in 0 .. MaxEvents
    BY <1>0, <1>10, RoutingConstants DEF TypeOK, AgentSays
  <2>5. QED
    BY <1>0, <1>10, <2>3, <2>4 DEF TypeOK, AgentSays
<1>11. ASSUME NEW k \in Conns, ChannelCloses(k)
       PROVE  TypeOK'
  <2>1. PICK n \in 0 .. Len(pipe[k]) : pipe' = [pipe EXCEPT ![k] = SubSeq(pipe[k], 1, n)]
    BY <1>11 DEF ChannelCloses
  <2>2. SubSeq(pipe[k], 1, n) \in Seq(Entry)
    <3>1. pipe[k] \in Seq(Entry)
      BY <1>0 DEF TypeOK
    <3>2. \A i \in 1 .. n : pipe[k][i] \in Entry
      BY <3>1
    <3>3. QED
      BY <3>1, <3>2, SubSeqProperties
  <2>3. QED
    BY <1>0, <1>11, <2>1, <2>2 DEF TypeOK, ChannelCloses
<1>12. ASSUME NEW r \in Reqs, Route(r)
       PROVE  TypeOK'
  <2>1. Append(log[r], Unavailable(r)) \in Seq(Answer)
    <3>1. log[r] \in Seq(Answer) /\ Unavailable(r) \in Answer
      BY <1>0 DEF TypeOK, Unavailable, Answer
    <3>2. QED
      BY <3>1, AppendProperties
  <2>2. log' \in [Reqs -> Seq(Answer)]
    BY <1>0, <1>12, <2>1 DEF TypeOK, Route, Tell
  <2>3. cmd' \in [Clients -> Command]
    <3>1. CASE cmd' = cmd
      BY <1>0, <3>1 DEF TypeOK
    <3>2. CASE cmd' = [cmd EXCEPT ![Owner[r]] =
                          [step |-> "register", req |-> r, conn |-> pool]] /\ pool # 0
      <4>1. pool \in Conns
        BY <1>0, <3>2, RoutingConstants DEF TypeOK, Conns
      <4>2. [step |-> "register", req |-> r, conn |-> pool] \in Command
        BY <4>1 DEF Command
      <4>3. QED
        BY <1>0, <3>2, <4>2 DEF TypeOK
    <3>3. QED
      BY <1>12, <3>1, <3>2 DEF Route
  <2>4. issued' \subseteq Reqs /\ lost' \subseteq issued'
    BY <1>0, <1>12 DEF TypeOK, Route
  <2>5. QED
    BY <1>0, <1>12, <2>2, <2>3, <2>4 DEF TypeOK, Route
<1>13. ASSUME NEW c \in Clients, Register(c)
       PROVE  TypeOK'
  <2> DEFINE r == cmd[c].req
             k == cmd[c].conn
             u == [step |-> "forward", req |-> r, conn |-> k, id |-> nextId[k]]
  <2>1. cmd[c].step = "register" /\ cmd[c] # Idle
    BY <1>13 DEF Register, Idle
  <2>2. r \in Reqs /\ k \in Conns /\ r \in issued
    BY <1>0, <2>1, CommandShape DEF CommandKept
  <2>3. nextId[k] \in Nat /\ nextId[k] + 1 \in Nat
    BY <1>0, <2>2 DEF TypeOK
  <2>4. u \in Command /\ [id |-> nextId[k], req |-> r] \in Entry
    BY <2>2, <2>3 DEF Command, Entry
  <2>5. /\ nextId' = [nextId EXCEPT ![k] = nextId[k] + 1]
        /\ routing' = [routing EXCEPT ![k] = routing[k] \cup {[id |-> nextId[k], req |-> r]}]
        /\ cmd' = [cmd EXCEPT ![c] = u]
    BY <1>13 DEF Register
  <2> HIDE DEF r, k, u
  <2>6. nextId' \in [Conns -> Nat] /\ routing' \in [Conns -> SUBSET Entry]
    BY <1>0, <2>2, <2>3, <2>4, <2>5 DEF TypeOK
  <2>7. cmd' \in [Clients -> Command]
    BY <1>0, <2>2, <2>4, <2>5 DEF TypeOK
  <2>8. QED
    BY <1>0, <1>13, <2>6, <2>7 DEF TypeOK, Register
<1>14. ASSUME NEW c \in Clients, Forward(c)
       PROVE  TypeOK'
  <2> DEFINE r == cmd[c].req
             k == cmd[c].conn
             m == [op |-> "request", id |-> cmd[c].id, req |-> r]
             h == [req |-> r, id |-> cmd[c].id]
  <2>1. cmd[c].step = "forward" /\ cmd[c] # Idle
    BY <1>14 DEF Forward, Idle
  <2>2. r \in Reqs /\ k \in Conns /\ cmd[c].id \in Nat
    BY <1>0, <2>1, CommandShape
  <2>3. m \in Message /\ h \in Entry /\ Unavailable(r) \in Answer
    BY <2>2 DEF Message, Entry, Unavailable, Answer
  <2>4. writer[k] \in Seq(Message) /\ log[r] \in Seq(Answer)
    BY <1>0, <2>2 DEF TypeOK
  <2>5. Append(writer[k], m) \in Seq(Message) /\ Append(log[r], Unavailable(r)) \in Seq(Answer)
    BY <2>3, <2>4, AppendProperties
  <2>6. cmd' \in [Clients -> Command]
    BY <1>0, <1>14 DEF TypeOK, Forward, Command
  <2>7. CASE driver[k] # "gone"
    <3>1. /\ writer' = [writer EXCEPT ![k] = Append(writer[k], m)]
          /\ handles' = handles \/ handles' = [handles EXCEPT ![c] = handles[c] \cup {h}]
          /\ routing' = routing /\ log' = log
          /\ lost' = lost \/ lost' = lost \cup {r}
      BY <1>14, <2>7 DEF Forward
    <3>5. r \in issued
      BY <1>0, <2>1 DEF CommandKept
    <3> HIDE DEF r, k, m, h
    <3>6. lost' \subseteq issued
      BY <1>0, <3>1, <3>5 DEF TypeOK
    <3>2. writer' \in [Conns -> Seq(Message)]
      BY <1>0, <2>2, <2>5, <3>1 DEF TypeOK
    <3>3. handles' \in [Clients -> SUBSET Entry]
      <4>1. handles \in [Clients -> SUBSET Entry] /\ handles[c] \cup {h} \in SUBSET Entry
        BY <1>0, <2>3 DEF TypeOK
      <4>2. handles' = handles \/ handles' = [handles EXCEPT ![c] = handles[c] \cup {h}]
        BY <3>1
      <4>3. QED
        BY <4>1, <4>2
    <3>4. QED
      BY <1>0, <1>14, <2>6, <3>1, <3>2, <3>3, <3>6 DEF TypeOK, Forward
  <2>8. CASE driver[k] = "gone"
    <3>1. /\ routing' = [routing EXCEPT ![k] = {e \in routing[k] : e.id # cmd[c].id}]
          /\ log' = [log EXCEPT ![r] = Append(log[r], Unavailable(r))]
          /\ writer' = writer /\ handles' = handles
      BY <1>14, <2>8 DEF Forward, Tell
    <3> HIDE DEF r, k, m, h
    <3>2. routing' \in [Conns -> SUBSET Entry] /\ log' \in [Reqs -> Seq(Answer)]
      BY <1>0, <2>2, <2>5, <3>1 DEF TypeOK
    <3>3. QED
      BY <1>0, <1>14, <2>6, <3>1, <3>2 DEF TypeOK, Forward
  <2>9. QED
    BY <2>7, <2>8
<1>15. ASSUME NEW c \in Clients, Unsubscribe(c)
       PROVE  TypeOK'
  <2>1. PICK h \in handles[c] : /\ handles' = [handles EXCEPT ![c] = handles[c] \ {h}]
                                /\ Release({h})
    BY <1>15 DEF Unsubscribe
  <2>2. {h} \in SUBSET Entry
    BY <1>0 DEF TypeOK
  <2>3. /\ routing' \in [Conns -> SUBSET Entry] /\ writer' \in [Conns -> Seq(Message)]
        /\ lost' \subseteq issued
    BY <2>1, <2>2, ReleaseType
  <2>4. handles' \in [Clients -> SUBSET Entry]
    BY <1>0, <2>1 DEF TypeOK
  <2>5. QED
    BY <1>0, <1>15, <2>3, <2>4 DEF TypeOK, Unsubscribe
<1>16. ASSUME NEW c \in Clients, Disconnect(c)
       PROVE  TypeOK'
  <2>1. /\ routing' \in [Conns -> SUBSET Entry] /\ writer' \in [Conns -> Seq(Message)]
        /\ lost' \subseteq issued
    <3>1. handles[c] \in SUBSET Entry /\ Release(handles[c])
      BY <1>0, <1>16 DEF TypeOK, Disconnect
    <3>2. QED
      BY <3>1, ReleaseType
  <2>2. QED
    BY <1>0, <1>16, <2>1 DEF TypeOK, Disconnect
<1>17. CASE UNCHANGED vars
  BY <1>0, <1>17 DEF TypeOK, vars
<1>18. QED
  BY <1>1, <1>2, <1>3, <1>4, <1>5, <1>6, <1>7, <1>8, <1>9, <1>10, <1>11, <1>12, <1>13,
     <1>14, <1>15, <1>16, <1>17 DEF Next, Supervisor, Driver, Parser, Routing

-----------------------------------------------------------------------------
(* The steps of supervisors and of a connection's tasks.                   *)

\* What a step tells, it tells requests with an entry; an action gives its entry up.
TellsEntries ==
    \A r \in Reqs :
        \/ log'[r] = log[r]
        \/ \E k \in Conns : \E e \in routing[k] : \E x \in Answer :
              /\ e.req = r /\ (r \in Actions => e \notin routing'[k])
              /\ log'[r] = Append(log[r], x) /\ x.from = r
              /\ x.kind = "result" => ~Underway(r)

\* Entries go only when their request is told.
DropsTold ==
    \A k \in Conns : /\ routing'[k] \subseteq routing[k]
                     /\ \A e \in routing[k] \ routing'[k] : Told(e.req)'

LEMMA OneMore ==
    ASSUME NEW s \in Seq(Answer), NEW x \in Answer
    PROVE  /\ Len(Append(s, x)) = Len(s) + 1 /\ Len(s) \in Nat
           /\ Append(s, x)[Len(s) + 1] = x
           /\ \A i \in 1 .. Len(s) : Append(s, x)[i] = s[i]
BY AppendProperties

LEMMA ToldByEntries ==
    ASSUME TypeOK, TypeOK', TellsEntries, NEW r \in Reqs
    PROVE  Told(r) => Told(r)'
<1>1. CASE log'[r] = log[r]
  BY <1>1 DEF Told
<1>2. ASSUME NEW x \in Answer, log'[r] = Append(log[r], x)
      PROVE  Told(r) => Told(r)'
  BY <1>2, ToldStays
<1>3. QED
  BY <1>1, <1>2 DEF TellsEntries

LEMMA NotTold ==
    ASSUME TellsEntries, NEW r \in Reqs,
           \A k \in Conns : \A e \in routing[k] : e.req = r => r \in Actions /\ e \in routing'[k]
    PROVE  log'[r] = log[r]
BY DEF TellsEntries

\* The frame that their steps share: no session moves, nothing new is under way.
LEMMA SideStep ==
    ASSUME IInv, TypeOK', OldAreDropped', TellsEntries, DropsTold,
           cmd' = cmd, handles' = handles, open' = open, issued' = issued, lost' = lost,
           nextId' = nextId, made <= made',
           \A k \in Conns : SentTo(k)' \subseteq SentTo(k),
           \A k \in Conns : k = pool' => k = pool \/ routing'[k] = {},
           \A k \in Conns : parser'[k] = "done" => parser[k] = "done" \/ routing'[k] = {}
    PROVE  IInv'
<1>0. /\ TypeOK /\ IdsAllocated /\ IdMeansRequest /\ RequestHasOneId
      /\ \A k \in Conns : Entries(k) \subseteq Entry
  BY EntriesType DEF IInv
<1> USE DEF TypeOK
<1>1. \A k \in Conns : Entries(k)' \subseteq Entries(k)
  <2>1. \A k \in Conns : Sending(k)' = Sending(k)
    BY DEF Sending
  <2>2. QED
    BY <2>1 DEF Entries, DropsTold
<1>2. IdsAllocated' /\ IdMeansRequest' /\ RequestHasOneId'
  BY <1>0, <1>1, EntriesShrink
<1>3. \A r \in Reqs : Told(r) => Told(r)'
  BY <1>0, ToldByEntries
<1>4. RightAddressee'
  <2>1. SUFFICES ASSUME NEW r \in Reqs, NEW i \in 1 .. Len(log'[r])
                 PROVE  log'[r][i].from = r
    BY DEF RightAddressee
  <2>2. CASE log'[r] = log[r]
    BY <2>2 DEF IInv, RightAddressee
  <2>3. ASSUME NEW x \in Answer, log'[r] = Append(log[r], x), x.from = r
        PROVE  log'[r][i].from = r
    <3>1. log[r] \in Seq(Answer)
      BY <1>0
    <3>2. /\ Len(log'[r]) = Len(log[r]) + 1 /\ Len(log[r]) \in Nat
          /\ log'[r][Len(log[r]) + 1] = x
          /\ \A j \in 1 .. Len(log[r]) : log'[r][j] = log[r][j]
      BY <2>3, <3>1, OneMore
    <3>3. \A j \in 1 .. Len(log[r]) : log[r][j].from = r
      BY DEF IInv, RightAddressee
    <3>4. QED
      BY <2>1, <2>3, <3>2, <3>3
  <2>4. QED
    BY <2>2, <2>3 DEF TellsEntries
<1>5. CommandKept'
  <2>1. /\ CommandKept /\ made \in Int /\ made' \in Int
        /\ \A c \in Clients : cmd[c] # Idle => cmd[c].conn \in Int
    <3>0. made \in 0 .. MaxConns /\ made' \in 0 .. MaxConns
      BY <1>0
    <3> HIDE DEF TypeOK
    <3>1. made \in Int /\ made' \in Int
      BY <3>0, RoutingConstants
    <3>2. QED
      BY <1>0, <3>1, CommandShape DEF IInv, Conns
  <2>2. ASSUME NEW c \in Clients, cmd[c] # Idle, cmd[c].step = "register"
        PROVE  log'[cmd[c].req] = <<>>
    <3>1. cmd[c].req \in Reqs /\ log[cmd[c].req] = <<>>
      BY <1>0, <2>1, <2>2, CommandShape DEF CommandKept
    <3>2. \A k \in Conns : \A e \in routing[k] : e.req # cmd[c].req
      BY <2>1, <2>2 DEF CommandKept, Entries
    <3>3. QED
      BY <3>1, <3>2, NotTold
  <2> HIDE DEF TypeOK
  <2>3. QED
    BY <1>1, <2>1, <2>2 DEF CommandKept
<1>6. ForwardKept'
  <2>1. SUFFICES ASSUME NEW c \in Clients, cmd[c].step = "forward", cmd[c].req \notin lost
                 PROVE  \/ Told(cmd[c].req)'
                        \/ [id |-> cmd[c].id, req |-> cmd[c].req] \in routing'[cmd[c].conn]
    BY DEF ForwardKept
  <2>2. cmd[c].req \in Reqs /\ cmd[c].conn \in Conns
    BY <1>0, <2>1, CommandShape DEF Idle
  <2>3. CASE Told(cmd[c].req)
    BY <1>3, <2>2, <2>3
  <2>4. CASE [id |-> cmd[c].id, req |-> cmd[c].req] \in routing[cmd[c].conn]
    <3> DEFINE e == [id |-> cmd[c].id, req |-> cmd[c].req]
    <3>1. e \notin routing'[cmd[c].conn] => Told(e.req)'
      BY <2>2, <2>4 DEF DropsTold
    <3>2. QED
      BY <3>1
  <2>5. QED
    BY <2>1, <2>3, <2>4 DEF IInv, ForwardKept
<1>7. HandlesKept'
  BY DEF IInv, HandlesKept
<1>8. PooledHaveHandles' /\ GoneNotPooled'
  <2>1. \A k \in Conns : \A e \in routing'[k] : k = pool' => k = pool /\ e \in routing[k]
    BY DEF DropsTold
  <2> HIDE DEF TypeOK
  <2>2. QED
    BY <2>1 DEF IInv, PooledHaveHandles, GoneNotPooled, Underway
<1>9. ActionsToldOnce'
  <2>1. ASSUME NEW k \in Conns, NEW e \in routing'[k], e.req \in Actions
        PROVE  log'[e.req] = <<>>
    <3>1. e \in routing[k] /\ log[e.req] = <<>> /\ e.req \in Reqs
      BY <2>1 DEF DropsTold, IInv, ActionsToldOnce, Reqs
    <3>2. e \in Entries(k) /\ \A l \in Conns : routing[l] \subseteq Entries(l)
      BY <3>1 DEF Entries
    <3> HIDE DEF TypeOK
    <3>3. \A l \in Conns : \A f \in routing[l] : f.req = e.req => l = k /\ f = e
      BY <1>0, <3>2 DEF RequestHasOneId
    <3>4. QED
      BY <2>1, <3>1, <3>3, NotTold
  <2>2. ASSUME NEW a \in Actions, NEW i \in 1 .. Len(log'[a]), log'[a][i].kind = "result"
        PROVE  Len(log'[a]) = 1 /\ ~Underway(a)'
    <3>1. a \in Reqs /\ (Underway(a)' <=> Underway(a)) /\ log[a] \in Seq(Answer)
      BY <1>0 DEF Reqs, Underway
    <3>2. CASE log'[a] = log[a]
      BY <2>2, <3>1, <3>2 DEF IInv, ActionsToldOnce
    <3>3. ASSUME NEW x \in Answer, log'[a] = Append(log[a], x),
                 x.kind = "result" => ~Underway(a), log[a] = <<>>
          PROVE  Len(log'[a]) = 1 /\ ~Underway(a)'
      <4>1. Len(log'[a]) = Len(log[a]) + 1 /\ log'[a][Len(log[a]) + 1] = x
        BY <3>1, <3>3, OneMore
      <4>2. Len(log[a]) = 0
        BY <3>3
      <4>3. Len(log'[a]) = 1 /\ i = 1
        BY <4>1, <4>2, <2>2
      <4>4. QED
        BY <2>2, <3>1, <3>3, <4>1, <4>2, <4>3
    <3>4. \A k \in Conns : \A e \in routing[k] : e.req = a => log[a] = <<>>
      BY DEF IInv, ActionsToldOnce
    <3>5. QED
      BY <3>1, <3>2, <3>3, <3>4 DEF TellsEntries
  <2>3. QED
    BY <2>1, <2>2 DEF ActionsToldOnce
<1>10. ToldAreIssued'
  <2>1. \A r \in Reqs \ issued : log[r] = <<>> /\ \A k \in Conns : \A e \in routing[k] : e.req # r
    BY <1>0 DEF IInv, ToldAreIssued, IdsAllocated, Entries
  <2>2. QED
    BY <2>1, NotTold DEF ToldAreIssued
<1>11. DrainedAreLost'
  BY DEF IInv, DrainedAreLost, DropsTold, Underway
<1>12. NoneForgotten'
  <2>1. SUFFICES ASSUME NEW r \in issued \ lost
                 PROVE  \/ Underway(r)' \/ Told(r)' \/ Withdrawn(r)'
                        \/ \E k \in Conns : \E e \in routing'[k] : e.req = r
    BY DEF NoneForgotten
  <2>2. r \in Reqs /\ (Underway(r) => Underway(r)') /\ (Withdrawn(r) => Withdrawn(r)')
    BY <1>0 DEF Underway, Withdrawn
  <2>3. CASE \E k \in Conns : \E e \in routing[k] : e.req = r
    BY <2>3 DEF DropsTold
  <2>4. QED
    BY <1>3, <2>2, <2>3 DEF IInv, NoneForgotten
<1>13. QED
  BY <1>2, <1>4, <1>5, <1>6, <1>7, <1>8, <1>9, <1>10, <1>11, <1>12 DEF IInv

\* drain_routing_on_disconnect.
LEMMA DrainTells ==
    ASSUME IInv, TypeOK', NEW k \in Conns, Drain(k)
    PROVE  TellsEntries /\ DropsTold /\ routing'[k] = {}
<1>0. TypeOK /\ TypeOK'
  BY DEF IInv
<1>1. /\ routing'[k] = {}
      /\ \A l \in Conns \ {k} : routing'[l] = routing[l]
      /\ \A r \in Reqs : \/ log'[r] = log[r] /\ \A e \in routing[k] : e.req # r
                         \/ /\ \E e \in routing[k] : e.req = r
                            /\ log'[r] = Append(log[r], Unavailable(r))
  BY <1>0 DEF TypeOK, Drain
<1>2. \A r \in Reqs : /\ Unavailable(r) \in Answer /\ Unavailable(r).from = r
                      /\ Unavailable(r).kind = "unavailable"
  BY DEF Unavailable, Answer
<1>3. TellsEntries
  <2>1. SUFFICES ASSUME NEW r \in Reqs, log'[r] # log[r]
                 PROVE  \E l \in Conns : \E e \in routing[l] : \E x \in Answer :
                           /\ e.req = r /\ (r \in Actions => e \notin routing'[l])
                           /\ log'[r] = Append(log[r], x) /\ x.from = r
                           /\ x.kind = "result" => ~Underway(r)
    BY DEF TellsEntries
  <2>2. PICK e \in routing[k] : e.req = r /\ log'[r] = Append(log[r], Unavailable(r))
    BY <1>1, <2>1
  <2>3. Unavailable(r).kind # "result"
    BY <1>2
  <2>4. QED
    BY <1>1, <1>2, <2>2, <2>3
<1>4. DropsTold
  <2>1. ASSUME NEW e \in routing[k]
        PROVE  Told(e.req)'
    <3>1. e.req \in Reqs
      BY <1>0 DEF TypeOK, Entry
    <3>2. log'[e.req] = Append(log[e.req], Unavailable(e.req)) /\ log[e.req] \in Seq(Answer)
      BY <1>0, <1>1, <3>1 DEF TypeOK
    <3>3. Len(log'[e.req]) = Len(log[e.req]) + 1 /\ Len(log[e.req]) \in Nat
          /\ log'[e.req][Len(log[e.req]) + 1] = Unavailable(e.req)
      BY <1>2, <3>1, <3>2, OneMore
    <3>4. Len(log[e.req]) + 1 \in 1 .. Len(log'[e.req])
      BY <3>3
    <3>5. QED
      BY <1>2, <3>1, <3>3, <3>4 DEF Told
  <2>2. QED
    BY <1>1, <2>1 DEF DropsTold
<1>5. QED
  BY <1>1, <1>3, <1>4

LEMMA NothingTold ==
    ASSUME log' = log, routing' = routing
    PROVE  TellsEntries /\ DropsTold
BY DEF TellsEntries, DropsTold

LEMMA SameSentTo ==
    ASSUME agent' = agent, pipe' = pipe, writer' = writer
    PROVE  \A k \in Conns : SentTo(k)' \subseteq SentTo(k)
BY DEF SentTo

\* Only connection k's messages move.
LEMMA OthersSentTo ==
    ASSUME NEW k \in Conns, SentTo(k)' \subseteq SentTo(k),
           \A l \in Conns \ {k} :
               agent'[l] = agent[l] /\ pipe'[l] = pipe[l] /\ writer'[l] = writer[l]
    PROVE  \A l \in Conns : SentTo(l)' \subseteq SentTo(l)
<1>1. ASSUME NEW l \in Conns, l # k
      PROVE  SentTo(l)' = SentTo(l)
  <2>1. agent'[l] = agent[l] /\ pipe'[l] = pipe[l] /\ writer'[l] = writer[l]
    BY <1>1
  <2>2. QED
    BY <2>1 DEF SentTo
<1>2. QED
  BY <1>1

LEMMA SupervisorStep ==
    ASSUME IInv, TypeOK',
           \/ RegisterAgent \/ RemoveAgent
           \/ \E k \in Conns : DropSession(k) \/ ShutdownConn(k)
    PROVE  IInv'
<1>0. /\ TypeOK /\ OldAreDropped /\ IdsAllocated
      /\ made \in 0 .. MaxConns /\ pool \in 0 .. made
  BY DEF IInv, TypeOK
<1>1. \A k \in Conns : SentTo(k)' \subseteq SentTo(k)
  BY SameSentTo DEF RegisterAgent, RemoveAgent, DropSession, ShutdownConn, connVars
<1>2. ASSUME NEW k \in Conns, DropSession(k)
      PROVE  IInv'
  <2>1. OldAreDropped'
    BY <1>0, <1>2 DEF OldAreDropped, DropSession
  <2>2. TellsEntries /\ DropsTold
    BY <1>2, NothingTold DEF DropSession
  <2>3. made <= made'
    BY <1>0, <1>2, RoutingConstants DEF DropSession
  <2>4. QED
    BY <1>1, <1>2, <2>1, <2>2, <2>3, SideStep DEF DropSession, clientVars
<1>3. CASE RegisterAgent
  <2>1. OldAreDropped'
    <3>1. made \in Nat /\ made' = made + 1 /\ pool' = made + 1 /\ dropped' = dropped
          /\ (~Shared => 1 .. made \subseteq dropped)
      BY <1>0, <1>3, RoutingConstants DEF RegisterAgent
    <3>2. QED
      BY <3>1 DEF OldAreDropped
  <2>2. TellsEntries /\ DropsTold
    <3>1. CASE pool = 0
      BY <1>3, <3>1, NothingTold DEF RegisterAgent
    <3>2. CASE pool # 0
      <4>1. pool \in Conns /\ Drain(pool)
        BY <1>0, <1>3, <3>2, RoutingConstants DEF RegisterAgent, Conns
      <4>2. QED
        BY <4>1, DrainTells
    <3>3. QED
      BY <3>1, <3>2
  <2>3. made <= made'
    BY <1>0, <1>3, RoutingConstants DEF RegisterAgent
  <2>4. routing'[made + 1] = {} /\ made + 1 \in Conns
    <3>1. made + 1 \in Conns /\ ~(made + 1 <= made)
      BY <1>0, <1>3, RoutingConstants DEF RegisterAgent, Conns
    <3>2. routing[made + 1] = {}
      BY <1>0, <3>1 DEF IdsAllocated, Entries
    <3>3. QED
      BY <2>2, <3>1, <3>2 DEF DropsTold
  <2>5. \A k \in Conns : k = pool' => k = pool \/ routing'[k] = {}
    BY <1>3, <2>4 DEF RegisterAgent
  <2>6. \A k \in Conns : parser'[k] = "done" => parser[k] = "done" \/ routing'[k] = {}
    BY <1>0, <1>3 DEF RegisterAgent, TypeOK
  <2>7. QED
    BY <1>1, <1>3, <2>1, <2>2, <2>3, <2>5, <2>6, SideStep DEF RegisterAgent, clientVars
<1>4. CASE RemoveAgent
  <2>1. OldAreDropped'
    BY <1>0, <1>4 DEF OldAreDropped, RemoveAgent
  <2>2. TellsEntries /\ DropsTold
    BY <1>4, NothingTold DEF RemoveAgent
  <2>3. made <= made' /\ \A k \in Conns : k # pool'
    BY <1>0, <1>4, RoutingConstants DEF RemoveAgent, Conns
  <2>4. QED
    BY <1>1, <1>4, <2>1, <2>2, <2>3, SideStep DEF RemoveAgent, clientVars
<1>5. ASSUME NEW k \in Conns, ShutdownConn(k)
      PROVE  IInv'
  <2>1. OldAreDropped'
    BY <1>0, <1>5 DEF OldAreDropped, ShutdownConn
  <2>2. TellsEntries /\ DropsTold
    BY <1>5, DrainTells DEF ShutdownConn
  <2>3. made <= made'
    BY <1>0, <1>5, RoutingConstants DEF ShutdownConn
  <2>4. QED
    BY <1>1, <1>5, <2>1, <2>2, <2>3, SideStep DEF ShutdownConn, clientVars
<1>6. QED
  BY <1>2, <1>3, <1>4, <1>5

LEMMA ConnectionStep ==
    ASSUME IInv, TypeOK', NEW k \in Conns,
           Driver(k) \/ Parser(k) \/ AgentSays(k) \/ ChannelCloses(k)
    PROVE  IInv'
<1> USE DEF clientVars
<1>0. /\ TypeOK /\ OldAreDropped /\ IdsAllocated /\ IdMeansRequest /\ CommandKept
      /\ made \in 0 .. MaxConns /\ agent[k] \subseteq Entry
      /\ pipe[k] \in Seq(Entry) /\ writer[k] \in Seq(Message)
  BY DEF IInv, TypeOK
<1>1. /\ made' = made /\ pool' = pool /\ dropped' = dropped /\ nextId' = nextId
      /\ cmd' = cmd /\ handles' = handles /\ open' = open /\ issued' = issued /\ lost' = lost
  BY DEF Driver, Parser, DriverWrites, DriverDropsPipe, DriverReturns, ParserRoutes,
         ParserEnds, AgentSays, ChannelCloses
<1>2. OldAreDropped'
  BY <1>0, <1>1 DEF OldAreDropped
<1>3. made <= made'
  BY <1>0, <1>1, RoutingConstants
<1>4. \A l \in Conns \ {k} : agent'[l] = agent[l] /\ pipe'[l] = pipe[l] /\ writer'[l] = writer[l]
  <2>1. CASE DriverWrites(k)
    BY <1>0, <2>1 DEF DriverWrites, TypeOK
  <2>2. CASE AgentSays(k)
    BY <1>0, <2>2 DEF AgentSays, TypeOK
  <2>3. CASE ChannelCloses(k)
    BY <1>0, <2>3 DEF ChannelCloses, TypeOK
  <2>4. CASE DriverDropsPipe(k) \/ DriverReturns(k) \/ ParserRoutes(k) \/ ParserEnds(k)
    BY <1>0, <2>4 DEF DriverDropsPipe, DriverReturns, ParserRoutes, ParserEnds, TypeOK
  <2>5. QED
    BY <2>1, <2>2, <2>3, <2>4 DEF Driver, Parser
<1>5. ASSUME Driver(k) \/ AgentSays(k) \/ ChannelCloses(k), SentTo(k)' \subseteq SentTo(k)
      PROVE  IInv'
  <2>1. routing' = routing /\ log' = log /\ parser' = parser
    BY <1>5 DEF Driver, DriverWrites, DriverDropsPipe, DriverReturns, AgentSays, ChannelCloses
  <2>2. TellsEntries /\ DropsTold
    BY <2>1, NothingTold
  <2>3. \A l \in Conns : SentTo(l)' \subseteq SentTo(l)
    BY <1>4, <1>5, OthersSentTo
  <2>4. QED
    BY <1>1, <1>2, <1>3, <2>1, <2>2, <2>3, SideStep
<1>6. CASE DriverWrites(k)
  <2> DEFINE m == Head(writer[k])
  <2>1. writer[k] # <<>> /\ writer'[k] = Tail(writer[k]) /\ pipe'[k] = pipe[k]
        /\ agent'[k] \subseteq agent[k] \cup
              (IF m.op = "request" THEN {[id |-> m.id, req |-> m.req]} ELSE {})
    BY <1>0, <1>6 DEF DriverWrites, TypeOK
  <2>2. /\ Len(writer[k]) \in Nat \ {0} /\ m = writer[k][1]
        /\ Len(writer'[k]) = Len(writer[k]) - 1
        /\ \A i \in 1 .. Len(writer'[k]) : writer'[k][i] = writer[k][i + 1]
    BY <1>0, <2>1, HeadTailProperties, EmptySeq
  <2>3. m.op = "request" => [id |-> m.id, req |-> m.req] \in SentTo(k)
    BY <2>2 DEF SentTo
  <2>4. ASSUME NEW i \in 1 .. Len(writer'[k]), writer'[k][i].op = "request"
        PROVE  [id |-> writer'[k][i].id, req |-> writer'[k][i].req] \in SentTo(k)
    <3>1. i + 1 \in 1 .. Len(writer[k]) /\ writer'[k][i] = writer[k][i + 1]
      BY <2>2, <2>4
    <3>2. QED
      BY <2>4, <3>1 DEF SentTo
  <2>5. agent[k] \subseteq SentTo(k) /\ \A i \in 1 .. Len(pipe[k]) : pipe[k][i] \in SentTo(k)
    BY DEF SentTo
  <2>6. SentTo(k)' \subseteq SentTo(k)
    <3>1. agent'[k] \subseteq SentTo(k)
      <4> HIDE DEF m
      <4>1. QED
        BY <2>1, <2>3, <2>5
    <3>2. SentTo(k)' = agent'[k] \cup {pipe'[k][i] : i \in 1 .. Len(pipe'[k])}
             \cup {[id |-> writer'[k][i].id, req |-> writer'[k][i].req] :
                      i \in {j \in 1 .. Len(writer'[k]) : writer'[k][j].op = "request"}}
      BY DEF SentTo
    <3>3. QED
      BY <2>1, <2>4, <2>5, <3>1, <3>2
  <2>7. QED
    BY <1>5, <1>6, <2>6 DEF Driver
<1>7. CASE DriverDropsPipe(k)
  <2>1. SentTo(k)' = SentTo(k)
    BY <1>7 DEF DriverDropsPipe, SentTo
  <2>2. QED
    BY <1>5, <1>7, <2>1 DEF Driver
<1>8. CASE DriverReturns(k)
  <2>1. writer'[k] = <<>> /\ agent'[k] = agent[k] /\ pipe'[k] = pipe[k]
    BY <1>0, <1>8 DEF DriverReturns, TypeOK
  <2>2. SentTo(k)' \subseteq SentTo(k)
    BY <2>1 DEF SentTo
  <2>3. QED
    BY <1>5, <1>8, <2>2 DEF Driver
<1>9. CASE AgentSays(k)
  <2>1. PICK e \in agent[k] :
           /\ pipe' = [pipe EXCEPT ![k] = Append(pipe[k], e)]
           /\ agent' = [agent EXCEPT ![k] = IF e.req \in Actions THEN agent[k] \ {e}
                                            ELSE agent[k]]
    BY <1>9 DEF AgentSays
  <2>2. writer' = writer /\ pipe'[k] = Append(pipe[k], e) /\ agent'[k] \subseteq agent[k]
    BY <1>0, <1>9, <2>1 DEF AgentSays, TypeOK
  <2>3. e \in Entry
    BY <1>0
  <2>4. /\ Len(pipe'[k]) = Len(pipe[k]) + 1 /\ Len(pipe[k]) \in Nat
        /\ pipe'[k][Len(pipe[k]) + 1] = e
        /\ \A i \in 1 .. Len(pipe[k]) : pipe'[k][i] = pipe[k][i]
    BY <1>0, <2>2, <2>3, AppendProperties
  <2>5. \A i \in 1 .. Len(pipe'[k]) :
           pipe'[k][i] = e \/ \E j \in 1 .. Len(pipe[k]) : pipe'[k][i] = pipe[k][j]
    BY <2>4
  <2>6. SentTo(k)' \subseteq SentTo(k)
    BY <2>2, <2>5 DEF SentTo
  <2>7. QED
    BY <1>5, <1>9, <2>6
<1>10. CASE ChannelCloses(k)
  <2>1. PICK n \in 0 .. Len(pipe[k]) : pipe' = [pipe EXCEPT ![k] = SubSeq(pipe[k], 1, n)]
    BY <1>10 DEF ChannelCloses
  <2>2. writer' = writer /\ agent'[k] = {} /\ pipe'[k] = SubSeq(pipe[k], 1, n)
    BY <1>0, <1>10, <2>1 DEF ChannelCloses, TypeOK
  <2>3. \A i \in 1 .. n : pipe[k][i] \in Entry
    BY <1>0
  <2>4. Len(pipe'[k]) = n /\ \A i \in 1 .. n : pipe'[k][i] = pipe[k][i]
    BY <1>0, <2>2, <2>3, SubSeqProperties
  <2>5. \A i \in 1 .. Len(pipe'[k]) : \E j \in 1 .. Len(pipe[k]) : pipe'[k][i] = pipe[k][j]
    BY <1>0, <2>4
  <2>6. SentTo(k)' \subseteq SentTo(k)
    BY <2>2, <2>5 DEF SentTo
  <2>7. QED
    BY <1>5, <1>10, <2>6
<1>11. CASE ParserEnds(k)
  <2>1. TellsEntries /\ DropsTold /\ routing'[k] = {}
    BY <1>11, DrainTells DEF ParserEnds
  <2>2. \A l \in Conns : parser'[l] = "done" => parser[l] = "done" \/ routing'[l] = {}
    BY <1>0, <1>11, <2>1 DEF ParserEnds, TypeOK
  <2>3. \A l \in Conns : SentTo(l)' \subseteq SentTo(l)
    BY <1>11, SameSentTo DEF ParserEnds
  <2>4. QED
    BY <1>1, <1>2, <1>3, <2>1, <2>2, <2>3, SideStep
<1>12. CASE ParserRoutes(k)
  <2> DEFINE m == Head(pipe[k])
             hit == {e \in routing[k] : e.id = m.id}
             x == [kind |-> IF m.req \in Actions THEN "result" ELSE "event", from |-> m.req]
  <2>1. /\ pipe[k] # <<>> /\ pipe'[k] = Tail(pipe[k]) /\ writer' = writer /\ agent' = agent
        /\ parser' = parser
    BY <1>0, <1>12 DEF ParserRoutes, TypeOK
  <2>2. /\ Len(pipe[k]) \in Nat \ {0} /\ m = pipe[k][1]
        /\ Len(pipe'[k]) = Len(pipe[k]) - 1
        /\ \A i \in 1 .. Len(pipe'[k]) : pipe'[k][i] = pipe[k][i + 1]
    BY <1>0, <2>1, HeadTailProperties, EmptySeq
  <2>3. \A i \in 1 .. Len(pipe'[k]) : \E j \in 1 .. Len(pipe[k]) : pipe'[k][i] = pipe[k][j]
    BY <2>2
  <2>4. SentTo(k)' \subseteq SentTo(k)
    BY <2>1, <2>3 DEF SentTo
  <2>5. \A l \in Conns : SentTo(l)' \subseteq SentTo(l)
    BY <1>4, <2>4, OthersSentTo
  <2>6. m \in SentTo(k) /\ m \in Entry
    BY <1>0, <2>2 DEF SentTo
  <2>7. \A e \in hit : e = m
    BY <1>0, <2>6 DEF IdMeansRequest, Entries
  <2>8. ~Underway(m.req)
    <3>1. m.req \in Reqs /\ Owner[m.req] \in Clients
      BY <2>6, RoutingConstants DEF Entry
    <3>2. QED
      BY <1>0, <2>6, <3>1 DEF CommandKept, Underway
  <2>9. x \in Answer /\ x.from = m.req /\ x.kind \in {"result", "event"}
        /\ (x.kind = "result" <=> m.req \in Actions)
    BY <2>6 DEF Answer, Entry
  <2>10. /\ \A l \in Conns \ {k} : routing'[l] = routing[l]
         /\ routing'[k] = IF m.req \in Actions THEN routing[k] \ hit ELSE routing[k]
    BY <1>0, <1>12 DEF ParserRoutes, TypeOK
  <2>11. \A r \in Reqs :
            IF r = m.req /\ hit # {} THEN log'[r] = Append(log[r], x) ELSE log'[r] = log[r]
    <3>1. \A r \in Reqs :
             log'[r] = IF \E e \in (IF m.req \in Actions THEN {e \in hit : e.req \in Actions}
                                    ELSE hit) : e.req = r
                       THEN Append(log[r], x) ELSE log[r]
      BY <1>12 DEF ParserRoutes
    <3> DEFINE sees == IF m.req \in Actions THEN {e \in hit : e.req \in Actions} ELSE hit
    <3>2. \A r \in Reqs : (\E e \in sees : e.req = r) <=> r = m.req /\ hit # {}
      <4> HIDE DEF m, hit, x
      <4>1. QED
        BY <2>7
    <3> HIDE DEF m, hit, x, sees
    <3>3. \A r \in Reqs :
             log'[r] = IF \E e \in sees : e.req = r THEN Append(log[r], x) ELSE log[r]
      BY <3>1 DEF sees
    <3>4. QED
      BY <3>2, <3>3
  <2>12. TellsEntries
    <3>1. ASSUME NEW r \in Reqs, log'[r] # log[r]
          PROVE  \E e \in routing[k] : \E y \in Answer :
                    /\ e.req = r /\ (r \in Actions => e \notin routing'[k])
                    /\ log'[r] = Append(log[r], y) /\ y.from = r
                    /\ y.kind = "result" => ~Underway(r)
      <4>1. r = m.req /\ hit # {} /\ log'[r] = Append(log[r], x)
        BY <2>11, <3>1
      <4>2. m \in hit /\ m \in routing[k]
        <5> HIDE DEF m
        <5>1. QED
          BY <2>7, <4>1
      <4> HIDE DEF m, hit, x
      <4>3. r \in Actions => m \notin routing'[k]
        BY <2>10, <4>1, <4>2
      <4>4. QED
        BY <2>8, <2>9, <4>1, <4>2, <4>3
    <3>2. QED
      BY <3>1 DEF TellsEntries
  <2>13. DropsTold
    <3>1. ASSUME NEW e \in routing[k] \ routing'[k]
          PROVE  Told(e.req)'
      <4>1. e = m /\ m.req \in Actions /\ hit # {} /\ m.req \in Reqs
        <5>1. e \in hit /\ m.req \in Actions
          BY <2>10, <3>1
        <5> HIDE DEF m, hit
        <5>2. QED
          BY <2>6, <2>7, <5>1 DEF Entry
      <4>2. log'[m.req] = Append(log[m.req], x) /\ log[m.req] \in Seq(Answer)
        BY <1>0, <2>11, <4>1 DEF TypeOK
      <4> HIDE DEF m, hit, x
      <4>3. Len(log'[m.req]) = Len(log[m.req]) + 1 /\ Len(log[m.req]) \in Nat
            /\ log'[m.req][Len(log[m.req]) + 1] = x
        BY <2>9, <4>2, OneMore
      <4>4. Len(log[m.req]) + 1 \in 1 .. Len(log'[m.req])
        BY <4>3
      <4>5. QED
        BY <2>9, <4>1, <4>3, <4>4 DEF Told
    <3> HIDE DEF hit, m
    <3>2. QED
      BY <2>10, <3>1 DEF DropsTold
  <2> HIDE DEF m, hit, x
  <2>14. QED
    BY <1>1, <1>2, <1>3, <2>1, <2>5, <2>12, <2>13, SideStep
<1>13. QED
  BY <1>6, <1>7, <1>8, <1>9, <1>10, <1>11, <1>12 DEF Driver, Parser

-----------------------------------------------------------------------------
(* The steps of client sessions.                                           *)

LEMMA ReleaseEffect ==
    ASSUME IInv, NEW hs \in SUBSET Entry, Release(hs), agent' = agent, pipe' = pipe
    PROVE  /\ \A k \in Conns : routing'[k] \subseteq routing[k]
           /\ \A k \in Conns : \A e \in routing[k] \ routing'[k] :
                 \E h \in hs : h.id = e.id /\ (h.req = e.req \/ e.req \in lost')
           /\ \A k \in Conns : k = pool => \A e \in routing'[k] : \A h \in hs : h.id # e.id
           /\ lost \subseteq lost'
           /\ \A k \in Conns : SentTo(k)' \subseteq SentTo(k)
<1>0. /\ TypeOK /\ pool \in 0 .. made /\ made \in 0 .. MaxConns
      /\ routing \in [Conns -> SUBSET Entry] /\ writer \in [Conns -> Seq(Message)]
  BY DEF IInv, TypeOK
<1>1. CASE pool = 0
  <2>1. routing' = routing /\ writer' = writer /\ lost' = lost /\ \A k \in Conns : k # pool
    BY <1>1, RoutingConstants DEF Release, Conns
  <2>2. QED
    BY <2>1, SameSentTo
<1>2. ASSUME NEW p \in Conns, p = pool, p # 0
      PROVE  /\ \A k \in Conns : routing'[k] \subseteq routing[k]
             /\ \A k \in Conns : \A e \in routing[k] \ routing'[k] :
                   \E h \in hs : h.id = e.id /\ (h.req = e.req \/ e.req \in lost')
             /\ \A k \in Conns : k = pool => \A e \in routing'[k] : \A h \in hs : h.id # e.id
             /\ lost \subseteq lost'
             /\ \A k \in Conns : SentTo(k)' \subseteq SentTo(k)
  <2> DEFINE ids == {h.id : h \in hs}
             m == [op |-> "unsubscribe", ids |-> ids]
  <2>1. /\ lost' = lost \cup {e.req : e \in {f \in routing[p] :
                                               \E h \in hs : h.id = f.id /\ h.req # f.req}}
        /\ routing' = [routing EXCEPT ![p] = {e \in routing[p] : e.id \notin ids}]
        /\ writer' = writer \/ writer' = [writer EXCEPT ![p] = Append(writer[p], m)]
    BY <1>2 DEF Release
  <2>2. /\ routing'[p] = {e \in routing[p] : e.id \notin ids}
        /\ \A k \in Conns \ {p} : routing'[k] = routing[k]
    BY <1>0, <2>1
  <2>3. SentTo(p)' \subseteq SentTo(p)
    <3>1. CASE writer' = writer
      BY <3>1, SameSentTo
    <3>2. CASE writer' = [writer EXCEPT ![p] = Append(writer[p], m)]
      <4>1. writer'[p] = Append(writer[p], m) /\ writer[p] \in Seq(Message)
        BY <1>0, <3>2
      <4>2. m \in Message /\ m.op # "request"
        BY DEF Message, Entry
      <4> HIDE DEF m
      <4>3. /\ Len(writer'[p]) = Len(writer[p]) + 1 /\ Len(writer[p]) \in Nat
            /\ writer'[p][Len(writer[p]) + 1] = m
            /\ \A i \in 1 .. Len(writer[p]) : writer'[p][i] = writer[p][i]
        BY <4>1, <4>2, AppendProperties
      <4>4. \A i \in 1 .. Len(writer'[p]) : writer'[p][i].op = "request" =>
               i \in 1 .. Len(writer[p]) /\ writer'[p][i] = writer[p][i]
        BY <4>2, <4>3
      <4>5. agent'[p] = agent[p] /\ pipe'[p] = pipe[p]
        OBVIOUS
      <4>6. QED
        BY <4>4, <4>5 DEF SentTo
    <3>3. QED
      BY <2>1, <3>1, <3>2
  <2>4. \A k \in Conns \ {p} :
           agent'[k] = agent[k] /\ pipe'[k] = pipe[k] /\ writer'[k] = writer[k]
    BY <1>0, <2>1
  <2>5. \A k \in Conns : SentTo(k)' \subseteq SentTo(k)
    BY <2>3, <2>4, OthersSentTo
  <2>6. \A e \in routing[p] \ routing'[p] :
           \E h \in hs : h.id = e.id /\ (h.req = e.req \/ e.req \in lost')
    BY <2>1, <2>2
  <2>7. QED
    BY <1>2, <2>1, <2>2, <2>5, <2>6
<1>3. pool # 0 => pool \in Conns
  BY <1>0, RoutingConstants DEF Conns
<1>4. QED
  BY <1>1, <1>2, <1>3

\* Unsubscribe and the disconnect of a client: its handles hs go, and what they name.
LEMMA TeardownStep ==
    ASSUME IInv, TypeOK', NEW c \in Clients, cmd[c] = Idle,
           NEW hs \in SUBSET handles[c], Release(hs),
           handles' = [handles EXCEPT ![c] = handles[c] \ hs],
           \/ open' = open
           \/ open' = [open EXCEPT ![c] = FALSE] /\ hs = handles[c],
           UNCHANGED <<pool, connVars, nextId, cmd, issued, log>>
    PROVE  IInv'
<1> DEFINE ReleaseFacts ==
              /\ \A k \in Conns : routing'[k] \subseteq routing[k]
              /\ \A k \in Conns : \A e \in routing[k] \ routing'[k] :
                    \E h \in hs : h.id = e.id /\ (h.req = e.req \/ e.req \in lost')
              /\ \A k \in Conns : k = pool => \A e \in routing'[k] : \A h \in hs : h.id # e.id
              /\ lost \subseteq lost'
              /\ \A k \in Conns : SentTo(k)' \subseteq SentTo(k)
<1>0. /\ TypeOK /\ IdsAllocated /\ IdMeansRequest /\ RequestHasOneId /\ HandlesKept
      /\ \A k \in Conns : routing[k] \subseteq Entry
      /\ handles \in [Clients -> SUBSET Entry] /\ open \in [Clients -> BOOLEAN]
      /\ hs \in SUBSET Entry
  BY DEF IInv, TypeOK
<1>1. ReleaseFacts
  BY <1>0, ReleaseEffect DEF connVars
<1>2. /\ agent' = agent /\ pipe' = pipe /\ made' = made /\ parser' = parser
      /\ dropped' = dropped /\ pool' = pool /\ nextId' = nextId /\ cmd' = cmd
      /\ issued' = issued /\ log' = log
  BY DEF connVars
<1>3. /\ handles'[c] = handles[c] \ hs
      /\ \A d \in Clients \ {c} : handles'[d] = handles[d] /\ open'[d] = open[d]
      /\ (handles'[c] = {} /\ hs = handles[c]) \/ open'[c] = open[c]
  BY <1>0
<1>4. \A k \in Conns : Entries(k)' \subseteq Entries(k)
  BY <1>1, <1>2 DEF Entries, Sending
<1>5. IdsAllocated' /\ IdMeansRequest' /\ RequestHasOneId'
  <2>1. made <= made'
    BY <1>0, <1>2, RoutingConstants DEF TypeOK
  <2>2. QED
    BY <1>0, <1>2, <1>4, <2>1, EntriesShrink
<1>6. RightAddressee' /\ ToldAreIssued' /\ OldAreDropped'
  BY <1>2 DEF IInv, RightAddressee, ToldAreIssued, OldAreDropped
<1>7. \A r \in Reqs : (Told(r)' <=> Told(r)) /\ (Underway(r)' <=> Underway(r))
  BY <1>2 DEF Told, Underway
<1>8. CommandKept'
  <2>1. SUFFICES ASSUME NEW d \in Clients, cmd[d] # Idle
                 PROVE  /\ open'[d] /\ cmd[d].req \in issued /\ Owner[cmd[d].req] = d
                        /\ cmd[d].conn <= made
                        /\ \A h \in handles'[d] : h.req # cmd[d].req
                        /\ \A k \in Conns : \A e \in SentTo(k)' : e.req # cmd[d].req
                        /\ cmd[d].step = "register" =>
                              /\ log[cmd[d].req] = <<>>
                              /\ \A k \in Conns : \A e \in Entries(k)' : e.req # cmd[d].req
    BY <1>2 DEF CommandKept
  <2>2. d # c /\ open'[d] = open[d] /\ handles'[d] = handles[d]
    BY <1>3, <2>1
  <2>3. QED
    BY <1>1, <1>4, <2>1, <2>2 DEF IInv, CommandKept
<1>9. ForwardKept'
  <2>1. SUFFICES ASSUME NEW d \in Clients, cmd[d].step = "forward", cmd[d].req \notin lost'
                 PROVE  \/ Told(cmd[d].req)
                        \/ [id |-> cmd[d].id, req |-> cmd[d].req] \in routing'[cmd[d].conn]
    <3>1. ASSUME NEW d \in Clients, cmd[d].step = "forward"
          PROVE  Told(cmd[d].req)' <=> Told(cmd[d].req)
      BY <1>0, <1>7, <3>1, CommandShape DEF Idle
    <3>2. QED
      BY <1>2, <3>1 DEF ForwardKept
  <2>2. cmd[d].req \in Reqs /\ cmd[d].conn \in Conns /\ cmd[d] # Idle
    BY <1>0, <2>1, CommandShape DEF Idle
  <2>3. Owner[cmd[d].req] = d /\ d # c
    BY <2>2 DEF IInv, CommandKept
  <2>4. CASE [id |-> cmd[d].id, req |-> cmd[d].req] \in routing[cmd[d].conn]
    <3> DEFINE e == [id |-> cmd[d].id, req |-> cmd[d].req]
    <3>1. \A h \in hs : h.req # e.req
      BY <2>3 DEF IInv, HandlesKept
    <3> HIDE DEF e
    <3>2. e \in routing[cmd[d].conn] /\ e.req = cmd[d].req
      BY <2>4 DEF e
    <3>3. e \in routing'[cmd[d].conn]
      BY <1>1, <2>1, <2>2, <3>1, <3>2
    <3>4. QED
      BY <3>3 DEF e
  <2>5. QED
    BY <1>1, <2>1, <2>4 DEF IInv, ForwardKept
<1>10. HandlesKept'
  <2>1. \A d \in Clients : handles'[d] \subseteq handles[d]
    BY <1>3
  <2>2. QED
    BY <1>0, <1>2, <2>1 DEF HandlesKept
<1>11. PooledHaveHandles'
  <2>1. SUFFICES ASSUME NEW k \in Conns, NEW e \in routing'[k],
                        k = pool, e.req \in Subs, ~Underway(e.req)
                 PROVE  [req |-> e.req, id |-> e.id] \in handles'[Owner[e.req]]
    <3>1. \A r \in Subs : Underway(r)' <=> Underway(r)
      BY <1>7 DEF Reqs
    <3>2. QED
      BY <1>2, <3>1 DEF PooledHaveHandles
  <2>2. e \in routing[k] /\ \A h \in hs : h.id # e.id
    BY <1>1, <2>1
  <2>3. [req |-> e.req, id |-> e.id] \in handles[Owner[e.req]]
    BY <2>1, <2>2 DEF IInv, PooledHaveHandles
  <2>4. [req |-> e.req, id |-> e.id] \notin hs
    BY <2>2
  <2>5. Owner[e.req] \in Clients
    BY <2>1, RoutingConstants DEF Reqs
  <2>6. QED
    BY <1>3, <2>3, <2>4, <2>5
<1>12. GoneNotPooled'
  <2>1. SUFFICES ASSUME NEW k \in Conns, NEW e \in routing'[k], k = pool, e.req \in Subs
                 PROVE  open'[Owner[e.req]]
    BY <1>2 DEF GoneNotPooled
  <2>2. e \in routing[k] /\ \A h \in hs : h.id # e.id
    BY <1>1, <2>1
  <2>3. open[Owner[e.req]] /\ Owner[e.req] \in Clients /\ e.req \in Reqs
    BY <2>1, <2>2, RoutingConstants DEF IInv, GoneNotPooled, Reqs
  <2>4. CASE Owner[e.req] # c
    BY <1>3, <2>3, <2>4
  <2>5. CASE Owner[e.req] = c
    <3>1. ~Underway(e.req)
      BY <2>5 DEF Underway
    <3>2. [req |-> e.req, id |-> e.id] \in handles[c]
      BY <2>1, <2>2, <2>5, <3>1 DEF IInv, PooledHaveHandles
    <3>3. [req |-> e.req, id |-> e.id] \notin hs
      BY <2>2
    <3>4. QED
      BY <1>3, <2>3, <2>5, <3>2, <3>3
  <2>6. QED
    BY <2>4, <2>5
<1>13. ActionsToldOnce'
  <2>1. \A a \in Actions : Underway(a)' <=> Underway(a)
    BY <1>7 DEF Reqs
  <2>2. QED
    BY <1>1, <1>2, <2>1 DEF IInv, ActionsToldOnce
<1>14. DrainedAreLost'
  BY <1>1, <1>2 DEF IInv, DrainedAreLost, Underway
<1>15. NoneForgotten'
  <2>1. SUFFICES ASSUME NEW r \in issued \ lost', ~Underway(r), ~Told(r), ~Withdrawn(r)'
                 PROVE  \E k \in Conns : \E e \in routing'[k] : e.req = r
    <3>1. \A r \in issued : (Told(r)' <=> Told(r)) /\ (Underway(r)' <=> Underway(r))
      BY <1>0, <1>7 DEF TypeOK
    <3>2. QED
      BY <1>2, <3>1 DEF NoneForgotten
  <2>2. r \in Reqs /\ Owner[r] \in Clients /\ r \notin lost
    BY <1>0, <1>1, RoutingConstants DEF TypeOK
  <2>3. r \in Subs => \E h \in handles'[Owner[r]] : h.req = r
    BY <1>7, <2>1, <2>2 DEF Withdrawn
  <2>4. ~Withdrawn(r)
    BY <1>3, <2>2, <2>3 DEF Withdrawn
  <2>5. PICK k \in Conns : \E e \in routing[k] : e.req = r
    BY <2>1, <2>2, <2>4 DEF IInv, NoneForgotten
  <2>6. PICK e \in routing[k] : e.req = r
    BY <2>5
  <2>7. \A h \in hs : h.req # r
    <3>1. SUFFICES ASSUME NEW h \in hs, h.req = r
                   PROVE  FALSE
      OBVIOUS
    <3>2. r \in Subs /\ Owner[r] = c
      BY <1>0, <3>1 DEF HandlesKept
    <3>3. PICK g \in handles'[c] : g.req = r
      BY <2>3, <3>2
    <3>4. g \in handles[c] /\ g \notin hs /\ h \in handles[c]
      BY <1>3
    <3>5. QED
      BY <1>0, <3>1, <3>3, <3>4 DEF HandlesKept
  <2>8. e \in routing'[k]
    BY <1>1, <2>1, <2>6, <2>7
  <2>9. QED
    BY <2>6, <2>8
<1>16. QED
  BY <1>5, <1>6, <1>8, <1>9, <1>10, <1>11, <1>12, <1>13, <1>14, <1>15 DEF IInv

\* A request is refused at once, or a session goes on with it.
LEMMA RouteStep ==
    ASSUME IInv, TypeOK', NEW r \in Reqs, Route(r)
    PROVE  IInv'
<1> DEFINE c == Owner[r]
           v == [step |-> "register", req |-> r, conn |-> pool]
<1>0. /\ TypeOK /\ IdsAllocated /\ IdMeansRequest /\ RequestHasOneId /\ CommandKept
      /\ cmd \in [Clients -> Command] /\ log \in [Reqs -> Seq(Answer)] /\ issued \subseteq Reqs
      /\ pool \in 0 .. made /\ made \in Int /\ c \in Clients
  BY RoutingConstants DEF IInv, TypeOK
<1>1. /\ pool' = pool /\ made' = made /\ parser' = parser /\ dropped' = dropped
      /\ agent' = agent /\ pipe' = pipe /\ writer' = writer /\ nextId' = nextId
      /\ routing' = routing /\ handles' = handles /\ open' = open /\ lost' = lost
      /\ open[c] /\ cmd[c] = Idle /\ r \notin issued /\ issued' = issued \cup {r}
  BY DEF Route, connVars
<1>2. \/ cmd' = cmd /\ log' = [log EXCEPT ![r] = Append(log[r], Unavailable(r))]
      \/ cmd' = [cmd EXCEPT ![c] = v] /\ log' = log
  BY DEF Route, Tell
<1>3. \A d \in Clients \ {c} : cmd'[d] = cmd[d]
  BY <1>0, <1>2
<1>4. /\ cmd'[c] = Idle \/ cmd'[c] = v
      /\ cmd'[c] = Idle => cmd' = cmd /\ log' = [log EXCEPT ![r] = Append(log[r], Unavailable(r))]
      /\ cmd'[c] # Idle => log' = log
      /\ v # Idle
  BY <1>0, <1>1, <1>2 DEF Idle
<1>5. /\ \A k \in Conns : SentTo(k)' = SentTo(k)
      /\ \A k \in Conns : Sending(k)' = Sending(k)
  <2>1. \A k \in Conns : SentTo(k)' = SentTo(k)
    BY <1>1 DEF SentTo
  <2>2. \A d \in Clients : cmd'[d].step = "forward" \/ cmd[d].step = "forward" => cmd'[d] = cmd[d]
    BY <1>1, <1>3, <1>4 DEF Idle
  <2>3. \A k \in Conns : Sending(k)' = Sending(k)
    BY <2>2 DEF Sending
  <2>4. QED
    BY <2>1, <2>3
<1>6. \A k \in Conns : Entries(k)' = Entries(k)
  BY <1>1, <1>5 DEF Entries
<1>7. IdsAllocated' /\ IdMeansRequest' /\ RequestHasOneId'
  BY <1>0, <1>1, <1>6, EntriesShrink
<1>8. /\ \A k \in Conns : \A e \in Entries(k) : e.req # r
      /\ \A d \in Clients : \A h \in handles[d] : h.req # r
      /\ log[r] = <<>>
  BY <1>0, <1>1 DEF IdsAllocated, IInv, HandlesKept, ToldAreIssued
<1>9. /\ \A q \in Reqs \ {r} : log'[q] = log[q]
      /\ cmd'[c] = Idle => log'[r] = Append(log[r], Unavailable(r))
      /\ cmd'[c] # Idle => log'[r] = log[r]
  BY <1>0, <1>4
<1>10. /\ Unavailable(r) \in Answer /\ Unavailable(r).from = r
       /\ Unavailable(r).kind = "unavailable"
  BY DEF Unavailable, Answer
<1>11. cmd'[c] = Idle => Len(log'[r]) = 1 /\ log'[r][1] = Unavailable(r)
  <2> DEFINE s == log[r]
             t == Append(s, Unavailable(r))
  <2>1. Len(s) = 0
    BY <1>8
  <2>2. Len(t) = Len(s) + 1 /\ t[Len(s) + 1] = Unavailable(r)
    BY <1>0, <1>10, OneMore
  <2>3. cmd'[c] = Idle => log'[r] = t
    BY <1>9
  <2> HIDE DEF s, t
  <2>4. Len(t) = 1 /\ t[1] = Unavailable(r)
    BY <2>1, <2>2
  <2>5. QED
    BY <2>3, <2>4
<1>12. \A q \in Reqs \ {r} : (Told(q)' <=> Told(q)) /\ (Underway(q)' <=> Underway(q))
  <2>1. ASSUME NEW q \in Reqs, q # r
        PROVE  Underway(q)' <=> Underway(q)
    <3>1. Owner[q] \in Clients /\ v.req = r
      BY RoutingConstants
    <3> HIDE DEF v
    <3>2. QED
      BY <1>1, <1>3, <1>4, <2>1, <3>1 DEF Underway
  <2>2. \A q \in Reqs \ {r} : Told(q)' <=> Told(q)
    BY <1>9 DEF Told
  <2>3. QED
    BY <2>1, <2>2
<1>13. Underway(r)' \/ Told(r)'
  <2>1. CASE cmd'[c] = Idle
    BY <1>10, <1>11, <2>1 DEF Told
  <2>2. CASE cmd'[c] = v
    BY <1>4, <2>2 DEF Underway
  <2>3. QED
    BY <1>4, <2>1, <2>2
<1>14. RightAddressee'
  <2>1. \A i \in 1 .. Len(log'[r]) : log'[r][i].from = r
    <3>1. CASE cmd'[c] = Idle
      BY <1>10, <1>11, <3>1
    <3>2. CASE cmd'[c] # Idle
      BY <1>9, <3>2 DEF IInv, RightAddressee
    <3>3. QED
      BY <3>1, <3>2
  <2>2. QED
    BY <1>9, <2>1 DEF IInv, RightAddressee
<1>15. CommandKept'
  <2>1. SUFFICES ASSUME NEW d \in Clients, cmd'[d] # Idle
                 PROVE  /\ open[d] /\ cmd'[d].req \in issued' /\ Owner[cmd'[d].req] = d
                        /\ cmd'[d].conn <= made
                        /\ \A h \in handles[d] : h.req # cmd'[d].req
                        /\ \A k \in Conns : \A e \in SentTo(k) : e.req # cmd'[d].req
                        /\ cmd'[d].step = "register" =>
                              /\ log'[cmd'[d].req] = <<>>
                              /\ \A k \in Conns : \A e \in Entries(k) : e.req # cmd'[d].req
    BY <1>1, <1>5, <1>6 DEF CommandKept
  <2>2. CASE d = c
    <3>1. /\ cmd'[d] = v /\ v.req = r /\ v.conn = pool
          /\ pool <= made /\ open[d] /\ r \in issued' /\ log'[r] = <<>>
      BY <1>0, <1>1, <1>4, <1>8, <1>9, <2>1, <2>2
    <3>2. \A k \in Conns : \A e \in SentTo(k) : e.req # r
      BY <1>8 DEF Entries
    <3> HIDE DEF v
    <3>3. QED
      BY <1>8, <2>2, <3>1, <3>2
  <2>3. CASE d # c
    <3>1. cmd'[d] = cmd[d] /\ cmd[d].req \in issued
      BY <1>0, <1>3, <2>1, <2>3 DEF CommandKept
    <3>2. log'[cmd[d].req] = log[cmd[d].req]
      BY <1>0, <1>1, <1>9, <3>1
    <3>3. QED
      BY <1>0, <1>1, <2>1, <3>1, <3>2 DEF CommandKept
  <2>4. QED
    BY <2>2, <2>3
<1>16. ForwardKept'
  <2>1. SUFFICES ASSUME NEW d \in Clients, cmd'[d].step = "forward",
                        NEW q, q = cmd'[d].req, q \notin lost
                 PROVE  Told(q)' \/ [id |-> cmd'[d].id, req |-> q] \in routing[cmd'[d].conn]
    BY <1>1 DEF ForwardKept, Told
  <2>2. d # c /\ cmd'[d] = cmd[d] /\ cmd[d] # Idle
    BY <1>3, <1>4, <2>1 DEF Idle
  <2>3. q \in Reqs /\ q # r /\ q = cmd[d].req
    BY <1>0, <1>1, <2>1, <2>2 DEF CommandKept
  <2>4. Told(q)' <=> Told(q)
    BY <1>12, <2>3
  <2>5. QED
    BY <2>1, <2>2, <2>3, <2>4 DEF IInv, ForwardKept
<1>17. HandlesKept'
  BY <1>1 DEF IInv, HandlesKept
<1>18. PooledHaveHandles' /\ GoneNotPooled'
  <2>1. \A k \in Conns : \A e \in routing[k] : e.req # r
    BY <1>8 DEF Entries
  <2>2. \A q \in Subs : q # r => (Underway(q)' <=> Underway(q))
    BY <1>12 DEF Reqs
  <2>3. QED
    BY <1>1, <2>1, <2>2 DEF IInv, PooledHaveHandles, GoneNotPooled
<1>19. ActionsToldOnce'
  <2>1. \A k \in Conns : \A e \in routing[k] : e.req # r
    BY <1>8 DEF Entries
  <2>2. \A k \in Conns : \A e \in routing'[k] : e.req \in Actions => log'[e.req] = <<>>
    BY <1>1, <1>9, <2>1 DEF IInv, ActionsToldOnce, Reqs
  <2>3. ASSUME NEW a \in Actions, NEW i \in 1 .. Len(log'[a]), log'[a][i].kind = "result"
        PROVE  Len(log'[a]) = 1 /\ ~Underway(a)'
    <3>1. CASE a = r
      <4>1. CASE cmd'[c] = Idle
        BY <1>10, <1>11, <2>3, <3>1, <4>1
      <4>2. CASE cmd'[c] # Idle
        BY <1>8, <1>9, <2>3, <3>1, <4>2
      <4>3. QED
        BY <4>1, <4>2
    <3>2. CASE a # r
      <4>1. log'[a] = log[a] /\ (Underway(a)' <=> Underway(a))
        BY <1>9, <1>12, <3>2 DEF Reqs
      <4>2. QED
        BY <2>3, <4>1 DEF IInv, ActionsToldOnce
    <3>3. QED
      BY <3>1, <3>2
  <2>4. QED
    BY <2>2, <2>3 DEF ActionsToldOnce
<1>20. ToldAreIssued'
  BY <1>1, <1>9 DEF IInv, ToldAreIssued
<1>21. DrainedAreLost' /\ OldAreDropped'
  <2>1. \A k \in Conns : \A e \in routing[k] : e.req \in Reqs /\ e.req # r
    BY <1>0, <1>1 DEF IdsAllocated, Entries, TypeOK
  <2>2. DrainedAreLost'
    BY <1>1, <1>12, <2>1 DEF IInv, DrainedAreLost
  <2>3. QED
    BY <1>1, <2>2 DEF IInv, OldAreDropped
<1>22. NoneForgotten'
  <2>1. \A q \in issued : q \in Reqs /\ q # r
    BY <1>0, <1>1
  <2>2. \A q \in Reqs \ {r} : Withdrawn(q)' <=> Withdrawn(q)
    BY <1>1, <1>12 DEF Withdrawn
  <2>3. QED
    BY <1>1, <1>12, <1>13, <2>1, <2>2 DEF IInv, NoneForgotten
<1>23. QED
  BY <1>7, <1>14, <1>15, <1>16, <1>17, <1>18, <1>19, <1>20, <1>21, <1>22 DEF IInv

\* alloc_id gives the request an id that nothing on its connection has.
LEMMA RegisterStep ==
    ASSUME IInv, TypeOK', NEW c \in Clients, Register(c)
    PROVE  IInv'
<1> DEFINE r == cmd[c].req
           k == cmd[c].conn
           n == nextId[k]
           e0 == [id |-> n, req |-> r]
           u == [step |-> "forward", req |-> r, conn |-> k, id |-> n]
<1>0. /\ TypeOK /\ IdsAllocated /\ IdMeansRequest /\ RequestHasOneId /\ CommandKept
      /\ cmd \in [Clients -> Command] /\ nextId \in [Conns -> Nat]
      /\ routing \in [Conns -> SUBSET Entry] /\ made \in Int
  BY RoutingConstants DEF IInv, TypeOK
<1>1. cmd[c].step = "register" /\ cmd[c] # Idle
  BY DEF Register, Idle
<1>2. /\ r \in Reqs /\ k \in Conns /\ n \in Nat /\ r \in issued /\ k <= made
      /\ open[c] /\ Owner[r] = c /\ log[r] = <<>>
      /\ \A h \in handles[c] : h.req # r
      /\ \A l \in Conns : \A e \in Entries(l) : e.req # r
  BY <1>0, <1>1, CommandShape DEF CommandKept
<1>3. /\ nextId' = [nextId EXCEPT ![k] = n + 1]
      /\ routing' = [routing EXCEPT ![k] = routing[k] \cup {e0}]
      /\ cmd' = [cmd EXCEPT ![c] = u]
      /\ lost' = lost
  BY DEF Register
<1>4. /\ pool' = pool /\ made' = made /\ parser' = parser /\ dropped' = dropped
      /\ agent' = agent /\ pipe' = pipe /\ writer' = writer
      /\ handles' = handles /\ open' = open /\ issued' = issued /\ log' = log
  BY DEF Register, connVars
<1>5. /\ e0.id = n /\ e0.req = r /\ u # Idle
      /\ u.step = "forward" /\ u.req = r /\ u.conn = k /\ u.id = n
      /\ [req |-> e0.req, id |-> e0.id] = [req |-> r, id |-> n]
  BY DEF Idle
<1>6. e0 \in Entry
  BY <1>2 DEF Entry
<1>7. /\ [id |-> u.id, req |-> u.req] = e0
      /\ \A e \in Entry : e.id = n /\ e.req = r => e = e0
  BY DEF Entry
<1> HIDE DEF r, k, n, e0, u
<1>8. /\ cmd'[c] = u /\ \A d \in Clients \ {c} : cmd'[d] = cmd[d]
      /\ routing'[k] = routing[k] \cup {e0} /\ \A l \in Conns \ {k} : routing'[l] = routing[l]
      /\ nextId'[k] = n + 1 /\ \A l \in Conns \ {k} : nextId'[l] = nextId[l]
  BY <1>0, <1>2, <1>3
<1>9. \A l \in Conns : SentTo(l)' = SentTo(l)
  BY <1>4 DEF SentTo
<1>10. \A l \in Conns :
          Sending(l)' \subseteq Sending(l) \cup {e0} /\ (l # k => Sending(l)' \subseteq Sending(l))
  <2>1. SUFFICES ASSUME NEW l \in Conns, NEW d \in Clients,
                        cmd'[d].step = "forward", cmd'[d].conn = l
                 PROVE  \/ [id |-> cmd'[d].id, req |-> cmd'[d].req] \in Sending(l)
                        \/ [id |-> cmd'[d].id, req |-> cmd'[d].req] = e0 /\ l = k
    BY DEF Sending
  <2>2. CASE d = c
    BY <1>5, <1>7, <1>8, <2>1, <2>2
  <2>3. CASE d # c
    BY <1>8, <2>1, <2>3 DEF Sending
  <2>4. QED
    BY <2>2, <2>3
<1>11. /\ \A l \in Conns : Entries(l)' \subseteq Entries(l) \cup {e0}
       /\ \A l \in Conns : l # k => Entries(l)' \subseteq Entries(l)
  BY <1>8, <1>9, <1>10 DEF Entries
<1>12. \A l \in Conns : Entries(l) \subseteq Entry /\ \A e \in Entries(l) : e.id \in Nat
  <2>1. \A l \in Conns : Entries(l) \subseteq Entry
    BY <1>0, EntriesType
  <2>2. QED
    BY <2>1 DEF Entry
<1>13. \A e \in Entries(k) : e.id < n
  BY <1>0, <1>2 DEF IdsAllocated, n
<1>14. IdsAllocated'
  <2>1. SUFFICES ASSUME NEW l \in Conns, NEW e \in Entries(l)'
                 PROVE  e.id < nextId'[l] /\ e.req \in issued /\ l <= made
    BY <1>4 DEF IdsAllocated
  <2>2. CASE e \in Entries(l)
    <3>1. e.id < nextId[l] /\ e.req \in issued /\ l <= made /\ e.id \in Nat
      BY <1>0, <1>12, <2>2 DEF IdsAllocated
    <3>2. CASE l = k
      BY <1>2, <1>8, <1>13, <2>2, <3>1, <3>2
    <3>3. CASE l # k
      BY <1>8, <3>1, <3>3
    <3>4. QED
      BY <3>2, <3>3
  <2>3. CASE e = e0 /\ l = k
    BY <1>2, <1>5, <1>8, <2>3
  <2>4. QED
    BY <1>11, <2>1, <2>2, <2>3
<1>15. IdMeansRequest'
  <2>1. SUFFICES ASSUME NEW l \in Conns, NEW e \in Entries(l)', NEW f \in Entries(l)', e.id = f.id
                 PROVE  e = f
    BY DEF IdMeansRequest
  <2>2. CASE e \in Entries(l) /\ f \in Entries(l)
    BY <1>0, <2>1, <2>2 DEF IdMeansRequest
  <2>3. CASE e = e0 /\ f = e0
    BY <2>3
  <2>4. CASE l = k /\ ((e = e0 /\ f \in Entries(l)) \/ (f = e0 /\ e \in Entries(l)))
    <3>1. \A g \in Entries(k) : g.id # n
      BY <1>2, <1>12, <1>13
    <3>2. QED
      BY <1>5, <2>1, <2>4, <3>1
  <2>5. e \in Entries(l) \/ (e = e0 /\ l = k)
    BY <1>11
  <2>6. f \in Entries(l) \/ (f = e0 /\ l = k)
    BY <1>11
  <2>7. QED
    BY <2>2, <2>3, <2>4, <2>5, <2>6
<1>16. RequestHasOneId'
  <2>1. SUFFICES ASSUME NEW l \in Conns, NEW m \in Conns,
                        NEW e \in Entries(l)', NEW f \in Entries(m)', e.req = f.req
                 PROVE  l = m /\ e = f
    BY DEF RequestHasOneId
  <2>2. CASE e \in Entries(l) /\ f \in Entries(m)
    BY <1>0, <2>1, <2>2 DEF RequestHasOneId
  <2>3. CASE e = e0 /\ l = k /\ f = e0 /\ m = k
    BY <2>3
  <2>4. CASE (e = e0 /\ f \in Entries(m)) \/ (f = e0 /\ e \in Entries(l))
    BY <1>2, <1>5, <2>1, <2>4
  <2>5. e \in Entries(l) \/ (e = e0 /\ l = k)
    BY <1>11
  <2>6. f \in Entries(m) \/ (f = e0 /\ m = k)
    BY <1>11
  <2>7. QED
    BY <2>2, <2>3, <2>4, <2>5, <2>6
<1>17. RightAddressee' /\ ToldAreIssued' /\ HandlesKept' /\ OldAreDropped'
  BY <1>4 DEF IInv, RightAddressee, ToldAreIssued, HandlesKept, OldAreDropped
<1>18. \A q \in Reqs : (Told(q)' <=> Told(q)) /\ (Underway(q)' <=> Underway(q))
  <2>1. ASSUME NEW q \in Reqs
        PROVE  Underway(q)' <=> Underway(q)
    <3>1. Owner[q] \in Clients /\ cmd[c].req = r
      BY <2>1, RoutingConstants DEF r
    <3>2. QED
      BY <1>1, <1>5, <1>8, <3>1 DEF Underway
  <2>2. QED
    BY <1>4, <2>1 DEF Told
<1>19. CommandKept'
  <2>1. SUFFICES ASSUME NEW d \in Clients, cmd'[d] # Idle
                 PROVE  /\ open[d] /\ cmd'[d].req \in issued /\ Owner[cmd'[d].req] = d
                        /\ cmd'[d].conn <= made
                        /\ \A h \in handles[d] : h.req # cmd'[d].req
                        /\ \A l \in Conns : \A e \in SentTo(l) : e.req # cmd'[d].req
                        /\ cmd'[d].step = "register" =>
                              /\ log[cmd'[d].req] = <<>>
                              /\ \A l \in Conns : \A e \in Entries(l)' : e.req # cmd'[d].req
    BY <1>4, <1>9 DEF CommandKept
  <2>2. CASE d = c
    <3>1. \A l \in Conns : \A e \in SentTo(l) : e.req # r
      BY <1>2 DEF Entries
    <3>2. QED
      BY <1>2, <1>5, <1>8, <2>2, <3>1
  <2>3. CASE d # c
    <3>1. cmd'[d] = cmd[d] /\ Owner[cmd[d].req] = d /\ cmd[d].req # r
      BY <1>0, <1>2, <1>8, <2>1, <2>3 DEF CommandKept
    <3>2. \A l \in Conns : \A e \in Entries(l)' : e \in Entries(l) \/ e.req # cmd[d].req
      BY <1>5, <1>11, <3>1
    <3>3. QED
      BY <1>0, <2>1, <3>1, <3>2 DEF CommandKept
  <2>4. QED
    BY <2>2, <2>3
<1>20. ForwardKept'
  <2>1. SUFFICES ASSUME NEW d \in Clients, cmd'[d].step = "forward",
                        NEW q, q = cmd'[d].req, q \notin lost'
                 PROVE  Told(q)' \/ [id |-> cmd'[d].id, req |-> q] \in routing'[cmd'[d].conn]
    BY DEF ForwardKept, Told
  <2>2. CASE d = c
    BY <1>5, <1>7, <1>8, <2>1, <2>2
  <2>3. CASE d # c
    <3>1. cmd'[d] = cmd[d] /\ cmd[d] # Idle /\ q \notin lost
      BY <1>3, <1>8, <2>1, <2>3 DEF Idle
    <3>2. q \in Reqs /\ cmd[d].conn \in Conns
      BY <1>0, <2>1, <3>1, CommandShape
    <3>3. Told(q)' <=> Told(q)
      BY <1>18, <3>2
    <3>4. QED
      BY <1>8, <2>1, <3>1, <3>2, <3>3 DEF IInv, ForwardKept
  <2>4. QED
    BY <2>2, <2>3
<1>21. PooledHaveHandles' /\ GoneNotPooled'
  <2>1. Underway(r) /\ open[Owner[r]]
    BY <1>1, <1>2 DEF Underway, r
  <2>2. \A l \in Conns : \A e \in routing'[l] : e \in routing[l] \/ e = e0
    BY <1>8
  <2>3. \A q \in Subs : Underway(q)' <=> Underway(q)
    BY <1>18 DEF Reqs
  <2>4. QED
    BY <1>4, <1>5, <2>1, <2>2, <2>3 DEF IInv, PooledHaveHandles, GoneNotPooled
<1>22. ActionsToldOnce'
  <2>1. \A l \in Conns : \A e \in routing'[l] : e \in routing[l] \/ e = e0
    BY <1>8
  <2>2. \A q \in Actions : Underway(q)' <=> Underway(q)
    BY <1>18 DEF Reqs
  <2>3. QED
    BY <1>2, <1>4, <1>5, <2>1, <2>2 DEF IInv, ActionsToldOnce
<1>23. DrainedAreLost'
  <2>1. Underway(r)
    BY <1>1, <1>2 DEF Underway, r
  <2>2. \A l \in Conns : \A e \in routing'[l] : e \in routing[l] \/ e = e0
    BY <1>8
  <2>3. \A l \in Conns : \A e \in routing[l] : e.req \in Reqs
    BY <1>0 DEF Entry
  <2>4. QED
    BY <1>2, <1>3, <1>4, <1>5, <1>18, <2>1, <2>2, <2>3 DEF IInv, DrainedAreLost
<1>24. NoneForgotten'
  <2>1. \A q \in issued : q \in Reqs
    BY <1>0 DEF TypeOK
  <2>2. \A q \in Reqs : Withdrawn(q)' <=> Withdrawn(q)
    BY <1>4, <1>18 DEF Withdrawn
  <2>3. \A l \in Conns : routing[l] \subseteq routing'[l]
    BY <1>8
  <2>4. QED
    BY <1>3, <1>4, <1>18, <2>1, <2>2, <2>3 DEF IInv, NoneForgotten
<1>25. QED
  BY <1>14, <1>15, <1>16, <1>17, <1>19, <1>20, <1>21, <1>22, <1>23, <1>24 DEF IInv

\* The writer takes the request, or the entry goes and the client is told.
LEMMA ForwardStep ==
    ASSUME IInv, TypeOK', NEW c \in Clients, Forward(c)
    PROVE  IInv'
<1>0. /\ TypeOK /\ IdsAllocated /\ IdMeansRequest /\ RequestHasOneId /\ CommandKept /\ HandlesKept
      /\ cmd \in [Clients -> Command] /\ writer \in [Conns -> Seq(Message)]
      /\ handles \in [Clients -> SUBSET Entry] /\ log \in [Reqs -> Seq(Answer)]
      /\ routing \in [Conns -> SUBSET Entry] /\ made \in Int
  BY RoutingConstants DEF IInv, TypeOK
<1>1. cmd[c].step = "forward" /\ cmd[c] # Idle
  BY DEF Forward, Idle
<1>2. PICK r \in Reqs, k \in Conns, n \in Nat :
         /\ cmd[c].req = r /\ cmd[c].conn = k /\ cmd[c].id = n
         /\ r \in issued /\ open[c] /\ Owner[r] = c /\ \A h \in handles[c] : h.req # r
         /\ \A l \in Conns : \A e \in SentTo(l) : e.req # r
  BY <1>0, <1>1, CommandShape DEF CommandKept
<1> DEFINE e0 == [id |-> n, req |-> r]
           h0 == [req |-> r, id |-> n]
           m == [op |-> "request", id |-> n, req |-> r]
<1>3. /\ pool' = pool /\ made' = made /\ parser' = parser /\ dropped' = dropped
      /\ agent' = agent /\ pipe' = pipe /\ nextId' = nextId
      /\ open' = open /\ issued' = issued
  BY DEF Forward, connVars
<1>4. cmd'[c] = Idle /\ \A d \in Clients \ {c} : cmd'[d] = cmd[d]
  BY <1>0 DEF Forward
<1>5. /\ e0 \in Entry /\ e0.id = n /\ e0.req = r /\ e0 \in Sending(k) /\ e0 \in Entries(k)
      /\ \A e \in Entry : e.id = n /\ e.req = r => e = e0
  BY <1>1, <1>2 DEF Entry, Sending, Entries
<1>6. /\ h0.req = r /\ h0.id = n
      /\ m \in Message /\ m.op = "request" /\ m.id = n /\ m.req = r
      /\ [id |-> m.id, req |-> m.req] = e0
      /\ \A e \in Entry : e = e0 => [req |-> e.req, id |-> e.id] = h0
  BY <1>2 DEF Message
<1>7. \/ /\ writer' = [writer EXCEPT ![k] = Append(writer[k], m)]
         /\ handles' = IF r \in Actions THEN handles
                       ELSE [handles EXCEPT ![c] = handles[c] \cup {h0}]
         /\ routing' = routing /\ log' = log
      \/ /\ routing' = [routing EXCEPT ![k] = {e \in routing[k] : e.id # n}]
         /\ log' = [log EXCEPT ![r] = Append(log[r], Unavailable(r))]
         /\ writer' = writer /\ handles' = handles
  BY <1>2 DEF Forward, Tell
<1>31. /\ lost' = lost \/ lost' = lost \cup {r}
       /\ routing' = routing /\ e0 \in routing[k] /\ parser[k] = "done"
             => r \in lost' \/ routing' = [routing EXCEPT ![k] = {e \in routing[k] : e.id # n}]
  BY <1>2 DEF Forward
<1> HIDE DEF e0, h0, m
\* In both cases the session lets go of the request, and nothing new is known of it.
<1>8. \A l \in Conns : Sending(l)' \subseteq Sending(l)
  BY <1>4 DEF Sending, Idle
<1>9. \A l \in Conns :
         SentTo(l)' \subseteq SentTo(l) \/ (l = k /\ SentTo(l)' \subseteq SentTo(l) \cup {e0})
  <2>1. CASE writer' = writer
    BY <1>3, <2>1, SameSentTo
  <2>2. CASE writer' = [writer EXCEPT ![k] = Append(writer[k], m)]
    <3>1. writer'[k] = Append(writer[k], m) /\ \A l \in Conns \ {k} : writer'[l] = writer[l]
      BY <1>0, <1>2, <2>2
    <3>2. /\ Len(writer'[k]) = Len(writer[k]) + 1 /\ Len(writer[k]) \in Nat
          /\ writer'[k][Len(writer[k]) + 1] = m
          /\ \A i \in 1 .. Len(writer[k]) : writer'[k][i] = writer[k][i]
      <4>1. writer[k] \in Seq(Message)
        BY <1>0, <1>2
      <4>2. QED
        BY <1>6, <3>1, <4>1, AppendProperties
    <3>3. \A i \in 1 .. Len(writer'[k]) :
             writer'[k][i] = m \/ (i \in 1 .. Len(writer[k]) /\ writer'[k][i] = writer[k][i])
      BY <3>2
    <3>4. SentTo(k)' \subseteq SentTo(k) \cup {e0}
      <4>1. ASSUME NEW i \in 1 .. Len(writer'[k]), writer'[k][i].op = "request"
            PROVE  [id |-> writer'[k][i].id, req |-> writer'[k][i].req] \in SentTo(k) \cup {e0}
        <5>1. CASE writer'[k][i] = m
          BY <1>6, <5>1
        <5>2. CASE i \in 1 .. Len(writer[k]) /\ writer'[k][i] = writer[k][i]
          BY <4>1, <5>2 DEF SentTo
        <5>3. QED
          BY <3>3, <4>1, <5>1, <5>2
      <4>2. agent[k] \subseteq SentTo(k) /\ \A i \in 1 .. Len(pipe[k]) : pipe[k][i] \in SentTo(k)
        BY DEF SentTo
      <4>3. SentTo(k)' = agent'[k] \cup {pipe'[k][i] : i \in 1 .. Len(pipe'[k])}
               \cup {[id |-> writer'[k][i].id, req |-> writer'[k][i].req] :
                        i \in {j \in 1 .. Len(writer'[k]) : writer'[k][j].op = "request"}}
        BY DEF SentTo
      <4>4. QED
        BY <1>3, <4>1, <4>2, <4>3
    <3>5. ASSUME NEW l \in Conns, l # k
          PROVE  SentTo(l)' = SentTo(l)
      <4>1. agent'[l] = agent[l] /\ pipe'[l] = pipe[l] /\ writer'[l] = writer[l]
        BY <1>3, <3>1, <3>5
      <4>2. QED
        BY <4>1 DEF SentTo
    <3>6. QED
      BY <3>4, <3>5
  <2>3. QED
    BY <1>7, <2>1, <2>2
<1>10. \A l \in Conns : routing'[l] \subseteq routing[l] /\ (l # k => routing'[l] = routing[l])
  BY <1>0, <1>7
<1>11. \A l \in Conns : Entries(l)' \subseteq Entries(l)
  <2>1. ASSUME NEW l \in Conns
        PROVE  SentTo(l)' \subseteq Entries(l)
    BY <1>5, <1>9 DEF Entries
  <2>2. QED
    BY <1>8, <1>10, <2>1 DEF Entries
<1>12. IdsAllocated' /\ IdMeansRequest' /\ RequestHasOneId'
  BY <1>0, <1>3, <1>11, EntriesShrink
\* The entries of the request are this one.
<1>13. \A l \in Conns : \A e \in Entries(l) : e.req = r => l = k /\ e = e0
  BY <1>0, <1>2, <1>5 DEF RequestHasOneId
<1>14. \A e \in Entries(k) : e.id = n => e = e0
  BY <1>0, <1>2, <1>5 DEF IdMeansRequest
\* Refused, the request keeps no entry and has been told; nobody else is.
<1>15. \/ routing' = routing /\ log' = log
       \/ /\ \A l \in Conns : routing'[l] = routing[l] \ {e0}
          /\ handles' = handles
          /\ \A q \in Reqs \ {r} : log'[q] = log[q]
          /\ log'[r] = Append(log[r], Unavailable(r))
  <2>1. CASE routing' = [routing EXCEPT ![k] = {e \in routing[k] : e.id # n}]
             /\ log' = [log EXCEPT ![r] = Append(log[r], Unavailable(r))] /\ handles' = handles
    <3>1. routing'[k] = {e \in routing[k] : e.id # n}
          /\ \A l \in Conns \ {k} : routing'[l] = routing[l]
      BY <1>0, <1>2, <2>1
    <3>2. routing'[k] = routing[k] \ {e0}
      BY <1>5, <1>14, <3>1 DEF Entries
    <3>3. \A l \in Conns \ {k} : e0 \notin routing[l]
      BY <1>5, <1>13 DEF Entries
    <3>4. \A l \in Conns : routing'[l] = routing[l] \ {e0}
      BY <3>1, <3>2, <3>3
    <3>5. log'[r] = Append(log[r], Unavailable(r)) /\ \A q \in Reqs \ {r} : log'[q] = log[q]
      BY <1>0, <1>2, <2>1
    <3>6. QED
      BY <2>1, <3>4, <3>5
  <2>2. QED
    BY <1>7, <2>1
<1>16. /\ Unavailable(r) \in Answer /\ Unavailable(r).from = r
       /\ Unavailable(r).kind = "unavailable"
  BY <1>2 DEF Unavailable, Answer
<1>17. /\ \A q \in Reqs : Told(q) => Told(q)'
       /\ log'[r] # log[r] => Told(r)'
  <2>1. \A q \in Reqs : log'[q] = log[q] => (Told(q) => Told(q)')
    BY DEF Told
  <2>2. log'[r] = log[r] \/ log'[r] = Append(log[r], Unavailable(r))
    BY <1>15
  <2>3. (Told(r) => Told(r)') /\ (log'[r] # log[r] => Told(r)')
    BY <1>0, <1>2, <1>16, <2>2, ToldStays
  <2>4. \A q \in Reqs \ {r} : log'[q] = log[q]
    BY <1>15
  <2>5. QED
    BY <2>1, <2>3, <2>4
<1>18. /\ \A q \in Reqs \ {r} : Underway(q)' <=> Underway(q)
       /\ Underway(r) /\ ~Underway(r)'
  <2>1. cmd[c].req = r
    BY <1>2
  <2>2. ASSUME NEW q \in Reqs, q # r
        PROVE  Underway(q)' <=> Underway(q)
    BY <1>1, <1>4, <2>1, <2>2, RoutingConstants DEF Underway
  <2>3. QED
    BY <1>1, <1>2, <1>4, <2>1, <2>2 DEF Underway
<1>19. /\ \A d \in Clients : handles[d] \subseteq handles'[d]
       /\ \A d \in Clients : d # c => handles'[d] = handles[d]
       /\ \A h \in handles'[c] : h \in handles[c] \/ (h = h0 /\ r \in Subs)
  <2>1. \/ handles' = handles
        \/ handles' = [handles EXCEPT ![c] = handles[c] \cup {h0}] /\ r \in Subs
    BY <1>2, <1>7 DEF Reqs
  <2>2. QED
    BY <1>0, <2>1
<1>20. RightAddressee'
  <2>1. \A i \in 1 .. Len(log'[r]) : log'[r][i].from = r
    <3>1. CASE log'[r] = log[r]
      BY <1>2, <3>1 DEF IInv, RightAddressee
    <3>2. CASE log'[r] = Append(log[r], Unavailable(r))
      <4> DEFINE s == log[r]
                 t == Append(s, Unavailable(r))
      <4>1. /\ Len(t) = Len(s) + 1 /\ Len(s) \in Nat /\ t[Len(s) + 1] = Unavailable(r)
            /\ \A i \in 1 .. Len(s) : t[i] = s[i]
        BY <1>0, <1>2, <1>16, OneMore
      <4>2. \A i \in 1 .. Len(s) : s[i].from = r
        BY <1>2 DEF IInv, RightAddressee
      <4>3. log'[r] = t
        BY <3>2
      <4> HIDE DEF s, t
      <4>4. QED
        BY <1>16, <4>1, <4>2, <4>3
    <3>3. QED
      BY <1>15, <3>1, <3>2
  <2>2. \A q \in Reqs \ {r} : log'[q] = log[q]
    BY <1>15
  <2>3. QED
    BY <2>1, <2>2 DEF IInv, RightAddressee
<1>21. CommandKept'
  <2>1. SUFFICES ASSUME NEW d \in Clients, cmd'[d] # Idle
                 PROVE  /\ open[d] /\ cmd'[d].req \in issued /\ Owner[cmd'[d].req] = d
                        /\ cmd'[d].conn <= made
                        /\ \A h \in handles'[d] : h.req # cmd'[d].req
                        /\ \A l \in Conns : \A e \in SentTo(l)' : e.req # cmd'[d].req
                        /\ cmd'[d].step = "register" =>
                              /\ log'[cmd'[d].req] = <<>>
                              /\ \A l \in Conns : \A e \in Entries(l)' : e.req # cmd'[d].req
    BY <1>3 DEF CommandKept
  <2>2. d # c /\ cmd'[d] = cmd[d] /\ cmd[d] # Idle /\ handles'[d] = handles[d]
    BY <1>4, <1>19, <2>1
  <2>3. cmd[d].req \in Reqs /\ cmd[d].req # r
    BY <1>0, <1>2, <2>2, CommandShape DEF CommandKept
  <2>4. log'[cmd[d].req] = log[cmd[d].req]
    BY <1>15, <2>3
  <2>5. \A l \in Conns : \A e \in SentTo(l)' : e \in SentTo(l) \/ e.req # cmd[d].req
    BY <1>5, <1>9, <2>3
  <2>6. QED
    BY <1>0, <1>11, <2>2, <2>4, <2>5 DEF CommandKept
<1>22. ForwardKept'
  <2>1. SUFFICES ASSUME NEW d \in Clients, cmd'[d].step = "forward",
                        NEW q, q = cmd'[d].req, q \notin lost
                 PROVE  Told(q)' \/ [id |-> cmd'[d].id, req |-> q] \in routing'[cmd'[d].conn]
    BY <1>31 DEF ForwardKept, Told
  <2>2. d # c /\ cmd'[d] = cmd[d] /\ cmd[d] # Idle
    BY <1>4, <2>1 DEF Idle
  <2>3. q \in Reqs /\ q # r /\ cmd[d].conn \in Conns
    BY <1>0, <1>2, <2>1, <2>2, CommandShape DEF CommandKept
  <2>4. [id |-> cmd[d].id, req |-> q] # e0
    BY <1>5, <2>3
  <2>5. QED
    BY <1>15, <1>17, <2>1, <2>2, <2>3, <2>4 DEF IInv, ForwardKept
<1>23. HandlesKept'
  <2>1. ASSUME NEW d \in Clients
        PROVE  /\ \A h \in handles'[d] : h.req \in Subs /\ Owner[h.req] = d /\ h.req \in issued
               /\ \A g, h \in handles'[d] : g.req = h.req => g = h
    <3>1. CASE d = c
      BY <1>0, <1>2, <1>6, <1>19, <3>1 DEF HandlesKept
    <3>2. CASE d # c
      BY <1>0, <1>19, <3>2 DEF HandlesKept
    <3>3. QED
      BY <3>1, <3>2
  <2>2. QED
    BY <1>3, <2>1 DEF HandlesKept
<1>24. r \in Subs /\ log' = log => h0 \in handles'[c]
  <2>1. SUFFICES ASSUME r \in Subs, log' = log
                 PROVE  h0 \in handles'[c]
    OBVIOUS
  <2>2. log[r] # Append(log[r], Unavailable(r))
    <3> DEFINE s == log[r]
               t == Append(s, Unavailable(r))
    <3>1. Len(t) = Len(s) + 1 /\ Len(s) \in Nat
      BY <1>0, <1>2, <1>16, OneMore
    <3>2. t # s
      BY <3>1
    <3>3. QED
      BY <3>2
  <2>3. log' # [log EXCEPT ![r] = Append(log[r], Unavailable(r))]
    BY <1>0, <1>2, <2>1, <2>2
  <2>4. r \notin Actions
    BY <2>1, RoutingConstants
  <2>5. handles' = [handles EXCEPT ![c] = handles[c] \cup {h0}]
    BY <1>7, <2>3, <2>4
  <2>6. QED
    BY <1>0, <2>5
<1>25. PooledHaveHandles'
  <2>1. SUFFICES ASSUME NEW l \in Conns, NEW e \in routing'[l],
                        l = pool, e.req \in Subs, ~Underway(e.req)'
                 PROVE  [req |-> e.req, id |-> e.id] \in handles'[Owner[e.req]]
    <3>1. \A l \in Conns : \A e \in routing'[l] : Underway(e.req)' <=> (Underway(e.req))'
      OBVIOUS
    <3>2. QED
      BY <1>3 DEF PooledHaveHandles, Underway
  <2>2. e \in routing[l] /\ e.req \in Reqs /\ Owner[e.req] \in Clients /\ e \in Entry
    BY <1>0, <1>10, <2>1, RoutingConstants DEF Reqs
  <2>3. CASE e.req = r
    <3>1. e = e0
      BY <1>13, <2>2, <2>3 DEF Entries
    <3>2. log' = log
      BY <1>7, <1>15, <2>1, <3>1
    <3>3. QED
      BY <1>2, <1>6, <1>24, <2>1, <2>2, <2>3, <3>1, <3>2
  <2>4. CASE e.req # r
    <3>1. ~Underway(e.req)
      BY <1>18, <2>1, <2>2, <2>4
    <3>2. [req |-> e.req, id |-> e.id] \in handles[Owner[e.req]]
      BY <2>1, <2>2, <3>1 DEF IInv, PooledHaveHandles
    <3>3. QED
      BY <1>19, <2>2, <3>2
  <2>5. QED
    BY <2>3, <2>4
<1>26. GoneNotPooled'
  BY <1>3, <1>10 DEF IInv, GoneNotPooled
<1>27. ActionsToldOnce'
  <2>1. ASSUME NEW l \in Conns, NEW e \in routing'[l], e.req \in Actions
        PROVE  log'[e.req] = <<>>
    <3>1. e \in routing[l] /\ log[e.req] = <<>> /\ e.req \in Reqs
      BY <1>10, <2>1 DEF IInv, ActionsToldOnce, Reqs
    <3>2. CASE routing' = routing /\ log' = log
      BY <3>1, <3>2
    <3>3. CASE \A j \in Conns : routing'[j] = routing[j] \ {e0}
      <4>1. e.req # r
        BY <1>13, <2>1, <3>1, <3>3 DEF Entries
      <4>2. QED
        BY <1>15, <3>1, <4>1
    <3>4. QED
      BY <1>15, <3>2, <3>3
  <2>2. ASSUME NEW a \in Actions, NEW i \in 1 .. Len(log'[a]), log'[a][i].kind = "result"
        PROVE  Len(log'[a]) = 1 /\ ~Underway(a)'
    <3>1. a \in Reqs /\ (Underway(a)' => Underway(a))
      BY <1>18 DEF Reqs
    <3>2. CASE log'[a] = log[a]
      BY <2>2, <3>1, <3>2 DEF IInv, ActionsToldOnce
    <3>3. CASE a = r /\ log'[r] = Append(log[r], Unavailable(r))
      <4> DEFINE s == log[r]
                 t == Append(s, Unavailable(r))
      <4>1. /\ Len(t) = Len(s) + 1 /\ Len(s) \in Nat /\ t[Len(s) + 1] = Unavailable(r)
            /\ \A j \in 1 .. Len(s) : t[j] = s[j]
        BY <1>0, <1>2, <1>16, OneMore
      <4>2. \A j \in 1 .. Len(s) : s[j].kind # "result"
        BY <1>18, <3>3 DEF IInv, ActionsToldOnce
      <4>3. i \in 1 .. Len(t) /\ t[i].kind = "result"
        BY <2>2, <3>3
      <4> HIDE DEF s, t
      <4>4. FALSE
        BY <1>16, <4>1, <4>2, <4>3
      <4>5. QED
        BY <4>4
    <3>4. QED
      BY <1>15, <3>1, <3>2, <3>3
  <2>3. QED
    BY <2>1, <2>2 DEF ActionsToldOnce
<1>28. ToldAreIssued'
  BY <1>2, <1>3, <1>15 DEF IInv, ToldAreIssued
<1>29. DrainedAreLost' /\ OldAreDropped'
  <2>1. SUFFICES ASSUME NEW l \in Conns, NEW e \in routing'[l], parser[l] = "done",
                        e.req \notin lost'
                 PROVE  Underway(e.req)'
    <3>1. OldAreDropped'
      BY <1>3 DEF IInv, OldAreDropped
    <3>2. ASSUME \A l \in Conns : \A e \in routing'[l] :
                    parser[l] = "done" /\ e.req \notin lost' => Underway(e.req)'
          PROVE  DrainedAreLost'
      BY <1>3, <3>2 DEF DrainedAreLost, Underway
    <3>3. QED
      BY <3>1, <3>2
  <2>2. e \in routing[l] /\ e.req \in Reqs /\ e.req \notin lost
    BY <1>0, <1>10, <1>31, <2>1 DEF Entry
  <2>3. Underway(e.req)
    BY <2>1, <2>2 DEF IInv, DrainedAreLost
  <2>4. e.req # r
    <3>1. SUFFICES ASSUME e.req = r
                   PROVE  FALSE
      OBVIOUS
    <3>2. l = k /\ e = e0
      BY <1>13, <2>2, <3>1 DEF Entries
    <3>3. routing' = [routing EXCEPT ![k] = {f \in routing[k] : f.id # n}]
      <4>1. CASE routing' = routing
        BY <1>31, <2>1, <2>2, <3>1, <3>2, <4>1
      <4>2. QED
        BY <1>7, <4>1
    <3>4. QED
      BY <1>0, <1>2, <1>5, <2>1, <3>2, <3>3
  <2>5. QED
    BY <1>18, <2>2, <2>3, <2>4
<1>30. NoneForgotten'
  <2>1. SUFFICES ASSUME NEW q \in issued \ lost
                 PROVE  \/ Underway(q)' \/ Told(q)' \/ Withdrawn(q)'
                        \/ \E l \in Conns : \E e \in routing'[l] : e.req = q
    BY <1>3, <1>31 DEF NoneForgotten
  <2>2. q \in Reqs /\ Owner[q] \in Clients
    BY <1>0, RoutingConstants DEF TypeOK
  <2>3. CASE q = r
    <3>1. Told(r) \/ e0 \in routing[k]
      BY <1>1, <1>2, <2>1, <2>3 DEF IInv, ForwardKept, e0
    <3>2. Told(r)' \/ e0 \in routing'[k]
      <4>1. CASE routing' = routing
        BY <1>2, <1>17, <3>1, <4>1
      <4>2. CASE log'[r] = Append(log[r], Unavailable(r))
        <5> DEFINE s == log[r]
                   t == Append(s, Unavailable(r))
        <5>1. Len(t) = Len(s) + 1 /\ Len(s) \in Nat
          BY <1>0, <1>2, <1>16, OneMore
        <5>2. t # s
          BY <5>1
        <5>3. QED
          BY <1>17, <4>2, <5>2
      <4>3. QED
        BY <1>15, <4>1, <4>2
    <3>3. QED
      BY <1>2, <1>5, <2>3, <3>2
  <2>4. CASE q # r
    <3>1. (Underway(q) => Underway(q)') /\ (Told(q) => Told(q)')
      BY <1>17, <1>18, <2>2, <2>4
    <3>2. Withdrawn(q) => Withdrawn(q)'
      <4>1. \A h \in handles'[Owner[q]] : h \in handles[Owner[q]] \/ h.req # q
        BY <1>6, <1>19, <2>2, <2>4
      <4>2. QED
        BY <1>18, <2>2, <2>4, <4>1 DEF Withdrawn
    <3>3. ASSUME NEW l \in Conns, NEW e \in routing[l], e.req = q
          PROVE  e \in routing'[l]
      BY <1>5, <1>15, <2>4, <3>3
    <3>4. QED
      BY <2>1, <3>1, <3>2, <3>3 DEF IInv, NoneForgotten
  <2>5. QED
    BY <2>3, <2>4
<1>32. QED
  BY <1>12, <1>20, <1>21, <1>22, <1>23, <1>25, <1>26, <1>27, <1>28, <1>29, <1>30 DEF IInv

-----------------------------------------------------------------------------
(* The theorems.                                                           *)

LEMMA InitIInv == Init => IInv
<1> SUFFICES ASSUME Init PROVE IInv
  OBVIOUS
<1>1. <<>> \in Seq(Message) /\ <<>> \in Seq(Entry) /\ <<>> \in Seq(Answer) /\ Idle \in Command
  BY DEF Idle, Command
<1>2. TypeOK
  BY <1>1, RoutingConstants DEF Init, TypeOK
<1>3. \A r \in Reqs : log[r] = <<>> /\ Len(log[r]) = 0
  BY DEF Init
<1>4. \A c \in Clients : cmd[c] = Idle /\ cmd[c].step = "idle"
  BY DEF Init, Idle
<1>5. \A k \in Conns : Entries(k) = {} /\ routing[k] = {}
  <2>1. \A k \in Conns : routing[k] = {} /\ agent[k] = {} /\ pipe[k] = <<>> /\ writer[k] = <<>>
    BY DEF Init
  <2>2. \A k \in Conns : SentTo(k) = {}
    <3>1. SUFFICES ASSUME NEW k \in Conns PROVE SentTo(k) = {}
      OBVIOUS
    <3>2. agent[k] = {} /\ Len(pipe[k]) = 0 /\ Len(writer[k]) = 0
      BY <2>1
    <3>3. QED
      BY <3>2 DEF SentTo
  <2>3. \A k \in Conns : Sending(k) = {}
    BY <1>4 DEF Sending
  <2>4. QED
    BY <2>1, <2>2, <2>3 DEF Entries
<1>6. RightAddressee /\ ToldAreIssued /\ ActionsToldOnce
  BY <1>3, <1>5 DEF RightAddressee, ToldAreIssued, ActionsToldOnce, Reqs
<1>7. IdsAllocated /\ IdMeansRequest /\ RequestHasOneId
  BY <1>5 DEF IdsAllocated, IdMeansRequest, RequestHasOneId
<1>8. CommandKept /\ ForwardKept
  BY <1>4 DEF CommandKept, ForwardKept
<1>9. HandlesKept /\ PooledHaveHandles /\ GoneNotPooled /\ DrainedAreLost
  BY <1>5 DEF Init, HandlesKept, PooledHaveHandles, GoneNotPooled, DrainedAreLost
<1>10. NoneForgotten /\ OldAreDropped
  BY DEF Init, NoneForgotten, OldAreDropped
<1>11. QED
  BY <1>2, <1>6, <1>7, <1>8, <1>9, <1>10 DEF IInv

LEMMA StepIInv == IInv /\ [Next]_vars => IInv'
<1> SUFFICES ASSUME IInv, [Next]_vars PROVE IInv'
  OBVIOUS
<1>1. TypeOK'
  BY StepTypeOK
<1>2. CASE Supervisor
  BY <1>1, <1>2, SupervisorStep DEF Supervisor
<1>3. ASSUME NEW k \in Conns, ShutdownConn(k)
      PROVE  IInv'
  BY <1>1, <1>3, SupervisorStep
<1>4. ASSUME NEW k \in Conns, Driver(k) \/ Parser(k) \/ AgentSays(k) \/ ChannelCloses(k)
      PROVE  IInv'
  BY <1>1, <1>4, ConnectionStep
<1>5. ASSUME NEW r \in Reqs, Route(r)
      PROVE  IInv'
  BY <1>1, <1>5, RouteStep
<1>6. ASSUME NEW c \in Clients, Routing(c)
      PROVE  IInv'
  BY <1>1, <1>6, RegisterStep, ForwardStep DEF Routing
<1>7. ASSUME NEW c \in Clients, Unsubscribe(c)
      PROVE  IInv'
  <2>1. PICK h \in handles[c] :
           handles' = [handles EXCEPT ![c] = handles[c] \ {h}] /\ Release({h})
    BY <1>7 DEF Unsubscribe
  <2>2. {h} \in SUBSET handles[c]
    OBVIOUS
  <2>3. /\ cmd[c] = Idle /\ open' = open
        /\ UNCHANGED <<pool, connVars, nextId, cmd, issued, log>>
    BY <1>7 DEF Unsubscribe
  <2>4. QED
    BY <1>1, <2>1, <2>2, <2>3, TeardownStep
<1>8. ASSUME NEW c \in Clients, Disconnect(c)
      PROVE  IInv'
  <2> DEFINE hs == handles[c]
  <2>1. /\ cmd[c] = Idle /\ open' = [open EXCEPT ![c] = FALSE] /\ Release(hs)
        /\ handles' = [handles EXCEPT ![c] = handles[c] \ hs]
        /\ UNCHANGED <<pool, connVars, nextId, cmd, issued, log>>
    <3>1. handles[c] \ handles[c] = {}
      OBVIOUS
    <3>2. QED
      BY <1>8, <3>1 DEF Disconnect
  <2>2. hs \in SUBSET handles[c]
    OBVIOUS
  <2>3. QED
    BY <1>1, <2>1, <2>2, TeardownStep
<1>9. CASE UNCHANGED vars
  <2>1. TellsEntries /\ DropsTold
    BY <1>9, NothingTold DEF vars
  <2>2. \A k \in Conns : SentTo(k)' \subseteq SentTo(k)
    BY <1>9, SameSentTo DEF vars, connVars
  <2>3. OldAreDropped' /\ made <= made'
    <3>1. OldAreDropped /\ made \in 0 .. MaxConns
      BY DEF IInv, TypeOK
    <3>2. QED
      BY <1>9, <3>1, RoutingConstants DEF OldAreDropped, vars, connVars
  <2>4. QED
    BY <1>1, <1>9, <2>1, <2>2, <2>3, SideStep DEF vars, connVars, clientVars
<1>10. QED
  BY <1>2, <1>3, <1>4, <1>5, <1>6, <1>7, <1>8, <1>9 DEF Next

LEMMA RoutingInvariant == Spec => []IInv
<1>1. Init => IInv
  BY InitIInv
<1>2. IInv /\ [Next]_vars => IInv'
  BY StepIInv
<1>3. QED
  BY <1>1, <1>2, PTL DEF Spec

\* route_agent_envelope and alloc_id: for any number of clients, requests and connections,
\* what is delivered on a request was said for it.
THEOREM EveryAnswerIsOnes == Spec => []RoutingInv
<1>1. IInv => RoutingInv
  BY DEF IInv, RoutingInv
<1>2. QED
  BY <1>1, RoutingInvariant, PTL

\* The parser, the drains and the failed send take turns at an action's entry, and the one
\* that comes after its result finds none.
THEOREM AResultIsTheOnlyAnswer == Spec => []ResultIsOnlyAnswer
<1>1. IInv => ResultIsOnlyAnswer
  BY DEF IInv, ActionsToldOnce, ResultIsOnlyAnswer
<1>2. QED
  BY <1>1, RoutingInvariant, PTL

\* drain_routing_on_disconnect: whoever notices the end of a connection first, each request
\* on it is told, or was taken back, or still has somebody who will tell it, unless the
\* writer took it after the parser's drain or a stale handle removed its entry.
THEOREM EveryDisconnectIsReported == Spec => []DisconnectReported
<1>1. IInv => DisconnectReported
  BY DEF IInv, NoneForgotten, DrainedAreLost, DisconnectReported, LookedAfter, Over
<1>2. QED
  BY <1>1, RoutingInvariant, PTL

\* The teardown of a session: what its client had subscribed to on the pooled connection
\* is let go of, and the rest is on connections that are about to be drained.
THEOREM AGoneClientIsReleased == Spec => []SubscriptionsReleased
<1>1. IInv => SubscriptionsReleased
  <2> SUFFICES ASSUME IInv, NEW r \in Subs, NEW k \in Conns, NEW e \in routing[k],
                      e.req = r, ~open[Owner[r]], r \notin lost
               PROVE  k # pool /\ ~Over(k) /\ (k \in dropped \/ Shared)
    BY DEF SubscriptionsReleased
  <2>1. k # pool
    BY DEF IInv, GoneNotPooled
  <2>2. ~Over(k)
    <3>1. ~Underway(r)
      BY RoutingConstants DEF IInv, CommandKept, Underway, Reqs
    <3>2. QED
      BY <3>1 DEF IInv, DrainedAreLost, Over
  <2>3. k <= made /\ 1 <= k /\ k \in Int /\ made \in Int
    BY RoutingConstants DEF IInv, IdsAllocated, Entries, TypeOK, Conns
  <2>4. QED
    BY <2>1, <2>2, <2>3 DEF IInv, OldAreDropped
<1>2. QED
  BY <1>1, RoutingInvariant, PTL
=============================================================================
