---------------------------- MODULE DaemonLinkProofs ----------------------------
(***************************************************************************)
(* Any number of daemons on one path and of clients: a daemon that nothing *)
(* raced with serves its path, one that starts alone gets it, and the two  *)
(* ends of a connection owe each other what LinkInv says.                  *)
(*                                                                         *)
(* The daemons need to know which of them had to race; a connection needs  *)
(* to know which parts of which frames are under way.                      *)
(***************************************************************************)
EXTENDS DaemonLink, SequenceTheorems, TLAPS

-----------------------------------------------------------------------------
(* The daemons.                                                            *)

Phase == Running \cup {"off", "failed", "exited"}

DaemonType ==
    /\ file \in Daemons \cup {None}
    /\ phase \in [Daemons -> Phase]
    /\ raced \in [Daemons -> BOOLEAN] /\ alone \in [Daemons -> BOOLEAN]

\* A daemon is at the path from its bind on.
HoldsItsPath == \A d \in Daemons : phase[d] \in Listening /\ ~raced[d] => file = d

\* Two daemons that start or stop at once have raced, and so has one that listens
\* while another is about to remove the socket.
RacesAreSeen ==
    \A d, e \in Daemons :
        d # e /\ phase[d] \in Changing /\ phase[e] \in Changing => raced[d]
RemovalIsSeen ==
    \A d, e \in Daemons :
        d # e /\ phase[d] \in Listening /\ phase[e] \in {"evicting", "closing"} => raced[d]

\* While a daemon starts alone, nobody else runs and the path is as it left it.
AloneWhileStarting ==
    \A d \in Daemons :
        alone[d] /\ phase[d] \in Starting =>
            /\ \A e \in Daemons \ {d} : phase[e] \notin Running
            /\ phase[d] \in {"probing", "evicting"} => file # None
            /\ phase[d] = "binding" => file = None
            /\ phase[d] = "securing" => file = d

DaemonInv == /\ DaemonType /\ HoldsItsPath /\ RacesAreSeen /\ RemovalIsSeen
             /\ AloneWhileStarting /\ AloneStarts

-----------------------------------------------------------------------------
(* A connection: the client's side C, the daemon's side S, and the parts U *)
(* and D under way to the daemon and to the client.                        *)

Word == Hellos \cup {"ping", "status", "welcome", "refusal", "pong", "snapshot"}
Part == [n : Nat, k : {1, 2}, what : Word]
ClientSide == [st : Online \cup {"off", "refused", "eof", "daemonClosed", "left"},
               hello : Hellos, sent : Seq(Word), buf : Seq(Part), heard : Seq(Word)]
DaemonSide == [st : Active \cup {"none", "queued", "ending", "closed"},
               status : BOOLEAN, buf : Seq(Part), out : Seq(Word), wrote : Seq(Word),
               cut : BOOLEAN,
               cause : {None, "refused", "notHello", "protocol", "client", "daemon"}]

\* q is what is left of the frames of words, after the first m and perhaps cut off.
Carries(q, words, m) ==
    /\ m \in 0 .. Len(words) /\ Len(q) <= 2 * (Len(words) - m)
    /\ \A j \in 1 .. Len(words) - m :
          /\ 2 * j - 1 <= Len(q) => q[2 * j - 1] = [n |-> m + j, k |-> 1, what |-> words[m + j]]
          /\ 2 * j <= Len(q) => q[2 * j] = [n |-> m + j, k |-> 2, what |-> words[m + j]]
Full(q, words, m) == Len(q) = 2 * (Len(words) - m)

\* Nothing was said before Connect, and Hello is the first of what is sent.
Untouched(C, S, U, D) ==
    /\ C.st = "off" => S = NoSession /\ U = <<>> /\ D = <<>> /\ C.buf = <<>>
    /\ C.st # "off" => /\ S.st # "none" /\ C.sent # <<>> /\ C.sent[1] = C.hello
                       /\ \A i \in 2 .. Len(C.sent) : C.sent[i] \in {"ping", "status"}
    /\ C.st \in {"off", "greeting"} => C.heard = <<>>
    /\ S.st \in {"none", "queued", "hello"} => S.out = <<>> /\ S.wrote = <<>>
    /\ Len(S.buf) <= 1 /\ Len(C.buf) <= 1

\* Until a tick cuts a read, the daemon has read whole frames and perhaps a prefix.
UpCarries(C, S, U) ==
    /\ S.st \in {"queued", "hello"} => ~S.cut
    /\ S.st \in Active \cup {"queued"} /\ ~S.cut =>
          \E m \in 0 .. Len(C.sent) :
              /\ m = 0 <=> S.st # "serving"
              /\ Carries(S.buf \o U, C.sent, m)
              /\ C.st \in Online => Full(S.buf \o U, C.sent, m)
    /\ S.st = "serving" => \A i \in 1 .. Len(U) : U[i].what \in {"ping", "status"}

\* A session ends for a reason.
CauseKnown(C, S) ==
    /\ S.st \in Active \cup {"none", "queued"} <=> S.cause = None
    /\ S.cause = "protocol" => S.cut
    /\ S.cut \/ S.st = "serving" => C.hello = "ok"
    /\ S.cause = "notHello" => C.hello = "notHello"
    /\ S.cause = "client" => C.st \in {"left", "refused"}

\* What was written is heard or under way, as long as the client listens.
DownCarries(C, S, D) ==
    /\ Len(C.heard) <= Len(S.wrote)
    /\ \A i \in 1 .. Len(C.heard) : C.heard[i] = S.wrote[i]
    /\ C.st \in Online => /\ Carries(C.buf \o D, S.wrote, Len(C.heard))
                          /\ Full(C.buf \o D, S.wrote, Len(C.heard))
    /\ C.st \in {"eof", "daemonClosed"} => S.st = "closed"
    /\ C.st = "daemonClosed" => Len(C.heard) = Len(S.wrote)

\* A refusal is written before the session closes, unless the daemon (in phase p) goes.
RefusalCarried(C, S, p) ==
    C.hello = "badVersion" =>
        /\ S.cause = "refused" /\ C.st = "greeting" =>
              \/ p \notin Listening
              \/ S.wrote = <<"refusal">> /\ S.out = <<>>
              \/ S.st = "ending" /\ S.wrote = <<>> /\ S.out = <<"refusal">>
        /\ C.st = "eof" => p \notin Listening \/ S.cause = "daemon"

SidesType(C, S, U, D) == /\ C \in ClientSide /\ S \in DaemonSide
                         /\ U \in Seq(Part) /\ D \in Seq(Part)

ConnInv(C, S, U, D, p) == /\ SidesType(C, S, U, D) /\ Untouched(C, S, U, D)
                          /\ UpCarries(C, S, U) /\ DownCarries(C, S, D)
                          /\ CauseKnown(C, S) /\ RefusalCarried(C, S, p)

LinkType == /\ link \in [Clients -> Daemons \cup {None}]
            /\ client \in [Clients -> ClientSide] /\ session \in [Clients -> DaemonSide]
            /\ up \in [Clients -> Seq(Part)] /\ down \in [Clients -> Seq(Part)]

\* A link is to a daemon that got as far as its bind.
Linked(c) == client[c].st # "off" =>
                 link[c] \in Daemons /\ phase[link[c]] \notin (Starting \ {"securing"}) \cup {"off"}

ClientInv ==
    /\ LinkType
    /\ \A c \in Clients :
          /\ ConnInv(client[c], session[c], up[c], down[c], phase[link[c]])
          /\ Linked(c)

IInv == DaemonInv /\ ClientInv

-----------------------------------------------------------------------------
(* The proof for the daemons.                                              *)

LEMMA InitDaemonInv == Init => DaemonInv
BY DaemonLinkConstants DEF Init, DaemonInv, DaemonType, Phase, HoldsItsPath, RacesAreSeen,
   RemovalIsSeen, AloneWhileStarting, AloneStarts, Changing, Starting, Listening, Running

\* Races marks the daemon and those it met, and forgets nobody.
LEMMA RacesMarks ==
    ASSUME DaemonType, NEW d \in Daemons, Races(d)
    PROVE  /\ raced' \in [Daemons -> BOOLEAN]
           /\ \A e \in Daemons : raced[e] => raced'[e]
           /\ \A e \in Daemons \ {d} :
                 phase[e] \in Changing \/ (raced[d] /\ phase[e] = "serving") =>
                     raced'[e] /\ raced'[d]
BY DEF Races, DaemonType

\* A start is marked with what it meets; alone is what it says at this moment.
LEMMA BeginDaemonInv ==
    ASSUME DaemonInv, NEW d \in Daemons, Begin(d)
    PROVE  DaemonInv'
<1> USE DaemonLinkConstants DEF DaemonInv, Begin, Moves, Changing, Starting, Listening, Running
<1>0. /\ raced' \in [Daemons -> BOOLEAN]
      /\ \A e \in Daemons : raced[e] => raced'[e]
      /\ \A e \in Daemons \ {d} :
            phase[e] \in Changing \/ (raced[d] /\ phase[e] = "serving") =>
                raced'[e] /\ raced'[d]
  BY RacesMarks
<1>1. DaemonType'
  BY <1>0 DEF DaemonType, Phase
<1>2. HoldsItsPath'
  BY <1>0 DEF DaemonType, HoldsItsPath, RacesAreSeen, RemovalIsSeen
<1>3. RacesAreSeen'
  BY <1>0 DEF DaemonType, RacesAreSeen
<1>4. RemovalIsSeen'
  BY <1>0 DEF DaemonType, HoldsItsPath, RacesAreSeen, RemovalIsSeen
<1>5. AloneWhileStarting'
  BY DEF DaemonType, AloneWhileStarting
<1>6. AloneStarts'
  BY DEF DaemonType, AloneWhileStarting, AloneStarts
<1>7. QED
  BY <1>1, <1>2, <1>3, <1>4, <1>5, <1>6

\* A daemon goes on to evict only what does not listen.
LEMMA ProbeDaemonInv ==
    ASSUME DaemonInv, NEW d \in Daemons, Probe(d)
    PROVE  DaemonInv'
<1> USE DaemonLinkConstants DEF DaemonInv, Probe, Moves, Changing, Starting, Listening, Running
<1>1. DaemonType'
  BY DEF DaemonType, Phase
<1>2. HoldsItsPath'
  BY DEF DaemonType, HoldsItsPath, RacesAreSeen, RemovalIsSeen
<1>3. RacesAreSeen'
  BY DEF DaemonType, RacesAreSeen
<1>4. RemovalIsSeen'
  BY DEF DaemonType, HoldsItsPath, RacesAreSeen, RemovalIsSeen
<1>5. AloneWhileStarting'
  BY DEF DaemonType, AloneWhileStarting
<1>6. AloneStarts'
  BY DEF DaemonType, AloneWhileStarting, AloneStarts
<1>7. QED
  BY <1>1, <1>2, <1>3, <1>4, <1>5, <1>6

\* Whoever listens while another one evicts has raced.
LEMMA EvictDaemonInv ==
    ASSUME DaemonInv, NEW d \in Daemons, Evict(d)
    PROVE  DaemonInv'
<1> USE DaemonLinkConstants DEF DaemonInv, Evict, Moves, Changing, Starting, Listening, Running
<1>1. DaemonType'
  BY DEF DaemonType, Phase
<1>2. HoldsItsPath'
  BY DEF DaemonType, HoldsItsPath, RacesAreSeen, RemovalIsSeen
<1>3. RacesAreSeen'
  BY DEF DaemonType, RacesAreSeen
<1>4. RemovalIsSeen'
  BY DEF DaemonType, HoldsItsPath, RacesAreSeen, RemovalIsSeen
<1>5. AloneWhileStarting'
  BY DEF DaemonType, AloneWhileStarting
<1>6. AloneStarts'
  BY DEF DaemonType, AloneWhileStarting, AloneStarts
<1>7. QED
  BY <1>1, <1>2, <1>3, <1>4, <1>5, <1>6

\* The path is only taken when nobody is there.
LEMMA BindDaemonInv ==
    ASSUME DaemonInv, NEW d \in Daemons, Bind(d)
    PROVE  DaemonInv'
<1> USE DaemonLinkConstants DEF DaemonInv, Bind, Moves, Changing, Starting, Listening, Running
<1>1. DaemonType'
  BY DEF DaemonType, Phase
<1>2. HoldsItsPath'
  BY DEF DaemonType, HoldsItsPath, RacesAreSeen, RemovalIsSeen
<1>3. RacesAreSeen'
  BY DEF DaemonType, RacesAreSeen
<1>4. RemovalIsSeen'
  BY DEF DaemonType, HoldsItsPath, RacesAreSeen, RemovalIsSeen
<1>5. AloneWhileStarting'
  BY DEF DaemonType, AloneWhileStarting
<1>6. AloneStarts'
  BY DEF DaemonType, AloneWhileStarting, AloneStarts
<1>7. QED
  BY <1>1, <1>2, <1>3, <1>4, <1>5, <1>6

\* A daemon that starts alone still finds its socket.
LEMMA SecureDaemonInv ==
    ASSUME DaemonInv, NEW d \in Daemons, Secure(d)
    PROVE  DaemonInv'
<1> USE DaemonLinkConstants DEF DaemonInv, Secure, Moves, Changing, Starting, Listening, Running
<1>1. DaemonType'
  BY DEF DaemonType, Phase
<1>2. HoldsItsPath'
  BY DEF DaemonType, HoldsItsPath, RacesAreSeen, RemovalIsSeen
<1>3. RacesAreSeen'
  BY DEF DaemonType, RacesAreSeen
<1>4. RemovalIsSeen'
  BY DEF DaemonType, HoldsItsPath, RacesAreSeen, RemovalIsSeen
<1>5. AloneWhileStarting'
  BY DEF DaemonType, AloneWhileStarting
<1>6. AloneStarts'
  BY DEF DaemonType, AloneWhileStarting, AloneStarts
<1>7. QED
  BY <1>1, <1>2, <1>3, <1>4, <1>5, <1>6

\* A daemon that has not raced stops as the only one at the path.
LEMMA StopDaemonInv ==
    ASSUME DaemonInv, NEW d \in Daemons, Stop(d)
    PROVE  DaemonInv'
<1> USE DaemonLinkConstants DEF DaemonInv, Stop, Moves, Changing, Starting, Listening, Running
<1>0. /\ raced' \in [Daemons -> BOOLEAN]
      /\ \A e \in Daemons : raced[e] => raced'[e]
      /\ \A e \in Daemons \ {d} :
            phase[e] \in Changing \/ (raced[d] /\ phase[e] = "serving") =>
                raced'[e] /\ raced'[d]
  BY RacesMarks
<1>1. DaemonType'
  BY <1>0 DEF DaemonType, Phase
<1>2. HoldsItsPath'
  BY <1>0 DEF DaemonType, HoldsItsPath, RacesAreSeen, RemovalIsSeen
<1>3. RacesAreSeen'
  <2>1. \A e \in Daemons \ {d} : phase'[e] = phase[e]
    BY DEF DaemonType
  <2>2. \A e, f \in Daemons \ {d} :
           e # f /\ phase'[e] \in Changing /\ phase'[f] \in Changing => raced'[e]
    BY <1>0, <2>1 DEF RacesAreSeen
  <2>3. \A e \in Daemons \ {d} : phase'[e] \in Changing => raced'[e] /\ raced'[d]
    BY <1>0, <2>1
  <2>4. ASSUME NEW e \in Daemons, NEW f \in Daemons, e # f,
               phase'[e] \in Changing, phase'[f] \in Changing
        PROVE  raced'[e]
    <3>1. CASE e # d /\ f # d
      BY <2>2, <2>4, <3>1
    <3>2. CASE e = d
      BY <2>3, <2>4, <3>2
    <3>3. CASE f = d
      BY <2>3, <2>4, <3>3
    <3>4. QED
      BY <3>1, <3>2, <3>3
  <2>5. QED
    BY <2>4 DEF RacesAreSeen
<1>4. RemovalIsSeen'
  BY <1>0 DEF DaemonType, HoldsItsPath, RacesAreSeen, RemovalIsSeen
<1>5. AloneWhileStarting'
  BY DEF DaemonType, AloneWhileStarting
<1>6. AloneStarts'
  BY DEF DaemonType, AloneWhileStarting, AloneStarts
<1>7. QED
  BY <1>1, <1>2, <1>3, <1>4, <1>5, <1>6

\* Whoever listens while another one closes has raced.
LEMMA UnlinkDaemonInv ==
    ASSUME DaemonInv, NEW d \in Daemons, Unlink(d)
    PROVE  DaemonInv'
<1> USE DaemonLinkConstants DEF DaemonInv, Unlink, Moves, Changing, Starting, Listening, Running
<1>1. DaemonType'
  BY DEF DaemonType, Phase
<1>2. HoldsItsPath'
  BY DEF DaemonType, HoldsItsPath, RacesAreSeen, RemovalIsSeen
<1>3. RacesAreSeen'
  BY DEF DaemonType, RacesAreSeen
<1>4. RemovalIsSeen'
  BY DEF DaemonType, HoldsItsPath, RacesAreSeen, RemovalIsSeen
<1>5. AloneWhileStarting'
  BY DEF DaemonType, AloneWhileStarting
<1>6. AloneStarts'
  BY DEF DaemonType, AloneWhileStarting, AloneStarts
<1>7. QED
  BY <1>1, <1>2, <1>3, <1>4, <1>5, <1>6

LEMMA ExitDaemonInv ==
    ASSUME DaemonInv, NEW d \in Daemons, Exit(d)
    PROVE  DaemonInv'
<1> USE DaemonLinkConstants DEF DaemonInv, Exit, Moves, Changing, Starting, Listening, Running
<1>1. DaemonType'
  BY DEF DaemonType, Phase
<1>2. HoldsItsPath'
  BY DEF DaemonType, HoldsItsPath, RacesAreSeen, RemovalIsSeen
<1>3. RacesAreSeen'
  BY DEF DaemonType, RacesAreSeen
<1>4. RemovalIsSeen'
  BY DEF DaemonType, HoldsItsPath, RacesAreSeen, RemovalIsSeen
<1>5. AloneWhileStarting'
  BY DEF DaemonType, AloneWhileStarting
<1>6. AloneStarts'
  BY DEF DaemonType, AloneWhileStarting, AloneStarts
<1>7. QED
  BY <1>1, <1>2, <1>3, <1>4, <1>5, <1>6

\* A crash only ends the daemon.
LEMMA CrashDaemonInv ==
    ASSUME DaemonInv, NEW d \in Daemons, Crash(d)
    PROVE  DaemonInv'
<1> USE DaemonLinkConstants DEF DaemonInv, Crash, Moves, Changing, Starting, Listening, Running
<1>1. DaemonType'
  BY DEF DaemonType, Phase
<1>2. HoldsItsPath'
  BY DEF DaemonType, HoldsItsPath, RacesAreSeen, RemovalIsSeen
<1>3. RacesAreSeen'
  BY DEF DaemonType, RacesAreSeen
<1>4. RemovalIsSeen'
  BY DEF DaemonType, HoldsItsPath, RacesAreSeen, RemovalIsSeen
<1>5. AloneWhileStarting'
  BY DEF DaemonType, AloneWhileStarting
<1>6. AloneStarts'
  BY DEF DaemonType, AloneWhileStarting, AloneStarts
<1>7. QED
  BY <1>1, <1>2, <1>3, <1>4, <1>5, <1>6

-----------------------------------------------------------------------------
(* What is under way on a connection.                                      *)

LEMMA HeadAndTail ==
    ASSUME NEW q \in Seq(Part), q # <<>>
    PROVE  /\ Head(q) \in Part /\ Tail(q) \in Seq(Part) /\ q[1] = Head(q)
           /\ Len(q) \in Nat \ {0} /\ Len(Tail(q)) = Len(q) - 1
           /\ \A i \in 1 .. Len(Tail(q)) : Tail(q)[i] = q[i + 1]
           /\ <<Head(q)>> \o Tail(q) = q
<1>1. /\ Head(q) \in Part /\ Tail(q) \in Seq(Part) /\ q[1] = Head(q)
      /\ Len(q) \in Nat \ {0} /\ Len(Tail(q)) = Len(q) - 1
      /\ \A i \in 1 .. Len(Tail(q)) : Tail(q)[i] = q[i + 1]
  BY HeadTailProperties
<1>2. <<Head(q)>> \o Tail(q) = q
  <2>1. <<Head(q)>> \in Seq(Part) /\ Len(<<Head(q)>>) = 1 /\ <<Head(q)>>[1] = Head(q)
    BY <1>1
  <2>2. /\ <<Head(q)>> \o Tail(q) \in Seq(Part)
        /\ Len(<<Head(q)>> \o Tail(q)) = 1 + Len(Tail(q))
        /\ \A i \in 1 .. 1 + Len(Tail(q)) :
              (<<Head(q)>> \o Tail(q))[i] = IF i <= 1 THEN <<Head(q)>>[i] ELSE Tail(q)[i - 1]
    BY <1>1, <2>1, ConcatProperties
  <2>3. \A i \in 1 .. Len(q) : (<<Head(q)>> \o Tail(q))[i] = q[i]
    <3>1. SUFFICES ASSUME NEW i \in 1 .. Len(q)
                   PROVE  (<<Head(q)>> \o Tail(q))[i] = q[i]
      OBVIOUS
    <3>2. CASE i = 1
      BY <1>1, <2>1, <2>2, <3>2
    <3>3. CASE i # 1
      <4>1. i - 1 \in 1 .. Len(Tail(q)) /\ i \in 1 .. 1 + Len(Tail(q)) /\ ~(i <= 1)
        BY <1>1, <3>1, <3>3
      <4>2. Tail(q)[i - 1] = q[i]
        BY <1>1, <4>1
      <4>3. QED
        BY <2>2, <4>1, <4>2
    <3>4. QED
      BY <3>2, <3>3
  <2>4. QED
    BY <1>1, <2>2, <2>3, SeqEqual
<1>3. QED
  BY <1>1, <1>2

\* Without its first frame, the rest of the frames is left.
LEMMA CarriesRest ==
    ASSUME NEW w \in Seq(Word), NEW q \in Seq(Part), NEW r \in Seq(Part), NEW m \in Nat,
           Carries(q, w, m), Len(q) >= 2, Len(r) = Len(q) - 2,
           \A i \in 1 .. Len(r) : r[i] = q[i + 2]
    PROVE  /\ Carries(r, w, m + 1)
           /\ Full(q, w, m) => Full(r, w, m + 1)
<1>1. Len(w) \in Nat /\ Len(q) \in Nat /\ m + 1 \in 0 .. Len(w)
  BY DEF Carries
<1>2. ASSUME NEW j \in 1 .. Len(w) - (m + 1)
      PROVE  /\ 2 * j - 1 <= Len(r) =>
                    r[2 * j - 1] = [n |-> (m + 1) + j, k |-> 1, what |-> w[(m + 1) + j]]
             /\ 2 * j <= Len(r) =>
                    r[2 * j] = [n |-> (m + 1) + j, k |-> 2, what |-> w[(m + 1) + j]]
  <2>1. j + 1 \in 1 .. Len(w) - m /\ m + (j + 1) = (m + 1) + j
        /\ (2 * j - 1) + 2 = 2 * (j + 1) - 1 /\ 2 * j + 2 = 2 * (j + 1)
    BY <1>1, <1>2
  <2>2. /\ 2 * (j + 1) - 1 <= Len(q) =>
              q[2 * (j + 1) - 1] = [n |-> m + (j + 1), k |-> 1, what |-> w[m + (j + 1)]]
        /\ 2 * (j + 1) <= Len(q) =>
              q[2 * (j + 1)] = [n |-> m + (j + 1), k |-> 2, what |-> w[m + (j + 1)]]
    BY <2>1 DEF Carries
  <2>3. CASE 2 * j - 1 <= Len(r)
    <3>1. 2 * j - 1 \in 1 .. Len(r) /\ 2 * (j + 1) - 1 <= Len(q)
      BY <1>1, <1>2, <2>3
    <3>2. r[2 * j - 1] = [n |-> (m + 1) + j, k |-> 1, what |-> w[(m + 1) + j]]
      <4>1. r[2 * j - 1] = q[(2 * j - 1) + 2]
        BY <3>1
      <4>2. QED
        BY <2>1, <2>2, <3>1, <4>1
    <3>3. CASE 2 * j <= Len(r)
      <4>1. 2 * j \in 1 .. Len(r) /\ 2 * (j + 1) <= Len(q)
        BY <1>1, <1>2, <3>3
      <4>2. r[2 * j] = q[2 * j + 2]
        BY <4>1
      <4>3. QED
        BY <2>1, <2>2, <3>2, <4>1, <4>2
    <3>4. QED
      BY <3>2, <3>3
  <2>4. CASE ~(2 * j - 1 <= Len(r))
    BY <1>1, <1>2, <2>4
  <2>5. QED
    BY <2>3, <2>4
<1>3. Len(r) <= 2 * (Len(w) - (m + 1)) /\ (Full(q, w, m) => Full(r, w, m + 1))
  BY <1>1 DEF Carries, Full
<1>4. QED
  BY <1>1, <1>2, <1>3 DEF Carries

\* The frame that comes first.
LEMMA CarriesFirst ==
    ASSUME NEW w \in Seq(Word), NEW q \in Seq(Part), NEW m \in Nat, Carries(q, w, m), q # <<>>
    PROVE  /\ m + 1 \in 1 .. Len(w)
           /\ q[1] = [n |-> m + 1, k |-> 1, what |-> w[m + 1]]
           /\ Len(q) >= 2 => q[2] = [n |-> m + 1, k |-> 2, what |-> w[m + 1]]
<1>1. Len(w) \in Nat /\ Len(q) \in Nat \ {0}
  OBVIOUS
<1>2. 1 \in 1 .. Len(w) - m
  BY <1>1 DEF Carries
<1>3. /\ 2 * 1 - 1 <= Len(q) => q[2 * 1 - 1] = [n |-> m + 1, k |-> 1, what |-> w[m + 1]]
      /\ 2 * 1 <= Len(q) => q[2 * 1] = [n |-> m + 1, k |-> 2, what |-> w[m + 1]]
  BY <1>2 DEF Carries
<1>4. QED
  BY <1>1, <1>2, <1>3

\* What is cut off at its end is still the beginning of the frames.
LEMMA CarriesCutOff ==
    ASSUME NEW w \in Seq(Word), NEW q \in Seq(Part), NEW r \in Seq(Part), NEW m \in Nat,
           Carries(q, w, m), Len(r) <= Len(q), \A i \in 1 .. Len(r) : r[i] = q[i]
    PROVE  Carries(r, w, m)
<1>1. Len(w) \in Nat /\ Len(q) \in Nat /\ Len(r) \in Nat /\ m \in 0 .. Len(w)
      /\ Len(r) <= 2 * (Len(w) - m)
  BY DEF Carries
<1>2. ASSUME NEW j \in 1 .. Len(w) - m
      PROVE  /\ 2 * j - 1 <= Len(r) => r[2 * j - 1] = [n |-> m + j, k |-> 1, what |-> w[m + j]]
             /\ 2 * j <= Len(r) => r[2 * j] = [n |-> m + j, k |-> 2, what |-> w[m + j]]
  <2>1. /\ 2 * j - 1 <= Len(q) => q[2 * j - 1] = [n |-> m + j, k |-> 1, what |-> w[m + j]]
        /\ 2 * j <= Len(q) => q[2 * j] = [n |-> m + j, k |-> 2, what |-> w[m + j]]
    BY DEF Carries
  <2>2. /\ 2 * j - 1 <= Len(r) => 2 * j - 1 \in 1 .. Len(r) /\ 2 * j - 1 <= Len(q)
        /\ 2 * j <= Len(r) => 2 * j \in 1 .. Len(r) /\ 2 * j <= Len(q)
    BY <1>1, <1>2
  <2>3. QED
    BY <2>1, <2>2
<1>3. QED
  BY <1>1, <1>2 DEF Carries

\* One more frame at the end.
LEMMA CarriesMore ==
    ASSUME NEW w \in Seq(Word), NEW q \in Seq(Part), NEW m \in Nat, NEW what \in Word,
           Carries(q, w, m), Full(q, w, m)
    PROVE  /\ q \o Parts(Len(w) + 1, what) \in Seq(Part)
           /\ Carries(q \o Parts(Len(w) + 1, what), Append(w, what), m)
           /\ Full(q \o Parts(Len(w) + 1, what), Append(w, what), m)
<1> DEFINE v == Append(w, what)
           f == Parts(Len(w) + 1, what)
           r == q \o f
<1>1. /\ Len(w) \in Nat /\ Len(q) \in Nat /\ m \in 0 .. Len(w) /\ Len(q) = 2 * (Len(w) - m)
      /\ Len(v) = Len(w) + 1 /\ v[Len(w) + 1] = what
      /\ \A i \in 1 .. Len(w) : v[i] = w[i]
  BY DEF Carries, Full
<1>2. /\ f \in Seq(Part) /\ Len(f) = 2
      /\ f[1] = [n |-> Len(w) + 1, k |-> 1, what |-> what]
      /\ f[2] = [n |-> Len(w) + 1, k |-> 2, what |-> what]
  BY <1>1 DEF Parts, Part
<1>3. /\ r \in Seq(Part) /\ Len(r) = Len(q) + 2
      /\ \A i \in 1 .. Len(q) + 2 : r[i] = IF i <= Len(q) THEN q[i] ELSE f[i - Len(q)]
  <2> HIDE DEF f
  <2>1. f \in Seq(Part) /\ Len(f) = 2
    BY <1>2
  <2>2. /\ q \o f \in Seq(Part) /\ Len(q \o f) = Len(q) + Len(f)
        /\ \A i \in 1 .. Len(q) + Len(f) :
              (q \o f)[i] = IF i <= Len(q) THEN q[i] ELSE f[i - Len(q)]
    BY <2>1, ConcatProperties
  <2>3. QED
    BY <2>1, <2>2
<1>4. /\ r[Len(q) + 1] = [n |-> Len(w) + 1, k |-> 1, what |-> what]
      /\ r[Len(q) + 2] = [n |-> Len(w) + 1, k |-> 2, what |-> what]
  <2>1. /\ Len(q) + 1 \in 1 .. Len(q) + 2 /\ ~(Len(q) + 1 <= Len(q))
        /\ Len(q) + 2 \in 1 .. Len(q) + 2 /\ ~(Len(q) + 2 <= Len(q))
        /\ (Len(q) + 1) - Len(q) = 1 /\ (Len(q) + 2) - Len(q) = 2
    BY <1>1
  <2>2. QED
    BY <1>2, <1>3, <2>1
<1>5. ASSUME NEW j \in 1 .. Len(v) - m
      PROVE  /\ 2 * j - 1 <= Len(r) => r[2 * j - 1] = [n |-> m + j, k |-> 1, what |-> v[m + j]]
             /\ 2 * j <= Len(r) => r[2 * j] = [n |-> m + j, k |-> 2, what |-> v[m + j]]
  <2>1. CASE j = Len(v) - m
    <3>1. m + j = Len(w) + 1 /\ 2 * j - 1 = Len(q) + 1 /\ 2 * j = Len(q) + 2
      BY <1>1, <2>1
    <3>2. QED
      BY <1>1, <1>4, <3>1
  <2>2. CASE j # Len(v) - m
    <3>1. /\ j \in 1 .. Len(w) - m /\ m + j \in 1 .. Len(w)
          /\ 2 * j - 1 \in 1 .. Len(q) /\ 2 * j \in 1 .. Len(q)
          /\ 2 * j - 1 \in 1 .. Len(q) + 2 /\ 2 * j \in 1 .. Len(q) + 2
          /\ 2 * j - 1 <= Len(q) /\ 2 * j <= Len(q)
      BY <1>1, <1>5, <2>2
    <3>2. /\ q[2 * j - 1] = [n |-> m + j, k |-> 1, what |-> w[m + j]]
          /\ q[2 * j] = [n |-> m + j, k |-> 2, what |-> w[m + j]]
      BY <3>1 DEF Carries
    <3>3. v[m + j] = w[m + j] /\ r[2 * j - 1] = q[2 * j - 1] /\ r[2 * j] = q[2 * j]
      BY <1>1, <1>3, <3>1
    <3>4. QED
      BY <3>2, <3>3
  <2>3. QED
    BY <2>1, <2>2
<1>6. m \in 0 .. Len(v) /\ Len(r) = 2 * (Len(v) - m)
  BY <1>1, <1>3
<1>7. Carries(r, v, m) /\ Full(r, v, m)
  <2> HIDE DEF r, v
  <2>1. Len(v) \in Nat /\ Len(r) <= 2 * (Len(v) - m)
    BY <1>1, <1>6
  <2>2. QED
    BY <1>5, <1>6, <2>1 DEF Carries, Full
<1>8. QED
  BY <1>3, <1>7

LEMMA PartsAssociate ==
    \A a, b, c \in Seq(Part) : (a \o b) \o c = a \o (b \o c)
BY ConcatAssociative

\* What the next part is, for a reader with b in hand, and what it leaves.
LEMMA NextPart ==
    ASSUME NEW w \in Seq(Word), NEW b \in Seq(Part), NEW q \in Seq(Part), NEW m \in Nat,
           Len(b) <= 1, q # <<>>, Carries(b \o q, w, m)
    PROVE  /\ m + 1 \in 1 .. Len(w)
           /\ b = <<>> => Head(q).k = 1 /\ <<Head(q)>> \o Tail(q) = b \o q
           /\ b # <<>> => /\ b[1].k = 1 /\ Head(q).k = 2 /\ Head(q).n = b[1].n
                          /\ Head(q).what = w[m + 1]
                          /\ Carries(<<>> \o Tail(q), w, m + 1)
                          /\ Full(b \o q, w, m) => Full(<<>> \o Tail(q), w, m + 1)
<1>1. /\ b \o q \in Seq(Part) /\ Len(b \o q) = Len(b) + Len(q)
      /\ \A i \in 1 .. Len(b) + Len(q) : (b \o q)[i] = IF i <= Len(b) THEN b[i] ELSE q[i - Len(b)]
  BY ConcatProperties
<1>2. /\ Head(q) \in Part /\ Tail(q) \in Seq(Part) /\ q[1] = Head(q)
      /\ Len(q) \in Nat \ {0} /\ Len(Tail(q)) = Len(q) - 1
      /\ \A i \in 1 .. Len(Tail(q)) : Tail(q)[i] = q[i + 1]
      /\ <<Head(q)>> \o Tail(q) = q
  BY HeadAndTail
<1>3. b \o q # <<>> /\ <<>> \o Tail(q) = Tail(q) /\ Len(b) \in Nat
  BY <1>1, <1>2, ConcatEmptySeq
<1>4. /\ m + 1 \in 1 .. Len(w)
      /\ (b \o q)[1] = [n |-> m + 1, k |-> 1, what |-> w[m + 1]]
      /\ Len(b \o q) >= 2 => (b \o q)[2] = [n |-> m + 1, k |-> 2, what |-> w[m + 1]]
  BY <1>1, <1>3, CarriesFirst
<1>5. CASE b = <<>>
  BY <1>2, <1>4, <1>5, ConcatEmptySeq
<1>6. CASE b # <<>>
  <2>1. Len(b) = 1 /\ Len(b \o q) = Len(q) + 1 /\ Len(b \o q) >= 2
    BY <1>1, <1>2, <1>3, <1>6
  <2>2. (b \o q)[1] = b[1] /\ (b \o q)[2] = Head(q)
    <3>1. 1 \in 1 .. Len(b) + Len(q) /\ 2 \in 1 .. Len(b) + Len(q) /\ 2 - Len(b) = 1
      BY <1>2, <2>1
    <3>2. QED
      BY <1>1, <1>2, <2>1, <3>1
  <2>3. Len(Tail(q)) = Len(b \o q) - 2
    BY <1>2, <2>1
  <2>4. \A i \in 1 .. Len(Tail(q)) : Tail(q)[i] = (b \o q)[i + 2]
    <3>1. SUFFICES ASSUME NEW i \in 1 .. Len(Tail(q)) PROVE Tail(q)[i] = (b \o q)[i + 2]
      OBVIOUS
    <3>2. i + 2 \in 1 .. Len(b) + Len(q) /\ ~(i + 2 <= Len(b)) /\ (i + 2) - Len(b) = i + 1
      BY <1>2, <2>1
    <3>3. QED
      BY <1>1, <1>2, <3>2
  <2>5. /\ Carries(Tail(q), w, m + 1)
        /\ Full(b \o q, w, m) => Full(Tail(q), w, m + 1)
    BY <1>1, <1>2, <2>1, <2>3, <2>4, CarriesRest
  <2>6. QED
    BY <1>3, <1>4, <1>6, <2>1, <2>2, <2>5
<1>7. QED
  BY <1>4, <1>5, <1>6

-----------------------------------------------------------------------------
(* The steps of a connection, on its two sides.                            *)

\* A client that is open sends one more whole frame.
LEMMA SendConn ==
    ASSUME NEW C, NEW S, NEW U, NEW D, NEW p, ConnInv(C, S, U, D, p),
           C.st = "open", NEW w \in {"ping", "status"}
    PROVE  ConnInv([C EXCEPT !.sent = Append(C.sent, w)],
                   S,
                   U \o Parts(Len(C.sent) + 1, w),
                   D, p)
<1> DEFINE C1 == [C EXCEPT !.sent = Append(C.sent, w)]
           U1 == U \o Parts(Len(C.sent) + 1, w)
<1> SUFFICES ConnInv(C1, S, U1, D, p)
  OBVIOUS
<1> USE DEF ConnInv
<1> HIDE DEF C1, U1
<1>1. /\ C \in ClientSide /\ S \in DaemonSide /\ U \in Seq(Part) /\ D \in Seq(Part)
      /\ C.sent \in Seq(Word) /\ C.sent # <<>> /\ S.buf \in Seq(Part) /\ w \in Word
  BY DEF SidesType, ClientSide, DaemonSide, Untouched, Word
<1>2. /\ C1.sent = Append(C.sent, w) /\ C1.st = C.st /\ C1.hello = C.hello
      /\ C1.buf = C.buf /\ C1.heard = C.heard
  BY <1>1 DEF ClientSide, C1
<1>3. /\ C1.sent \in Seq(Word) /\ Len(C1.sent) = Len(C.sent) + 1 /\ Len(C.sent) \in Nat \ {0}
      /\ C1.sent # <<>> /\ C1.sent[Len(C.sent) + 1] = w
      /\ \A i \in 1 .. Len(C.sent) : C1.sent[i] = C.sent[i]
  <2> HIDE DEF ConnInv
  <2>1. QED
    BY <1>1, <1>2
<1>30. C1 \in ClientSide
  BY <1>1, <1>2, <1>3 DEF ClientSide, C1
<1> DEFINE f == Parts(Len(C.sent) + 1, w)
<1>4. /\ f \in Seq(Part) /\ Len(f) = 2 /\ f[1].what = w /\ f[2].what = w
  BY <1>1, <1>3 DEF Parts, Part
<1>40. U1 = U \o f
  BY DEF U1, f
<1> HIDE DEF f
<1>5. /\ U \o f \in Seq(Part) /\ Len(U \o f) = Len(U) + Len(f)
      /\ \A i \in 1 .. Len(U) + Len(f) : (U \o f)[i] = IF i <= Len(U) THEN U[i] ELSE f[i - Len(U)]
  BY <1>1, <1>4, ConcatProperties
<1>6. SidesType(C1, S, U1, D)
  BY <1>1, <1>30, <1>40, <1>5 DEF SidesType
<1>7. Untouched(C1, S, U1, D)
  <2>1. \A i \in 2 .. Len(C1.sent) : C1.sent[i] \in {"ping", "status"}
    BY <1>3 DEF Untouched
  <2>2. C1.sent[1] = C1.hello
    BY <1>2, <1>3 DEF Untouched
  <2>3. QED
    BY <1>2, <1>3, <2>1, <2>2 DEF Untouched
<1>8. UpCarries(C1, S, U1)
  <2>1. ASSUME S.st \in Active \cup {"queued"}, ~S.cut
        PROVE  \E m \in 0 .. Len(C1.sent) :
                  /\ m = 0 <=> S.st # "serving"
                  /\ Carries(S.buf \o U1, C1.sent, m)
                  /\ C1.st \in Online => Full(S.buf \o U1, C1.sent, m)
    <3>1. PICK m \in 0 .. Len(C.sent) : /\ m = 0 <=> S.st # "serving"
                                        /\ Carries(S.buf \o U, C.sent, m)
                                        /\ Full(S.buf \o U, C.sent, m)
      BY <2>1 DEF UpCarries, Online
    <3>2. S.buf \o U \in Seq(Part) /\ m \in Nat /\ m \in 0 .. Len(C1.sent)
      BY <1>1, <1>3, ConcatProperties
    <3>3. /\ Carries((S.buf \o U) \o f, C1.sent, m)
          /\ Full((S.buf \o U) \o f, C1.sent, m)
      BY <1>1, <1>2, <3>1, <3>2, CarriesMore DEF f
    <3>4. (S.buf \o U) \o f = S.buf \o U1
      <4> HIDE DEF ConnInv
      <4>1. S.buf \in Seq(Part) /\ U \in Seq(Part) /\ f \in Seq(Part)
        BY <1>1, <1>4
      <4>2. (S.buf \o U) \o f = S.buf \o (U \o f)
        BY <4>1, PartsAssociate
      <4>3. QED
        BY <1>40, <4>2
    <3>5. QED
      BY <3>1, <3>2, <3>3, <3>4
  <2>2. ASSUME S.st = "serving", NEW i \in 1 .. Len(U1)
        PROVE  U1[i].what \in {"ping", "status"}
    <3>1. Len(U) \in Nat /\ i \in 1 .. Len(U) + Len(f) /\ U1[i] = (U \o f)[i]
      BY <1>1, <1>5, <1>40, <2>2
    <3>2. CASE i <= Len(U)
      BY <1>5, <2>2, <3>1, <3>2 DEF UpCarries
    <3>3. CASE ~(i <= Len(U))
      <4>1. i - Len(U) \in {1, 2}
        BY <1>4, <3>1, <3>3
      <4>2. QED
        BY <1>4, <1>5, <3>1, <3>3, <4>1
    <3>4. QED
      BY <3>2, <3>3
  <2>3. QED
    BY <2>1, <2>2 DEF UpCarries
<1>9. DownCarries(C1, S, D) /\ CauseKnown(C1, S) /\ RefusalCarried(C1, S, p)
  BY <1>2 DEF DownCarries, CauseKnown, RefusalCarried
<1>10. QED
  BY <1>6, <1>7, <1>8, <1>9

\* What leaving cuts off is the end of what was sent.
LEMMA LeaveConn ==
    ASSUME NEW C, NEW S, NEW U, NEW D, NEW p, ConnInv(C, S, U, D, p),
           C.st = "open", NEW k \in 0 .. Len(U)
    PROVE  ConnInv([C EXCEPT !.st = "left"], S, SubSeq(U, 1, k), D, p)
<1> DEFINE C1 == [C EXCEPT !.st = "left"]
           U1 == SubSeq(U, 1, k)
<1> SUFFICES ConnInv(C1, S, U1, D, p)
  OBVIOUS
<1> USE DEF ConnInv
<1> HIDE DEF C1, U1
<1>1. /\ C \in ClientSide /\ S \in DaemonSide /\ U \in Seq(Part) /\ D \in Seq(Part)
      /\ C.sent \in Seq(Word) /\ S.buf \in Seq(Part)
  BY DEF SidesType, ClientSide, DaemonSide
<1>2. /\ C1.sent = C.sent /\ C1.st = "left" /\ C1.hello = C.hello
      /\ C1.buf = C.buf /\ C1.heard = C.heard /\ C1 \in ClientSide
  BY <1>1 DEF ClientSide, C1
<1>3. /\ U1 \in Seq(Part) /\ Len(U1) = k /\ k \in Nat /\ k <= Len(U)
      /\ \A i \in 1 .. k : U1[i] = U[i]
  BY <1>1 DEF U1
<1>4. SidesType(C1, S, U1, D) /\ Untouched(C1, S, U1, D)
  BY <1>1, <1>2, <1>3 DEF SidesType, Untouched
<1>5. UpCarries(C1, S, U1)
  <2>1. ASSUME S.st \in Active \cup {"queued"}, ~S.cut
        PROVE  \E m \in 0 .. Len(C.sent) : /\ m = 0 <=> S.st # "serving"
                                           /\ Carries(S.buf \o U1, C.sent, m)
    <3>1. PICK m \in 0 .. Len(C.sent) : /\ m = 0 <=> S.st # "serving"
                                        /\ Carries(S.buf \o U, C.sent, m)
      BY <2>1 DEF UpCarries
    <3>2. /\ S.buf \o U \in Seq(Part) /\ Len(S.buf \o U) = Len(S.buf) + Len(U)
          /\ \A i \in 1 .. Len(S.buf) + Len(U) :
                (S.buf \o U)[i] = IF i <= Len(S.buf) THEN S.buf[i] ELSE U[i - Len(S.buf)]
      BY <1>1, ConcatProperties
    <3>3. /\ S.buf \o U1 \in Seq(Part) /\ Len(S.buf \o U1) = Len(S.buf) + k
          /\ \A i \in 1 .. Len(S.buf) + k :
                (S.buf \o U1)[i] = IF i <= Len(S.buf) THEN S.buf[i] ELSE U1[i - Len(S.buf)]
      <4> HIDE DEF ConnInv
      <4>0. S.buf \in Seq(Part) /\ U1 \in Seq(Part)
        BY <1>1, <1>3
      <4>1. Len(S.buf \o U1) = Len(S.buf) + Len(U1)
            /\ \A i \in 1 .. Len(S.buf) + Len(U1) :
                (S.buf \o U1)[i] = IF i <= Len(S.buf) THEN S.buf[i] ELSE U1[i - Len(S.buf)]
        BY <4>0, ConcatProperties
      <4>2. QED
        BY <1>1, <1>3, <4>1, ConcatProperties
    <3>4. Len(S.buf \o U1) <= Len(S.buf \o U) /\ m \in Nat
      BY <1>1, <1>3, <3>2, <3>3
    <3>5. ASSUME NEW i \in 1 .. Len(S.buf \o U1) PROVE (S.buf \o U1)[i] = (S.buf \o U)[i]
      <4>1. Len(S.buf) \in Nat /\ i \in 1 .. Len(S.buf) + k /\ i \in 1 .. Len(S.buf) + Len(U)
            /\ (~(i <= Len(S.buf)) => i - Len(S.buf) \in 1 .. k)
        <5>1. Len(S.buf) \in Nat /\ Len(U) \in Nat /\ i \in 1 .. Len(S.buf) + k
          BY <1>1, <3>3, <3>5
        <5>2. QED
          BY <1>3, <5>1
      <4>2. QED
        BY <1>3, <3>2, <3>3, <4>1
    <3>6. Carries(S.buf \o U1, C.sent, m)
      BY <1>1, <3>1, <3>2, <3>3, <3>4, <3>5, CarriesCutOff
    <3>7. QED
      BY <3>1, <3>6
  <2>2. S.st = "serving" => \A i \in 1 .. Len(U1) : U1[i].what \in {"ping", "status"}
    BY <1>1, <1>3 DEF UpCarries
  <2>3. QED
    BY <1>2, <2>1, <2>2 DEF UpCarries, Online
<1>6. DownCarries(C1, S, D) /\ CauseKnown(C1, S) /\ RefusalCarried(C1, S, p)
  BY <1>2 DEF DownCarries, CauseKnown, RefusalCarried, Online
<1>7. QED
  BY <1>4, <1>5, <1>6


\* What a client that listens reads next.
LEMMA DownNext ==
    ASSUME NEW C, NEW S, NEW U, NEW D, NEW p, ConnInv(C, S, U, D, p), C.st \in Online, D # <<>>
    PROVE  /\ Len(C.heard) + 1 \in 1 .. Len(S.wrote)
           /\ C.buf = <<>> => Head(D).k = 1 /\ <<Head(D)>> \o Tail(D) = C.buf \o D
           /\ C.buf # <<>> => /\ Head(D).k = 2 /\ Head(D).what = S.wrote[Len(C.heard) + 1]
                              /\ Carries(<<>> \o Tail(D), S.wrote, Len(C.heard) + 1)
                              /\ Full(<<>> \o Tail(D), S.wrote, Len(C.heard) + 1)
<1> DEFINE w == S.wrote
           m == Len(C.heard)
           b == C.buf
<1>1. /\ w \in Seq(Word) /\ b \in Seq(Part) /\ m \in Nat /\ Len(b) <= 1
      /\ D \in Seq(Part) /\ Carries(b \o D, w, m) /\ Full(b \o D, w, m)
  BY DEF ConnInv, SidesType, ClientSide, DaemonSide, Untouched, DownCarries
<1> HIDE DEF w, m, b
<1>2. /\ m + 1 \in 1 .. Len(w)
      /\ b = <<>> => Head(D).k = 1 /\ <<Head(D)>> \o Tail(D) = b \o D
      /\ b # <<>> => /\ Head(D).k = 2 /\ Head(D).what = w[m + 1]
                     /\ Carries(<<>> \o Tail(D), w, m + 1)
                     /\ Full(<<>> \o Tail(D), w, m + 1)
  BY <1>1, NextPart
<1>3. QED
  BY <1>2 DEF w, m, b

\* The client reads the prefix of a frame.
LEMMA ClientPrefixConn ==
    ASSUME NEW C, NEW S, NEW U, NEW D, NEW p, ConnInv(C, S, U, D, p),
           C.st \in Online, D # <<>>, Head(D).k = 1
    PROVE  ConnInv([C EXCEPT !.buf = <<Head(D)>>], S, U, Tail(D), p)
<1> DEFINE C1 == [C EXCEPT !.buf = <<Head(D)>>]
           D1 == Tail(D)
<1> SUFFICES ConnInv(C1, S, U, D1, p)
  OBVIOUS
<1> USE DEF ConnInv
<1> HIDE DEF C1, D1
<1>1. /\ C \in ClientSide /\ S \in DaemonSide /\ U \in Seq(Part) /\ D \in Seq(Part)
      /\ C.sent \in Seq(Word) /\ C.buf \in Seq(Part) /\ C.heard \in Seq(Word)
      /\ S.wrote \in Seq(Word) /\ Len(C.heard) \in Nat /\ Len(C.buf) <= 1
  BY DEF SidesType, ClientSide, DaemonSide, Untouched
<1>2. /\ Head(D) \in Part /\ Tail(D) \in Seq(Part) /\ <<Head(D)>> \o Tail(D) = D
      /\ D1 = Tail(D)
  BY <1>1, HeadAndTail DEF D1
<1>4. /\ Len(C.heard) + 1 \in 1 .. Len(S.wrote)
      /\ C.buf = <<>> => Head(D).k = 1 /\ <<Head(D)>> \o Tail(D) = C.buf \o D
      /\ C.buf # <<>> => /\ Head(D).k = 2 /\ Head(D).what = S.wrote[Len(C.heard) + 1]
                         /\ Carries(<<>> \o Tail(D), S.wrote, Len(C.heard) + 1)
                         /\ Full(<<>> \o Tail(D), S.wrote, Len(C.heard) + 1)
  <2> HIDE DEF ConnInv
  <2>1. QED
    BY DownNext
<1>5. C.buf = <<>>
  BY <1>4
<1>6. /\ C1.sent = C.sent /\ C1.st = C.st /\ C1.hello = C.hello /\ C1.heard = C.heard
      /\ C1.buf = <<Head(D)>> /\ Len(C1.buf) = 1 /\ C1 \in ClientSide
  <2>1. <<Head(D)>> \in Seq(Part) /\ Len(<<Head(D)>>) = 1
    BY <1>2
  <2>2. QED
    BY <1>1, <2>1 DEF ClientSide, C1
<1>7. SidesType(C1, S, U, D1) /\ Untouched(C1, S, U, D1)
  BY <1>1, <1>2, <1>6 DEF SidesType, Untouched, Online
<1>8. UpCarries(C1, S, U) /\ CauseKnown(C1, S) /\ RefusalCarried(C1, S, p)
  BY <1>6 DEF UpCarries, CauseKnown, RefusalCarried
<1>9. C1.buf \o D1 = C.buf \o D
  BY <1>2, <1>4, <1>5, <1>6
<1>10. DownCarries(C1, S, D1)
  BY <1>6, <1>9 DEF DownCarries
<1>11. QED
  BY <1>7, <1>8, <1>10

\* The client has read a frame, which says what the daemon wrote next.
LEMMA ClientBodyConn ==
    ASSUME NEW C, NEW S, NEW U, NEW D, NEW p, ConnInv(C, S, U, D, p),
           C.st \in Online, D # <<>>, Head(D).k # 1
    PROVE  ConnInv([C EXCEPT !.buf = <<>>, !.heard = Append(C.heard, Head(D).what),
                          !.st = IF C.st = "open" \/ Head(D).what = "welcome" THEN "open"
                                 ELSE "refused"],
                   S,
                   U,
                   Tail(D), p)
<1> DEFINE C1 == [C EXCEPT !.buf = <<>>, !.heard = Append(C.heard, Head(D).what),
                        !.st = IF C.st = "open" \/ Head(D).what = "welcome" THEN "open"
                               ELSE "refused"]
           D1 == Tail(D)
<1> SUFFICES ConnInv(C1, S, U, D1, p)
  OBVIOUS
<1> USE DEF ConnInv
<1> HIDE DEF C1, D1
<1>1. /\ C \in ClientSide /\ S \in DaemonSide /\ U \in Seq(Part) /\ D \in Seq(Part)
      /\ C.sent \in Seq(Word) /\ C.buf \in Seq(Part) /\ C.heard \in Seq(Word)
      /\ S.wrote \in Seq(Word) /\ Len(C.heard) \in Nat /\ Len(C.buf) <= 1
  BY DEF SidesType, ClientSide, DaemonSide, Untouched
<1>2. /\ Head(D) \in Part /\ Tail(D) \in Seq(Part) /\ <<Head(D)>> \o Tail(D) = D
      /\ D1 = Tail(D)
  BY <1>1, HeadAndTail DEF D1
<1>4. /\ Len(C.heard) + 1 \in 1 .. Len(S.wrote)
      /\ C.buf = <<>> => Head(D).k = 1 /\ <<Head(D)>> \o Tail(D) = C.buf \o D
      /\ C.buf # <<>> => /\ Head(D).k = 2 /\ Head(D).what = S.wrote[Len(C.heard) + 1]
                         /\ Carries(<<>> \o Tail(D), S.wrote, Len(C.heard) + 1)
                         /\ Full(<<>> \o Tail(D), S.wrote, Len(C.heard) + 1)
  <2> HIDE DEF ConnInv
  <2>1. QED
    BY DownNext
<1>5. C.buf # <<>>
  BY <1>4
<1>7. /\ Head(D).what \in Word /\ Head(D).what = S.wrote[Len(C.heard) + 1]
  <2>1. Head(D).what \in Word
    BY <1>2 DEF Part
  <2>2. QED
    BY <1>4, <1>5, <2>1
<1>6. /\ C1 \in ClientSide /\ C1.sent = C.sent /\ C1.hello = C.hello
      /\ C1.st \in {"open", "refused"} /\ (C.st = "open" => C1.st = "open")
      /\ C1.heard = Append(C.heard, Head(D).what) /\ C1.buf = <<>>
  <2> DEFINE t == IF C.st = "open" \/ Head(D).what = "welcome" THEN "open" ELSE "refused"
             h == Append(C.heard, Head(D).what)
  <2>1. t \in {"open", "refused"} /\ (C.st = "open" => t = "open") /\ <<>> \in Seq(Part)
        /\ h \in Seq(Word)
    BY <1>1, <1>7
  <2>2. C1 = [C EXCEPT !.buf = <<>>, !.heard = h, !.st = t]
    BY DEF C1
  <2> HIDE DEF t, h
  <2>3. C \in ClientSide
    BY <1>1
  <2>4. QED
    BY <2>1, <2>2, <2>3 DEF ClientSide, Online, h
<1>8. /\ Len(C1.heard) = Len(C.heard) + 1 /\ C1.heard[Len(C.heard) + 1] = Head(D).what
      /\ \A i \in 1 .. Len(C.heard) : C1.heard[i] = C.heard[i]
  BY <1>1, <1>6, <1>7
<1>9. C1.st \notin {"off", "greeting"} /\ C.st # "off" /\ Len(C1.buf) <= 1
  BY <1>6 DEF Online
<1>10. SidesType(C1, S, U, D1) /\ Untouched(C1, S, U, D1)
  <2>1. SidesType(C1, S, U, D1)
    BY <1>1, <1>2, <1>6 DEF SidesType
  <2>2. QED
    BY <1>6, <1>9, <2>1 DEF Untouched
<1>11. UpCarries(C1, S, U)
  BY <1>6 DEF UpCarries, Online
<1>12. CauseKnown(C1, S)
  BY <1>6 DEF CauseKnown, Online
<1>13. RefusalCarried(C1, S, p)
  BY <1>6 DEF RefusalCarried
<1>14. DownCarries(C1, S, D1)
  <2>1. Len(C1.heard) <= Len(S.wrote)
    BY <1>1, <1>4, <1>8
  <2>2. \A i \in 1 .. Len(C1.heard) : C1.heard[i] = S.wrote[i]
    <3>1. SUFFICES ASSUME NEW i \in 1 .. Len(C1.heard) PROVE C1.heard[i] = S.wrote[i]
      OBVIOUS
    <3>2. CASE i = Len(C.heard) + 1
      BY <1>7, <1>8, <3>2
    <3>3. CASE i # Len(C.heard) + 1
      <4>1. i \in 1 .. Len(C.heard)
        BY <1>1, <1>8, <3>1, <3>3
      <4>2. QED
        BY <1>8, <4>1 DEF DownCarries
    <3>4. QED
      BY <3>2, <3>3
  <2>3. Carries(C1.buf \o D1, S.wrote, Len(C1.heard)) /\ Full(C1.buf \o D1, S.wrote, Len(C1.heard))
    BY <1>2, <1>4, <1>5, <1>6, <1>8
  <2>4. QED
    BY <1>6, <2>1, <2>2, <2>3 DEF DownCarries
<1>15. QED
  BY <1>10, <1>11, <1>12, <1>13, <1>14

\* The client hears of the end when nothing is under way to it.  A client of another
\* version has then read its refusal, unless the daemon went away.
LEMMA EofConn ==
    ASSUME NEW C, NEW S, NEW U, NEW D, NEW p, ConnInv(C, S, U, D, p),
           C.st \in Online, D = <<>>, S.st = "closed"
    PROVE  ConnInv([C EXCEPT !.st = IF C.st = "open" THEN "daemonClosed" ELSE "eof"],
                   S,
                   U,
                   D, p)
<1> DEFINE C1 == [C EXCEPT !.st = IF C.st = "open" THEN "daemonClosed" ELSE "eof"]
<1> SUFFICES ConnInv(C1, S, U, D, p)
  OBVIOUS
<1> USE DEF ConnInv
<1> HIDE DEF C1
<1>1. /\ C \in ClientSide /\ S \in DaemonSide /\ U \in Seq(Part) /\ D \in Seq(Part)
      /\ C.buf \in Seq(Part) /\ Len(C.buf) <= 1 /\ Len(C.buf) \in Nat
      /\ Len(C.heard) \in Nat /\ Len(S.wrote) \in Nat /\ Len(C.heard) <= Len(S.wrote)
  BY DEF SidesType, ClientSide, DaemonSide, Untouched, DownCarries
<1>2. /\ C1.sent = C.sent /\ C1.st = (IF C.st = "open" THEN "daemonClosed" ELSE "eof")
      /\ C1.hello = C.hello /\ C1.buf = C.buf /\ C1.heard = C.heard /\ C1 \in ClientSide
  BY <1>1 DEF ClientSide, C1
<1>3. Len(C.heard) = Len(S.wrote)
  <2>1. C.buf \o D = C.buf
    BY <1>1, ConcatEmptySeq
  <2>2. Len(C.buf) = 2 * (Len(S.wrote) - Len(C.heard))
    BY <2>1 DEF DownCarries, Full
  <2> DEFINE b == Len(C.buf)
             h == Len(C.heard)
             w == Len(S.wrote)
  <2>3. b = 2 * (w - h) /\ b \in Nat /\ h \in Nat /\ w \in Nat /\ b <= 1 /\ h <= w
    BY <1>1, <2>2
  <2> HIDE DEF b, h, w
  <2>4. w = h
    BY <2>3
  <2>5. QED
    BY <2>4 DEF w, h
<1>4. SidesType(C1, S, U, D) /\ Untouched(C1, S, U, D)
  BY <1>1, <1>2 DEF SidesType, Untouched, Online
<1>5. UpCarries(C1, S, U) /\ DownCarries(C1, S, D) /\ CauseKnown(C1, S)
  BY <1>2, <1>3 DEF UpCarries, DownCarries, CauseKnown, Online, Active
<1>6. RefusalCarried(C1, S, p)
  <2>1. SUFFICES ASSUME C.hello = "badVersion", C.st = "greeting", p \in Listening
                 PROVE  S.cause = "daemon"
    BY <1>2 DEF RefusalCarried, Online
  <2>2. Len(S.wrote) = 0
    BY <1>3, <2>1 DEF Untouched
  <2>3. S.cause # "refused"
    <3>1. S.wrote # <<"refusal">>
      <4>1. SUFFICES ASSUME S.wrote = <<"refusal">> PROVE FALSE
        OBVIOUS
      <4>2. Len(S.wrote) = 1
        BY <4>1
      <4>3. QED
        BY <2>2, <4>2
    <3>2. S.st # "ending"
      OBVIOUS
    <3>3. QED
      BY <2>1, <3>1, <3>2 DEF RefusalCarried
  <2>4. S.cause \in {None, "refused", "notHello", "protocol", "client", "daemon"}
    BY <1>1 DEF DaemonSide
  <2>5. QED
    BY <2>1, <2>3, <2>4 DEF CauseKnown, Active
<1>7. QED
  BY <1>4, <1>5, <1>6

LEMMA AcceptConn ==
    ASSUME NEW C, NEW S, NEW U, NEW D, NEW p, ConnInv(C, S, U, D, p),
           S.st = "queued"
    PROVE  ConnInv(C, [S EXCEPT !.st = "hello"], U, D, p)
<1> DEFINE S1 == [S EXCEPT !.st = "hello"]
<1> SUFFICES ConnInv(C, S1, U, D, p)
  OBVIOUS
<1> USE DEF ConnInv
<1> HIDE DEF S1
<1>1. /\ C \in ClientSide /\ S \in DaemonSide /\ U \in Seq(Part) /\ D \in Seq(Part)
  BY DEF SidesType
<1>0. C.st # "off"
  BY DEF Untouched, NoSession, Active
<1>2. /\ S1.st = "hello" /\ S1.status = S.status /\ S1.buf = S.buf /\ S1.out = S.out
      /\ S1.wrote = S.wrote /\ S1.cut = S.cut /\ S1.cause = S.cause
  BY <1>1 DEF DaemonSide, S1
<1>3. S1 \in DaemonSide
  BY <1>1 DEF DaemonSide, S1, Active
<1>4. SidesType(C, S1, U, D)
  BY <1>1, <1>3 DEF SidesType
<1>5. Untouched(C, S1, U, D)
  BY <1>0, <1>2 DEF Untouched, Active, Online
<1>6. UpCarries(C, S1, U)
  BY <1>2 DEF UpCarries, Active, Online
<1>7. DownCarries(C, S1, D)
  BY <1>2 DEF DownCarries, Active, Online
<1>8. CauseKnown(C, S1)
  BY <1>2 DEF CauseKnown, Active, None
<1>9. RefusalCarried(C, S1, p)
  BY <1>2 DEF RefusalCarried, CauseKnown, Active, Online
<1>10. QED
  BY <1>4, <1>5, <1>6, <1>7, <1>8, <1>9

LEMMA ReadEofConn ==
    ASSUME NEW C, NEW S, NEW U, NEW D, NEW p, ConnInv(C, S, U, D, p),
           S.st \in Active, C.st \in {"left", "refused"}
    PROVE  ConnInv(C,
                   [S EXCEPT !.st = "ending", !.status = FALSE, !.cause = "client"],
                   U,
                   D, p)
<1> DEFINE S1 == [S EXCEPT !.st = "ending", !.status = FALSE, !.cause = "client"]
<1> SUFFICES ConnInv(C, S1, U, D, p)
  OBVIOUS
<1> USE DEF ConnInv
<1> HIDE DEF S1
<1>1. /\ C \in ClientSide /\ S \in DaemonSide /\ U \in Seq(Part) /\ D \in Seq(Part)
  BY DEF SidesType
<1>0. C.st # "off"
  BY DEF Untouched, NoSession, Active
<1>2. /\ S1.st = "ending" /\ S1.status = FALSE /\ S1.buf = S.buf /\ S1.out = S.out
      /\ S1.wrote = S.wrote /\ S1.cut = S.cut /\ S1.cause = "client"
  BY <1>1 DEF DaemonSide, S1
<1>3. S1 \in DaemonSide
  BY <1>1 DEF DaemonSide, S1, Active
<1>4. SidesType(C, S1, U, D)
  BY <1>1, <1>3 DEF SidesType
<1>5. Untouched(C, S1, U, D)
  BY <1>0, <1>2 DEF Untouched, Active, Online
<1>6. UpCarries(C, S1, U)
  BY <1>2 DEF UpCarries, Active, Online
<1>7. DownCarries(C, S1, D)
  BY <1>2 DEF DownCarries, Active, Online
<1>8. CauseKnown(C, S1)
  BY <1>2 DEF CauseKnown, Active, None
<1>9. RefusalCarried(C, S1, p)
  BY <1>2 DEF RefusalCarried, CauseKnown, Active, Online
<1>10. QED
  BY <1>4, <1>5, <1>6, <1>7, <1>8, <1>9

LEMMA CloseConn ==
    ASSUME NEW C, NEW S, NEW U, NEW D, NEW p, ConnInv(C, S, U, D, p),
           S.st = "ending", S.out = <<>>
    PROVE  ConnInv(C, [S EXCEPT !.st = "closed"], U, D, p)
<1> DEFINE S1 == [S EXCEPT !.st = "closed"]
<1> SUFFICES ConnInv(C, S1, U, D, p)
  OBVIOUS
<1> USE DEF ConnInv
<1> HIDE DEF S1
<1>1. /\ C \in ClientSide /\ S \in DaemonSide /\ U \in Seq(Part) /\ D \in Seq(Part)
  BY DEF SidesType
<1>0. C.st # "off"
  BY DEF Untouched, NoSession, Active
<1>2. /\ S1.st = "closed" /\ S1.status = S.status /\ S1.buf = S.buf /\ S1.out = S.out
      /\ S1.wrote = S.wrote /\ S1.cut = S.cut /\ S1.cause = S.cause
  BY <1>1 DEF DaemonSide, S1
<1>3. S1 \in DaemonSide
  BY <1>1 DEF DaemonSide, S1, Active
<1>4. SidesType(C, S1, U, D)
  BY <1>1, <1>3 DEF SidesType
<1>5. Untouched(C, S1, U, D)
  BY <1>0, <1>2 DEF Untouched, Active, Online
<1>6. UpCarries(C, S1, U)
  BY <1>2 DEF UpCarries, Active, Online
<1>7. DownCarries(C, S1, D)
  BY <1>2 DEF DownCarries, Active, Online
<1>8. CauseKnown(C, S1)
  BY <1>2 DEF CauseKnown, Active, None
<1>9. RefusalCarried(C, S1, p)
  BY <1>2 DEF RefusalCarried, CauseKnown, Active, Online
<1>10. QED
  BY <1>4, <1>5, <1>6, <1>7, <1>8, <1>9

LEMMA WriteOfflineConn ==
    ASSUME NEW C, NEW S, NEW U, NEW D, NEW p, ConnInv(C, S, U, D, p),
           S.st \in Active \cup {"ending"}, C.st \notin Online, C.st # "off"
    PROVE  ConnInv(C, [S EXCEPT !.out = <<>>], U, D, p)
<1> DEFINE S1 == [S EXCEPT !.out = <<>>]
<1> SUFFICES ConnInv(C, S1, U, D, p)
  OBVIOUS
<1> USE DEF ConnInv
<1> HIDE DEF S1
<1>1. /\ C \in ClientSide /\ S \in DaemonSide /\ U \in Seq(Part) /\ D \in Seq(Part)
  BY DEF SidesType
<1>0. C.st # "off"
  BY DEF Untouched, NoSession, Active
<1>2. /\ S1.st = S.st /\ S1.status = S.status /\ S1.buf = S.buf /\ S1.out = <<>>
      /\ S1.wrote = S.wrote /\ S1.cut = S.cut /\ S1.cause = S.cause
  BY <1>1 DEF DaemonSide, S1
<1>3. S1 \in DaemonSide
  <2>1. <<>> \in Seq(Word)
    OBVIOUS
  <2>2. QED
    BY <1>1, <2>1 DEF DaemonSide, S1
<1>4. SidesType(C, S1, U, D)
  BY <1>1, <1>3 DEF SidesType
<1>5. Untouched(C, S1, U, D)
  BY <1>0, <1>2 DEF Untouched, Active, Online
<1>6. UpCarries(C, S1, U)
  BY <1>2 DEF UpCarries, Active, Online
<1>7. DownCarries(C, S1, D)
  BY <1>2 DEF DownCarries, Active, Online
<1>8. CauseKnown(C, S1)
  BY <1>2 DEF CauseKnown, Active, None
<1>9. RefusalCarried(C, S1, p)
  BY <1>2 DEF RefusalCarried, CauseKnown, Active, Online
<1>10. QED
  BY <1>4, <1>5, <1>6, <1>7, <1>8, <1>9

\* A connection the listener had not accepted ends with the listener.
LEMMA StopConn ==
    ASSUME NEW C, NEW S, NEW U, NEW D, NEW p, ConnInv(C, S, U, D, p),
           S.st = "queued", NEW p1
    PROVE  ConnInv(C, [S EXCEPT !.st = "closed", !.cause = "daemon"], U, D, p1)
<1> DEFINE S1 == [S EXCEPT !.st = "closed", !.cause = "daemon"]
<1> SUFFICES ConnInv(C, S1, U, D, p1)
  OBVIOUS
<1> USE DEF ConnInv
<1> HIDE DEF S1
<1>1. /\ C \in ClientSide /\ S \in DaemonSide /\ U \in Seq(Part) /\ D \in Seq(Part)
  BY DEF SidesType
<1>0. C.st # "off"
  BY DEF Untouched, NoSession, Active
<1>2. /\ S1.st = "closed" /\ S1.status = S.status /\ S1.buf = S.buf /\ S1.out = S.out
      /\ S1.wrote = S.wrote /\ S1.cut = S.cut /\ S1.cause = "daemon"
  BY <1>1 DEF DaemonSide, S1
<1>3. S1 \in DaemonSide
  BY <1>1 DEF DaemonSide, S1, Active
<1>4. SidesType(C, S1, U, D)
  BY <1>1, <1>3 DEF SidesType
<1>5. Untouched(C, S1, U, D)
  BY <1>0, <1>2 DEF Untouched, Active, Online
<1>6. UpCarries(C, S1, U)
  BY <1>2 DEF UpCarries, Active, Online
<1>7. DownCarries(C, S1, D)
  BY <1>2 DEF DownCarries, Active, Online
<1>8. CauseKnown(C, S1)
  BY <1>2 DEF CauseKnown, Active, None
<1>9. RefusalCarried(C, S1, p1)
  BY <1>2 DEF RefusalCarried, CauseKnown, Active, Online
<1>10. QED
  BY <1>4, <1>5, <1>6, <1>7, <1>8, <1>9

-----------------------------------------------------------------------------
(* What the daemon reads.                                                  *)

\* Every part of the frames says one of the words that are left.
LEMMA CarriesWords ==
    ASSUME NEW w \in Seq(Word), NEW q \in Seq(Part), NEW m \in Nat, Carries(q, w, m),
           NEW i \in 1 .. Len(q)
    PROVE  \E j \in m + 1 .. Len(w) : q[i].what = w[j]
<1>1. Len(w) \in Nat /\ Len(q) \in Nat /\ m \in 0 .. Len(w) /\ Len(q) <= 2 * (Len(w) - m)
      /\ i \in Nat
  BY DEF Carries
<1>2. PICK j \in Nat : i = 2 * j - 1 \/ i = 2 * j
  <2>1. (i + 1) \div 2 \in Nat /\ (i = 2 * ((i + 1) \div 2) - 1 \/ i = 2 * ((i + 1) \div 2))
    BY <1>1
  <2>2. QED
    BY <2>1
<1>3. j \in 1 .. Len(w) - m /\ m + j \in m + 1 .. Len(w)
  BY <1>1, <1>2
<1>4. q[i].what = w[m + j]
  <2>1. /\ 2 * j - 1 <= Len(q) => q[2 * j - 1] = [n |-> m + j, k |-> 1, what |-> w[m + j]]
        /\ 2 * j <= Len(q) => q[2 * j] = [n |-> m + j, k |-> 2, what |-> w[m + j]]
    BY <1>3 DEF Carries
  <2>2. CASE i = 2 * j - 1
    BY <2>1, <2>2
  <2>3. CASE i = 2 * j
    BY <2>1, <2>3
  <2>4. QED
    BY <1>2, <2>2, <2>3
<1>5. QED
  BY <1>3, <1>4

\* What a session reads next after m frames, as long as no read was cut.
ReadsNext(C, S, U, m) ==
    /\ m = 0 <=> S.st # "serving"
    /\ Carries(S.buf \o U, C.sent, m)
    /\ C.st \in Online => Full(S.buf \o U, C.sent, m)
    /\ m + 1 \in 1 .. Len(C.sent)
    /\ S.buf = <<>> => Head(U).k = 1 /\ <<Head(U)>> \o Tail(U) = S.buf \o U
    /\ S.buf # <<>> => /\ S.buf[1].k = 1 /\ Head(U).k = 2 /\ Head(U).n = S.buf[1].n
                       /\ Head(U).what = C.sent[m + 1]
                       /\ Carries(<<>> \o Tail(U), C.sent, m + 1)
                       /\ C.st \in Online => Full(<<>> \o Tail(U), C.sent, m + 1)

LEMMA UpNext ==
    ASSUME NEW C, NEW S, NEW U, NEW D, NEW p, ConnInv(C, S, U, D, p),
           S.st \in Active, ~S.cut, U # <<>>
    PROVE  \E m \in 0 .. Len(C.sent) : ReadsNext(C, S, U, m)
<1>1. PICK m \in 0 .. Len(C.sent) :
         /\ m = 0 <=> S.st # "serving"
         /\ Carries(S.buf \o U, C.sent, m)
         /\ C.st \in Online => Full(S.buf \o U, C.sent, m)
  BY DEF ConnInv, UpCarries
<1> DEFINE w == C.sent
           b == S.buf
<1>2. /\ w \in Seq(Word) /\ b \in Seq(Part) /\ Len(b) <= 1 /\ U \in Seq(Part)
      /\ Carries(b \o U, w, m) /\ (C.st \in Online => Full(b \o U, w, m))
  BY <1>1 DEF ConnInv, SidesType, ClientSide, DaemonSide, Untouched
<1>3. m \in Nat
  BY <1>2
<1> HIDE DEF w, b
<1>4. /\ m + 1 \in 1 .. Len(w)
      /\ b = <<>> => Head(U).k = 1 /\ <<Head(U)>> \o Tail(U) = b \o U
      /\ b # <<>> => /\ b[1].k = 1 /\ Head(U).k = 2 /\ Head(U).n = b[1].n
                     /\ Head(U).what = w[m + 1]
                     /\ Carries(<<>> \o Tail(U), w, m + 1)
                     /\ Full(b \o U, w, m) => Full(<<>> \o Tail(U), w, m + 1)
  BY <1>2, <1>3, NextPart
<1>5. QED
  BY <1>1, <1>2, <1>4 DEF w, b, ReadsNext

\* Reading a part leaves parts that were there before.
LEMMA RestWords ==
    ASSUME NEW C, NEW S, NEW U, NEW D, NEW p, ConnInv(C, S, U, D, p), U # <<>>,
           S.st = "serving"
    PROVE  /\ Head(U).what \in {"ping", "status"}
           /\ \A i \in 1 .. Len(Tail(U)) : Tail(U)[i].what \in {"ping", "status"}
<1>1. U \in Seq(Part) /\ \A i \in 1 .. Len(U) : U[i].what \in {"ping", "status"}
  BY DEF ConnInv, SidesType, UpCarries
<1>2. /\ U[1] = Head(U) /\ Len(U) \in Nat \ {0} /\ Len(Tail(U)) = Len(U) - 1
      /\ \A i \in 1 .. Len(Tail(U)) : Tail(U)[i] = U[i + 1]
  BY <1>1, HeadAndTail
<1>3. 1 \in 1 .. Len(U) /\ \A i \in 1 .. Len(Tail(U)) : i + 1 \in 1 .. Len(U)
  BY <1>2
<1>4. QED
  BY <1>1, <1>2, <1>3

\* The session reads the prefix of a frame.
LEMMA ReadPrefixConn ==
    ASSUME NEW C, NEW S, NEW U, NEW D, NEW p, ConnInv(C, S, U, D, p),
           S.st \in Active, U # <<>>, S.buf = <<>>, Head(U).k = 1
    PROVE  ConnInv(C, [S EXCEPT !.buf = <<Head(U)>>], Tail(U), D, p)
<1> DEFINE S1 == [S EXCEPT !.buf = <<Head(U)>>]
           U1 == Tail(U)
<1> SUFFICES ConnInv(C, S1, U1, D, p)
  OBVIOUS
<1> USE DEF ConnInv
<1> HIDE DEF S1, U1
<1>1. /\ C \in ClientSide /\ S \in DaemonSide /\ U \in Seq(Part) /\ D \in Seq(Part)
  BY DEF SidesType
<1>0. C.st # "off"
  BY DEF Untouched, NoSession, Active
<1>2. /\ S1.st = S.st /\ S1.status = S.status /\ S1.buf = <<Head(U)>>
      /\ S1.out = S.out /\ S1.wrote = S.wrote /\ S1.cut = S.cut /\ S1.cause = S.cause
  BY <1>1 DEF DaemonSide, S1
<1>a. Head(U) \in Part /\ Tail(U) \in Seq(Part) /\ U1 = Tail(U)
  BY <1>1, HeadAndTail DEF U1
<1>b. S1.buf \in Seq(Part) /\ Len(S1.buf) = 1
  BY <1>2, <1>a
<1>3. S1 \in DaemonSide
  <2>1. <<Head(U)>> \in Seq(Part)
    BY <1>a
  <2>2. QED
    BY <1>1, <2>1 DEF DaemonSide, S1
<1>4. SidesType(C, S1, U1, D)
  BY <1>1, <1>3, <1>a DEF SidesType
<1>5. Untouched(C, S1, U1, D)
  BY <1>0, <1>2, <1>b DEF Untouched
<1>6. UpCarries(C, S1, U1)
  <2>1. ASSUME ~S.cut
        PROVE  \E m \in 0 .. Len(C.sent) :
                  /\ m = 0 <=> S.st # "serving"
                  /\ Carries(S1.buf \o U1, C.sent, m)
                  /\ C.st \in Online => Full(S1.buf \o U1, C.sent, m)
    <3>1. PICK m \in 0 .. Len(C.sent) : ReadsNext(C, S, U, m)
      <4> HIDE DEF ConnInv
      <4>1. QED
        BY <2>1, UpNext
    <3>2. S1.buf \o U1 = S.buf \o U
      BY <1>2, <1>a, <3>1 DEF ReadsNext
    <3>3. QED
      BY <3>1, <3>2 DEF ReadsNext
  <2>2. S.st = "serving" => \A i \in 1 .. Len(U1) : U1[i].what \in {"ping", "status"}
    <3> HIDE DEF ConnInv
    <3>1. QED
      BY <1>a, RestWords
  <2>3. QED
    BY <1>2, <2>1, <2>2 DEF UpCarries
<1>7. DownCarries(C, S1, D)
  BY <1>2 DEF DownCarries, Active, Online
<1>8. CauseKnown(C, S1)
  BY <1>2 DEF CauseKnown, Active, None
<1>9. RefusalCarried(C, S1, p)
  BY <1>2 DEF RefusalCarried, CauseKnown, Active, Online
<1>10. QED
  BY <1>4, <1>5, <1>6, <1>7, <1>8, <1>9

\* A session whose read was cut reads parts for something else,
LEMMA ReadRestConn ==
    ASSUME NEW C, NEW S, NEW U, NEW D, NEW p, ConnInv(C, S, U, D, p),
           S.st \in Active, U # <<>>, S.cut, NEW b \in Seq(Part), Len(b) <= 1
    PROVE  ConnInv(C, [S EXCEPT !.buf = b], Tail(U), D, p)
<1> DEFINE S1 == [S EXCEPT !.buf = b]
           U1 == Tail(U)
<1> SUFFICES ConnInv(C, S1, U1, D, p)
  OBVIOUS
<1> USE DEF ConnInv
<1> HIDE DEF S1, U1
<1>1. /\ C \in ClientSide /\ S \in DaemonSide /\ U \in Seq(Part) /\ D \in Seq(Part)
  BY DEF SidesType
<1>0. C.st # "off"
  BY DEF Untouched, NoSession, Active
<1>2. /\ S1.st = S.st /\ S1.status = S.status /\ S1.buf = b /\ S1.out = S.out
      /\ S1.wrote = S.wrote /\ S1.cut = S.cut /\ S1.cause = S.cause
  BY <1>1 DEF DaemonSide, S1
<1>a. Head(U) \in Part /\ Tail(U) \in Seq(Part) /\ U1 = Tail(U)
  BY <1>1, HeadAndTail DEF U1
<1>3. S1 \in DaemonSide
  BY <1>1 DEF DaemonSide, S1, Active
<1>4. SidesType(C, S1, U1, D)
  BY <1>1, <1>3, <1>a DEF SidesType
<1>5. Untouched(C, S1, U1, D)
  BY <1>0, <1>2 DEF Untouched, Active, Online
<1>6. UpCarries(C, S1, U1)
  <2>2. S.st = "serving" => \A i \in 1 .. Len(U1) : U1[i].what \in {"ping", "status"}
    <3> HIDE DEF ConnInv
    <3>1. QED
      BY <1>a, RestWords
  <2>3. QED
    BY <1>2, <2>2 DEF UpCarries
<1>7. DownCarries(C, S1, D)
  BY <1>2 DEF DownCarries, Active, Online
<1>8. CauseKnown(C, S1)
  BY <1>2 DEF CauseKnown, Active, None
<1>9. RefusalCarried(C, S1, p)
  BY <1>2 DEF RefusalCarried, CauseKnown, Active, Online
<1>10. QED
  BY <1>4, <1>5, <1>6, <1>7, <1>8, <1>9

\* or ends with a protocol error.
LEMMA ReadProtocolConn ==
    ASSUME NEW C, NEW S, NEW U, NEW D, NEW p, ConnInv(C, S, U, D, p),
           S.st \in Active, U # <<>>, S.cut
    PROVE  ConnInv(C,
                   [S EXCEPT !.st = "ending", !.status = FALSE, !.cause = "protocol"],
                   Tail(U),
                   D, p)
<1> DEFINE S1 == [S EXCEPT !.st = "ending", !.status = FALSE, !.cause = "protocol"]
           U1 == Tail(U)
<1> SUFFICES ConnInv(C, S1, U1, D, p)
  OBVIOUS
<1> USE DEF ConnInv
<1> HIDE DEF S1, U1
<1>1. /\ C \in ClientSide /\ S \in DaemonSide /\ U \in Seq(Part) /\ D \in Seq(Part)
  BY DEF SidesType
<1>0. C.st # "off"
  BY DEF Untouched, NoSession, Active
<1>2. /\ S1.st = "ending" /\ S1.status = FALSE /\ S1.buf = S.buf /\ S1.out = S.out
      /\ S1.wrote = S.wrote /\ S1.cut = S.cut /\ S1.cause = "protocol"
  BY <1>1 DEF DaemonSide, S1
<1>a. Head(U) \in Part /\ Tail(U) \in Seq(Part) /\ U1 = Tail(U)
  BY <1>1, HeadAndTail DEF U1
<1>3. S1 \in DaemonSide
  BY <1>1 DEF DaemonSide, S1, Active
<1>4. SidesType(C, S1, U1, D)
  BY <1>1, <1>3, <1>a DEF SidesType
<1>5. Untouched(C, S1, U1, D)
  BY <1>0, <1>2 DEF Untouched, Active, Online
<1>6. UpCarries(C, S1, U1)
  BY <1>2 DEF UpCarries, Active, Online
<1>7. DownCarries(C, S1, D)
  BY <1>2 DEF DownCarries, Active, Online
<1>8. CauseKnown(C, S1)
  BY <1>2 DEF CauseKnown, Active, None
<1>9. RefusalCarried(C, S1, p)
  BY <1>2 DEF RefusalCarried, CauseKnown, Active, Online
<1>10. QED
  BY <1>4, <1>5, <1>6, <1>7, <1>8, <1>9

\* A tick drops the read under way.
LEMMA TickConn ==
    ASSUME NEW C, NEW S, NEW U, NEW D, NEW p, ConnInv(C, S, U, D, p),
           S.st = "serving"
    PROVE  ConnInv(C,
                   [S EXCEPT !.buf = <<>>, !.cut = (S.cut \/ S.buf # <<>>), !.out = Append(S.out, "snapshot")],
                   U,
                   D, p)
<1> DEFINE S1 == [S EXCEPT !.buf = <<>>, !.cut = (S.cut \/ S.buf # <<>>), !.out = Append(S.out, "snapshot")]
<1> SUFFICES ConnInv(C, S1, U, D, p)
  OBVIOUS
<1> USE DEF ConnInv
<1> HIDE DEF S1
<1>1. /\ C \in ClientSide /\ S \in DaemonSide /\ U \in Seq(Part) /\ D \in Seq(Part)
  BY DEF SidesType
<1>0. C.st # "off"
  BY DEF Untouched, NoSession, Active
<1>2. /\ S1.st = S.st /\ S1.status = S.status /\ S1.buf = <<>>
      /\ S1.out = Append(S.out, "snapshot") /\ S1.wrote = S.wrote
      /\ S1.cut = (S.cut \/ S.buf # <<>>) /\ S1.cause = S.cause
  BY <1>1 DEF DaemonSide, S1
<1>a. <<>> \in Seq(Part) /\ Append(S.out, "snapshot") \in Seq(Word) /\ (S.cut \/ S.buf # <<>>) \in BOOLEAN
  <2>1. S.out \in Seq(Word) /\ S.cut \in BOOLEAN /\ "snapshot" \in Word
    BY <1>1 DEF DaemonSide, Word
  <2>2. QED
    BY <2>1
<1>3. S1 \in DaemonSide
  BY <1>1, <1>a DEF DaemonSide, S1
<1>4. SidesType(C, S1, U, D)
  BY <1>1, <1>3 DEF SidesType
<1>5. Untouched(C, S1, U, D)
  BY <1>0, <1>2 DEF Untouched, Active, Online
<1>6. UpCarries(C, S1, U)
  <2>1. ~S1.cut => ~S.cut /\ S.buf = <<>>
    BY <1>2
  <2>2. QED
    BY <1>2, <2>1 DEF UpCarries, Active
<1>7. DownCarries(C, S1, D)
  BY <1>2 DEF DownCarries, Active, Online
<1>8. CauseKnown(C, S1)
  BY <1>2 DEF CauseKnown, Active, None
<1>9. RefusalCarried(C, S1, p)
  BY <1>2 DEF RefusalCarried, CauseKnown, Active, Online
<1>10. QED
  BY <1>4, <1>5, <1>6, <1>7, <1>8, <1>9

\* The handshake and the commands.
LEMMA HandledIs ==
    ASSUME NEW s \in DaemonSide
    PROVE  /\ s.st = "hello" => /\ Handled(s, "ok") = Replied([s EXCEPT !.st = "serving"], "welcome")
                                /\ Handled(s, "badVersion") = Ended(Replied(s, "refusal"), "refused")
                                /\ Handled(s, "notHello") = Ended(s, "notHello")
           /\ s.st = "serving" => /\ Handled(s, "ping") = Replied(s, "pong")
                                  /\ Handled(s, "status") = Replied([s EXCEPT !.status = TRUE], "snapshot")
BY DEF Handled

\* A reply queues one word more.
LEMMA RepliedIs ==
    ASSUME NEW s \in DaemonSide, NEW a \in Word
    PROVE  /\ Replied(s, a) \in DaemonSide /\ Replied(s, a).out = Append(s.out, a)
           /\ Replied(s, a).st = s.st /\ Replied(s, a).buf = s.buf
           /\ Replied(s, a).wrote = s.wrote /\ Replied(s, a).cut = s.cut
           /\ Replied(s, a).cause = s.cause
<1>1. Append(s.out, a) \in Seq(Word)
  BY DEF DaemonSide
<1>2. QED
  BY <1>1 DEF Replied, DaemonSide

LEMMA EndedIs ==
    ASSUME NEW s \in DaemonSide, NEW why \in {"refused", "notHello", "protocol", "client"}
    PROVE  /\ Ended(s, why) \in DaemonSide /\ Ended(s, why).out = s.out
           /\ Ended(s, why).st = "ending" /\ Ended(s, why).buf = s.buf
           /\ Ended(s, why).wrote = s.wrote /\ Ended(s, why).cut = s.cut
           /\ Ended(s, why).cause = why
BY DEF Ended, DaemonSide

\* What a session that handles a word in its turn becomes.
LEMMA HandledShape ==
    ASSUME NEW S \in DaemonSide, NEW what,
           \/ S.st = "hello" /\ what \in Hellos
           \/ S.st = "serving" /\ what \in {"ping", "status"}
    PROVE  LET s == Handled([S EXCEPT !.buf = <<>>], what) IN
           /\ s \in DaemonSide /\ s.buf = <<>> /\ s.wrote = S.wrote /\ s.cut = S.cut
           /\ \/ s.st = "serving" /\ s.cause = S.cause /\ (S.st = "hello" => what = "ok")
              \/ /\ s.st = "ending" /\ S.st = "hello"
                 /\ what = "badVersion" /\ s.cause = "refused" /\ s.out = Append(S.out, "refusal")
              \/ s.st = "ending" /\ S.st = "hello" /\ what = "notHello" /\ s.cause = "notHello"
<1> DEFINE r == [S EXCEPT !.buf = <<>>]
<1>1. /\ r \in DaemonSide /\ r.st = S.st /\ r.out = S.out /\ r.wrote = S.wrote
      /\ r.cut = S.cut /\ r.cause = S.cause /\ r.buf = <<>>
  <2>1. <<>> \in Seq(Part)
    OBVIOUS
  <2>2. QED
    BY <2>1 DEF DaemonSide
<1> HIDE DEF r
<1>2. /\ [r EXCEPT !.st = "serving"] \in DaemonSide
      /\ [r EXCEPT !.st = "serving"].st = "serving"
      /\ [r EXCEPT !.st = "serving"].out = r.out
      /\ [r EXCEPT !.st = "serving"].wrote = r.wrote
      /\ [r EXCEPT !.st = "serving"].cut = r.cut
      /\ [r EXCEPT !.st = "serving"].cause = r.cause
      /\ [r EXCEPT !.st = "serving"].buf = r.buf
  BY <1>1 DEF DaemonSide, Active
<1>3. /\ [r EXCEPT !.status = TRUE] \in DaemonSide
      /\ [r EXCEPT !.status = TRUE].st = r.st
      /\ [r EXCEPT !.status = TRUE].wrote = r.wrote
      /\ [r EXCEPT !.status = TRUE].cut = r.cut
      /\ [r EXCEPT !.status = TRUE].cause = r.cause
      /\ [r EXCEPT !.status = TRUE].buf = r.buf
  BY <1>1 DEF DaemonSide
<1> DEFINE s == Handled(r, what)
<1>4. "welcome" \in Word /\ "refusal" \in Word /\ "pong" \in Word /\ "snapshot" \in Word
  BY DEF Word
<1>5. CASE S.st = "hello" /\ what = "ok"
  <2>1. s = Replied([r EXCEPT !.st = "serving"], "welcome")
    BY <1>1, <1>5, HandledIs
  <2> HIDE DEF s
  <2>2. /\ s \in DaemonSide /\ s.st = "serving" /\ s.buf = <<>> /\ s.wrote = S.wrote
        /\ s.cut = S.cut /\ s.cause = S.cause
    BY <1>1, <1>2, <1>4, <2>1, RepliedIs
  <2>3. QED
    BY <1>5, <2>2 DEF s, r
<1>6. CASE S.st = "hello" /\ what = "badVersion"
  <2>1. s = Ended(Replied(r, "refusal"), "refused")
    BY <1>1, <1>6, HandledIs
  <2> HIDE DEF s
  <2>2. /\ s \in DaemonSide /\ s.st = "ending" /\ s.buf = <<>> /\ s.wrote = S.wrote
        /\ s.cut = S.cut /\ s.cause = "refused" /\ s.out = Append(S.out, "refusal")
    <3> DEFINE t == Replied(r, "refusal")
    <3>1. /\ t \in DaemonSide /\ t.buf = <<>> /\ t.wrote = S.wrote /\ t.cut = S.cut
      BY <1>1, <1>4, RepliedIs
    <3>2. t.out = Append(S.out, "refusal")
      <4>1. t.out = Append(r.out, "refusal")
        BY <1>1, <1>4, RepliedIs
      <4> HIDE DEF t
      <4>2. QED
        BY <1>1, <4>1
    <3>3. s = Ended(t, "refused")
      BY <2>1
    <3> HIDE DEF t
    <3>4. QED
      BY <3>1, <3>2, <3>3, EndedIs
  <2>3. QED
    BY <1>6, <2>2 DEF s, r
<1>7. CASE S.st = "hello" /\ what = "notHello"
  <2>1. s = Ended(r, "notHello")
    BY <1>1, <1>7, HandledIs
  <2> HIDE DEF s
  <2>2. /\ s \in DaemonSide /\ s.st = "ending" /\ s.buf = <<>> /\ s.wrote = S.wrote
        /\ s.cut = S.cut /\ s.cause = "notHello"
    BY <1>1, <2>1, EndedIs
  <2>3. QED
    BY <1>7, <2>2 DEF s, r
<1>8. CASE S.st = "serving" /\ what = "ping"
  <2>1. s = Replied(r, "pong")
    BY <1>1, <1>8, HandledIs
  <2> HIDE DEF s
  <2>2. /\ s \in DaemonSide /\ s.st = "serving" /\ s.buf = <<>> /\ s.wrote = S.wrote
        /\ s.cut = S.cut /\ s.cause = S.cause
    BY <1>1, <1>4, <1>8, <2>1, RepliedIs
  <2>3. QED
    BY <1>8, <2>2 DEF s, r
<1>9. CASE S.st = "serving" /\ what = "status"
  <2>1. s = Replied([r EXCEPT !.status = TRUE], "snapshot")
    BY <1>1, <1>9, HandledIs
  <2> HIDE DEF s
  <2>2. /\ s \in DaemonSide /\ s.st = "serving" /\ s.buf = <<>> /\ s.wrote = S.wrote
        /\ s.cut = S.cut /\ s.cause = S.cause
    <3> DEFINE t == [r EXCEPT !.status = TRUE]
    <3>1. /\ t \in DaemonSide /\ t.buf = <<>> /\ t.wrote = S.wrote /\ t.cut = S.cut
          /\ t.cause = S.cause /\ t.st = "serving" /\ s = Replied(t, "snapshot")
      BY <1>1, <1>3, <1>9, <2>1
    <3> HIDE DEF t
    <3>2. QED
      BY <1>4, <3>1, RepliedIs
  <2>3. QED
    BY <1>9, <2>2 DEF s, r
<1>10. QED
  BY <1>5, <1>6, <1>7, <1>8, <1>9 DEF Hellos

\* The session has read a frame, which says what the client sent next.
LEMMA ReadBodyConn ==
    ASSUME NEW C, NEW S, NEW U, NEW D, NEW p, ConnInv(C, S, U, D, p),
           S.st \in Active, U # <<>>, S.buf # <<>>, S.buf[1].k = 1,
           Head(U).n = S.buf[1].n, Head(U).k = 2
    PROVE  ConnInv(C, Handled([S EXCEPT !.buf = <<>>], Head(U).what), Tail(U), D, p)
<1> DEFINE S1 == Handled([S EXCEPT !.buf = <<>>], Head(U).what)
           U1 == Tail(U)
<1> SUFFICES ConnInv(C, S1, U1, D, p)
  OBVIOUS
<1> USE DEF ConnInv
<1> HIDE DEF S1, U1
<1>1. /\ C \in ClientSide /\ S \in DaemonSide /\ U \in Seq(Part) /\ D \in Seq(Part)
      /\ C.sent \in Seq(Word) /\ C.hello \in Hellos
  BY DEF SidesType, ClientSide
<1>2. /\ Head(U) \in Part /\ Tail(U) \in Seq(Part) /\ U1 = Tail(U) /\ <<>> \o Tail(U) = Tail(U)
  BY <1>1, HeadAndTail, ConcatEmptySeq DEF U1
<1>3. /\ C.st # "off" /\ (S.st = "hello" => ~S.cut)
      /\ C.sent # <<>> /\ C.sent[1] = C.hello
      /\ \A i \in 2 .. Len(C.sent) : C.sent[i] \in {"ping", "status"}
  BY DEF Untouched, UpCarries, NoSession, Active
<1>4. ~S.cut => \E m \in 0 .. Len(C.sent) : ReadsNext(C, S, U, m)
  <2> HIDE DEF ConnInv
  <2>1. QED
    BY UpNext
<1>5. S.st = "hello" => Head(U).what = C.hello
  BY <1>3, <1>4 DEF ReadsNext
<1>6. S.st = "serving" => /\ Head(U).what \in {"ping", "status"}
                          /\ \A i \in 1 .. Len(U1) : U1[i].what \in {"ping", "status"}
  <2> HIDE DEF ConnInv
  <2>1. QED
    BY <1>2, RestWords
<1>7. \/ S.st = "hello" /\ Head(U).what \in Hellos
      \/ S.st = "serving" /\ Head(U).what \in {"ping", "status"}
  BY <1>1, <1>5, <1>6 DEF Active
<1>8. /\ S1 \in DaemonSide /\ S1.buf = <<>> /\ S1.wrote = S.wrote /\ S1.cut = S.cut
      /\ \/ S1.st = "serving" /\ S1.cause = S.cause /\ (S.st = "hello" => Head(U).what = "ok")
         \/ /\ S1.st = "ending" /\ S.st = "hello" /\ Head(U).what = "badVersion"
            /\ S1.cause = "refused" /\ S1.out = Append(S.out, "refusal")
         \/ /\ S1.st = "ending" /\ S.st = "hello" /\ Head(U).what = "notHello"
            /\ S1.cause = "notHello"
  <2> HIDE DEF ConnInv
  <2>1. QED
    BY <1>1, <1>7, HandledShape DEF S1
<1>9. /\ S.st = "hello" => S.out = <<>> /\ S.wrote = <<>>
      /\ S.cause = None /\ (S.st = "serving" => C.hello = "ok")
      /\ S.cut => C.hello = "ok"
  BY DEF Untouched, CauseKnown, Active
<1>10. SidesType(C, S1, U1, D)
  BY <1>1, <1>2, <1>8 DEF SidesType
<1>11. Untouched(C, S1, U1, D)
  <2>1. S1.st \notin {"none", "queued", "hello"} /\ Len(S1.buf) = 0
    BY <1>8
  <2>2. QED
    BY <1>3, <2>1 DEF Untouched
<1>12. UpCarries(C, S1, U1)
  <2>1. CASE S1.st = "ending"
    BY <2>1 DEF UpCarries, Active
  <2>2. CASE S1.st = "serving"
    <3>1. ASSUME ~S.cut
          PROVE  \E m \in 0 .. Len(C.sent) :
                    /\ m # 0 /\ Carries(S1.buf \o U1, C.sent, m)
                    /\ C.st \in Online => Full(S1.buf \o U1, C.sent, m)
      <4>1. PICK m \in 0 .. Len(C.sent) : ReadsNext(C, S, U, m)
        BY <1>4, <3>1
      <4>2. /\ m + 1 \in 0 .. Len(C.sent) /\ m + 1 # 0
        BY <1>1, <4>1 DEF ReadsNext
      <4>3. /\ Carries(S1.buf \o U1, C.sent, m + 1)
            /\ C.st \in Online => Full(S1.buf \o U1, C.sent, m + 1)
        BY <1>2, <1>8, <4>1 DEF ReadsNext
      <4>4. QED
        BY <4>2, <4>3
    <3>2. \A i \in 1 .. Len(U1) : U1[i].what \in {"ping", "status"}
      <4>1. CASE S.st = "serving"
        BY <1>6, <4>1
      <4>2. CASE S.st = "hello"
        <5>1. PICK m \in 0 .. Len(C.sent) : ReadsNext(C, S, U, m)
          BY <1>3, <1>4, <4>2
        <5>2. m = 0 /\ Carries(U1, C.sent, 1)
          BY <1>2, <4>2, <5>1 DEF ReadsNext
        <5>3. ASSUME NEW i \in 1 .. Len(U1)
              PROVE  \E j \in 2 .. Len(C.sent) : U1[i].what = C.sent[j]
          <6> DEFINE w == C.sent
          <6>1. w \in Seq(Word) /\ U1 \in Seq(Part) /\ Carries(U1, w, 1)
            BY <1>1, <1>2, <5>2
          <6> HIDE DEF w
          <6>2. \E j \in 1 + 1 .. Len(w) : U1[i].what = w[j]
            BY <5>3, <6>1, CarriesWords
          <6>3. QED
            BY <6>2 DEF w
        <5>4. QED
          BY <1>3, <5>3
      <4>3. QED
        BY <4>1, <4>2 DEF Active
    <3>3. QED
      BY <1>8, <2>2, <3>1, <3>2 DEF UpCarries, Active
  <2>3. QED
    BY <1>8, <2>1, <2>2
<1>13. DownCarries(C, S1, D)
  BY <1>8 DEF DownCarries, Active
<1>14. CauseKnown(C, S1)
  BY <1>5, <1>8, <1>9 DEF CauseKnown, Active, None
<1>15. RefusalCarried(C, S1, p)
  <2>1. S1.st = "ending" /\ S1.cause = "refused" =>
            S1.wrote = <<>> /\ S1.out = <<"refusal">>
    BY <1>8, <1>9
  <2>2. S1.cause = "refused" => S1.st = "ending"
    BY <1>8, <1>9 DEF None
  <2>3. C.st # "eof"
    BY DEF DownCarries, Active
  <2>4. QED
    BY <2>1, <2>2, <2>3 DEF RefusalCarried
<1>16. QED
  BY <1>10, <1>11, <1>12, <1>13, <1>14, <1>15

\* The writer puts a frame on the way to a client that listens.
LEMMA WriteConn ==
    ASSUME NEW C, NEW S, NEW U, NEW D, NEW p, ConnInv(C, S, U, D, p),
           S.st \in Active \cup {"ending"}, S.out # <<>>, C.st \in Online
    PROVE  ConnInv(C,
                   [S EXCEPT !.out = Tail(S.out), !.wrote = Append(S.wrote, Head(S.out))],
                   U,
                   D \o Parts(Len(S.wrote) + 1, Head(S.out)), p)
<1> DEFINE S1 == [S EXCEPT !.out = Tail(S.out), !.wrote = Append(S.wrote, Head(S.out))]
           D1 == D \o Parts(Len(S.wrote) + 1, Head(S.out))
<1> SUFFICES ConnInv(C, S1, U, D1, p)
  OBVIOUS
<1> USE DEF ConnInv
<1> HIDE DEF S1, D1
<1>1. /\ C \in ClientSide /\ S \in DaemonSide /\ U \in Seq(Part) /\ D \in Seq(Part)
  BY DEF SidesType
<1>0. C.st # "off"
  BY DEF Untouched, NoSession, Active
<1>2. /\ S1.st = S.st /\ S1.status = S.status /\ S1.buf = S.buf
      /\ S1.out = Tail(S.out) /\ S1.wrote = Append(S.wrote, Head(S.out))
      /\ S1.cut = S.cut /\ S1.cause = S.cause
  BY <1>1 DEF DaemonSide, S1
<1>a. /\ S.out \in Seq(Word) /\ S.wrote \in Seq(Word) /\ C.buf \in Seq(Part)
      /\ C.heard \in Seq(Word) /\ Len(C.heard) \in Nat
  BY <1>1 DEF DaemonSide, ClientSide
<1>b. /\ Head(S.out) \in Word /\ Tail(S.out) \in Seq(Word)
      /\ S1.wrote \in Seq(Word) /\ Len(S1.wrote) = Len(S.wrote) + 1
      /\ S1.wrote = Append(S.wrote, Head(S.out))
      /\ \A i \in 1 .. Len(S.wrote) : S1.wrote[i] = S.wrote[i]
  <2>1. Head(S.out) \in Word /\ Tail(S.out) \in Seq(Word)
    BY <1>a
  <2>2. QED
    BY <1>2, <1>a, <2>1
<1> DEFINE f == Parts(Len(S.wrote) + 1, Head(S.out))
<1>c. f \in Seq(Part) /\ D1 = D \o f
  <2>1. Len(S.wrote) + 1 \in Nat
    BY <1>a
  <2>2. QED
    BY <1>b, <2>1 DEF Parts, Part, D1
<1>d. /\ Carries(C.buf \o D1, S1.wrote, Len(C.heard)) /\ Full(C.buf \o D1, S1.wrote, Len(C.heard))
  <2> DEFINE q == C.buf \o D
             h == Len(C.heard)
             w == S.wrote
             a == Head(S.out)
  <2>1. /\ q \in Seq(Part) /\ h \in Nat /\ w \in Seq(Word) /\ a \in Word
        /\ Carries(q, w, h) /\ Full(q, w, h)
    <3>1. q \in Seq(Part)
      BY <1>1, <1>a, ConcatProperties
    <3>2. QED
      BY <1>a, <1>b, <3>1 DEF DownCarries
  <2> HIDE DEF q, h, w, a
  <2>2. /\ Carries(q \o Parts(Len(w) + 1, a), Append(w, a), h)
        /\ Full(q \o Parts(Len(w) + 1, a), Append(w, a), h)
    BY <2>1, CarriesMore
  <2> HIDE DEF f
  <2>3. (C.buf \o D) \o f = C.buf \o D1
    BY <1>1, <1>a, <1>c, PartsAssociate
  <2>4. QED
    BY <1>b, <2>2, <2>3 DEF q, h, w, a, f
<1> HIDE DEF f
<1>3. S1 \in DaemonSide
  <2>1. Append(S.wrote, Head(S.out)) \in Seq(Word)
    BY <1>b
  <2>2. QED
    BY <1>1, <1>b, <2>1 DEF DaemonSide, S1
<1>4. SidesType(C, S1, U, D1)
  BY <1>1, <1>3, <1>c, ConcatProperties DEF SidesType
<1>5. Untouched(C, S1, U, D1)
  <2>1. S.st \notin {"none", "queued", "hello"}
    BY DEF Untouched, Active
  <2>2. QED
    BY <1>0, <1>2, <2>1 DEF Untouched
<1>6. UpCarries(C, S1, U)
  BY <1>2 DEF UpCarries, Active, Online
<1>7. DownCarries(C, S1, D1)
  <2>1. Len(C.heard) <= Len(S1.wrote)
    BY <1>a, <1>b DEF DownCarries
  <2>2. \A i \in 1 .. Len(C.heard) : C.heard[i] = S1.wrote[i]
    <3>1. \A i \in 1 .. Len(C.heard) : i \in 1 .. Len(S.wrote) /\ C.heard[i] = S.wrote[i]
      BY <1>a DEF DownCarries
    <3>2. QED
      BY <1>b, <3>1
  <2>3. C.st \notin {"eof", "daemonClosed"}
    BY DEF Online
  <2>4. QED
    BY <1>d, <2>1, <2>2, <2>3 DEF DownCarries
<1>8. CauseKnown(C, S1)
  BY <1>2 DEF CauseKnown, Active, None
<1>9. RefusalCarried(C, S1, p)
  <2>1. SUFFICES ASSUME C.hello = "badVersion", S.cause = "refused", C.st = "greeting",
                        p \in Listening
                 PROVE  S1.wrote = <<"refusal">> /\ S1.out = <<>>
    BY <1>2 DEF RefusalCarried, Online
  <2>2. S.wrote = <<>> /\ S.out = <<"refusal">>
    BY <2>1 DEF RefusalCarried
  <2>3. S1.wrote = Append(<<>>, Head(<<"refusal">>)) /\ S1.out = Tail(<<"refusal">>)
    BY <1>2, <2>2
  <2>4. QED
    BY <2>3
<1>10. QED
  BY <1>4, <1>5, <1>6, <1>7, <1>8, <1>9

\* A client connects and says Hello.
LEMMA ConnectConn ==
    ASSUME NEW C, NEW S, NEW U, NEW D, NEW p, ConnInv(C, S, U, D, p),
           C.st = "off", NEW p1
    PROVE  ConnInv([C EXCEPT !.st = "greeting", !.sent = <<C.hello>>],
                   [S EXCEPT !.st = "queued"],
                   Parts(1, C.hello),
                   D, p1)
<1> DEFINE C1 == [C EXCEPT !.st = "greeting", !.sent = <<C.hello>>]
           S1 == [S EXCEPT !.st = "queued"]
           U1 == Parts(1, C.hello)
<1> SUFFICES ConnInv(C1, S1, U1, D, p1)
  OBVIOUS
<1> USE DEF ConnInv
<1> HIDE DEF C1, S1, U1
<1>1. /\ C \in ClientSide /\ S \in DaemonSide /\ U = <<>> /\ D = <<>>
      /\ C.buf = <<>> /\ C.heard = <<>> /\ S = NoSession /\ C.hello \in Hellos /\ C.hello \in Word
  BY DEF SidesType, Untouched, ClientSide, Word
<1>2. /\ C1.sent = <<C.hello>> /\ C1.st = "greeting" /\ C1.hello = C.hello
      /\ C1.buf = C.buf /\ C1.heard = C.heard /\ C1 \in ClientSide
  <2>1. <<C.hello>> \in Seq(Word)
    BY <1>1
  <2>2. QED
    BY <1>1, <2>1 DEF ClientSide, C1, Online
<1>3. /\ S1.st = "queued" /\ S1.buf = <<>> /\ S1.out = <<>> /\ S1.wrote = <<>>
      /\ S1.cut = FALSE /\ S1.cause = None /\ S1 \in DaemonSide
  <2>1. S.buf = <<>> /\ S.out = <<>> /\ S.wrote = <<>> /\ S.cut = FALSE /\ S.cause = None
    BY <1>1 DEF NoSession
  <2>2. QED
    BY <1>1, <2>1 DEF DaemonSide, S1
<1>4. /\ U1 \in Seq(Part) /\ Carries(U1, <<C.hello>>, 0) /\ Full(U1, <<C.hello>>, 0)
  <2> DEFINE e == <<>>
             a == C.hello
             m == 0
  <2>0. a \in Word /\ m \in Nat
    BY <1>1
  <2>1. e \in Seq(Word) /\ e \in Seq(Part) /\ Len(e) = 0 /\ Append(e, C.hello) = <<C.hello>>
    BY <1>1
  <2>2. Carries(e, e, m) /\ Full(e, e, m)
    BY <2>1 DEF Carries, Full
  <2> HIDE DEF e, a, m
  <2>3. /\ e \o Parts(Len(e) + 1, a) \in Seq(Part)
        /\ Carries(e \o Parts(Len(e) + 1, a), Append(e, a), m)
        /\ Full(e \o Parts(Len(e) + 1, a), Append(e, a), m)
    BY <2>0, <2>1, <2>2, CarriesMore
  <2>4. Len(e) + 1 = 1
    BY <2>1
  <2>5. Parts(1, C.hello) \in Seq(Part)
    BY <1>1 DEF Parts, Part
  <2>6. e \o Parts(1, C.hello) = Parts(1, C.hello)
    BY <2>5, ConcatEmptySeq DEF e
  <2>7. QED
    BY <2>1, <2>3, <2>4, <2>6 DEF U1, a, m
<1>5. SidesType(C1, S1, U1, D)
  BY <1>1, <1>2, <1>3, <1>4 DEF SidesType
<1>6. Untouched(C1, S1, U1, D)
  <2>1. /\ C1.sent # <<>> /\ C1.sent[1] = C.hello /\ Len(C1.sent) = 1
        /\ Len(S1.buf) <= 1 /\ Len(C1.buf) <= 1
    BY <1>1, <1>2, <1>3
  <2>2. QED
    BY <1>1, <1>2, <1>3, <2>1 DEF Untouched
<1>7. UpCarries(C1, S1, U1)
  <2>1. S1.buf \o U1 = U1 /\ 0 \in 0 .. Len(C1.sent)
    BY <1>2, <1>3, <1>4, ConcatEmptySeq
  <2>2. QED
    BY <1>2, <1>3, <1>4, <2>1 DEF UpCarries, Active
<1>8. DownCarries(C1, S1, D)
  <2>1. C1.buf \o D = <<>> /\ Len(C1.heard) = 0 /\ Len(S1.wrote) = 0
    BY <1>1, <1>2, <1>3
  <2>2. QED
    BY <1>2, <1>3, <2>1 DEF DownCarries, Carries, Full
<1>9. CauseKnown(C1, S1) /\ RefusalCarried(C1, S1, p1)
  BY <1>2, <1>3 DEF CauseKnown, RefusalCarried, Active, None
<1>10. QED
  BY <1>5, <1>6, <1>7, <1>8, <1>9

\* A connection ends with its daemon.
LEMMA GoneConn ==
    ASSUME NEW C, NEW S, NEW U, NEW D, NEW p, ConnInv(C, S, U, D, p),
           S.st \notin {"none", "closed"}, NEW p1, p1 \notin Listening
    PROVE  ConnInv(C,
                   [S EXCEPT !.st = "closed", !.out = <<>>, !.cause = IF S.cause = None THEN "daemon" ELSE S.cause],
                   U,
                   D, p1)
<1> DEFINE S1 == [S EXCEPT !.st = "closed", !.out = <<>>, !.cause = IF S.cause = None THEN "daemon" ELSE S.cause]
<1> SUFFICES ConnInv(C, S1, U, D, p1)
  OBVIOUS
<1> USE DEF ConnInv
<1> HIDE DEF S1
<1>1. /\ C \in ClientSide /\ S \in DaemonSide /\ U \in Seq(Part) /\ D \in Seq(Part)
  BY DEF SidesType
<1>0. C.st # "off"
  BY DEF Untouched, NoSession, Active
<1>2. /\ S1.st = "closed" /\ S1.status = S.status /\ S1.buf = S.buf /\ S1.out = <<>>
      /\ S1.wrote = S.wrote /\ S1.cut = S.cut
      /\ S1.cause = IF S.cause = None THEN "daemon" ELSE S.cause
  BY <1>1 DEF DaemonSide, S1
<1>3. S1 \in DaemonSide
  <2> DEFINE x == IF S.cause = None THEN "daemon" ELSE S.cause
  <2>1. <<>> \in Seq(Word) /\ x \in {None, "refused", "notHello", "protocol", "client", "daemon"}
    BY <1>1 DEF DaemonSide
  <2>2. S1 = [S EXCEPT !.st = "closed", !.out = <<>>, !.cause = x]
    BY DEF S1
  <2> HIDE DEF x
  <2>3. QED
    BY <1>1, <2>1, <2>2 DEF DaemonSide
<1>4. SidesType(C, S1, U, D)
  BY <1>1, <1>3 DEF SidesType
<1>5. Untouched(C, S1, U, D)
  BY <1>0, <1>2 DEF Untouched, Active, Online
<1>6. UpCarries(C, S1, U)
  BY <1>2 DEF UpCarries, Active, Online
<1>7. DownCarries(C, S1, D)
  BY <1>2 DEF DownCarries, Active, Online
<1>8. CauseKnown(C, S1)
  BY <1>2 DEF CauseKnown, Active, None
<1>9. RefusalCarried(C, S1, p1)
  BY <1>2 DEF RefusalCarried, CauseKnown, Active, Online
<1>10. QED
  BY <1>4, <1>5, <1>6, <1>7, <1>8, <1>9

\* A daemon that stops listening does not do so again.
LEMMA PhaseConn ==
    ASSUME NEW C, NEW S, NEW U, NEW D, NEW p, ConnInv(C, S, U, D, p),
           NEW p1, C.st # "off" => (p1 \in Listening => p \in Listening)
    PROVE  ConnInv(C, S, U, D, p1)
<1>1. RefusalCarried(C, S, p1)
  BY DEF ConnInv, RefusalCarried
<1>2. QED
  BY <1>1 DEF ConnInv

-----------------------------------------------------------------------------
(* The steps of the system.                                                *)

LEMMA InitClientInv == Init => ClientInv
<1> SUFFICES ASSUME Init PROVE ClientInv
  OBVIOUS
<1>1. NoSession \in DaemonSide /\ <<>> \in Seq(Part) /\ <<>> \in Seq(Word) /\ Len(<<>>) = 0
  <2>1. <<>> \in Seq(Part) /\ <<>> \in Seq(Word)
    OBVIOUS
  <2>2. QED
    BY <2>1 DEF NoSession, DaemonSide
<1>2. \A h \in Hellos : [st |-> "off", hello |-> h, sent |-> <<>>, buf |-> <<>>, heard |-> <<>>]
                            \in ClientSide
  BY <1>1 DEF ClientSide
<1>3. /\ client \in [Clients -> ClientSide]
      /\ \A c \in Clients : client[c].st = "off" /\ client[c].buf = <<>> /\ client[c].heard = <<>>
  BY <1>2 DEF Init
<1>4. LinkType
  BY <1>1, <1>3 DEF Init, LinkType
<1>5. \A c \in Clients : /\ session[c] = NoSession /\ up[c] = <<>> /\ down[c] = <<>>
                         /\ session[c].st = "none" /\ session[c].buf = <<>>
                         /\ session[c].out = <<>> /\ session[c].wrote = <<>>
                         /\ session[c].cut = FALSE /\ session[c].cause = None
  BY DEF Init, NoSession
<1>6. ASSUME NEW c \in Clients
      PROVE  ConnInv(client[c], session[c], up[c], down[c], phase[link[c]]) /\ Linked(c)
  <2> DEFINE C == client[c]
             S == session[c]
             U == up[c]
             D == down[c]
             p == phase[link[c]]
  <2>1. /\ C \in ClientSide /\ S \in DaemonSide /\ U \in Seq(Part) /\ D \in Seq(Part)
        /\ C.st = "off" /\ C.buf = <<>> /\ C.heard = <<>>
        /\ S = NoSession /\ U = <<>> /\ D = <<>>
        /\ S.st = "none" /\ S.buf = <<>> /\ S.out = <<>> /\ S.wrote = <<>>
        /\ S.cut = FALSE /\ S.cause = None
    BY <1>3, <1>4, <1>5, <1>6 DEF LinkType
  <2>2. Len(C.heard) = 0 /\ Len(S.wrote) = 0 /\ Len(S.buf) = 0 /\ Len(C.buf) = 0
    BY <2>1
  <2>3. Linked(c)
    BY <2>1 DEF Linked
  <2> HIDE DEF C, S, U, D, p
  <2>4. SidesType(C, S, U, D) /\ Untouched(C, S, U, D) /\ UpCarries(C, S, U)
    BY <2>1, <2>2 DEF SidesType, Untouched, UpCarries, Active
  <2>5. DownCarries(C, S, D) /\ CauseKnown(C, S) /\ RefusalCarried(C, S, p)
    BY <2>1, <2>2 DEF DownCarries, CauseKnown, RefusalCarried, Active, Online, None
  <2>6. ConnInv(C, S, U, D, p)
    BY <2>4, <2>5 DEF ConnInv
  <2>7. QED
    BY <2>3, <2>6 DEF C, S, U, D, p
<1>7. QED
  BY <1>4, <1>6 DEF ClientInv

\* A step of one connection, whose sides become C, S, U and D.
LEMMA OfOneConn ==
    ASSUME ClientInv, NEW c \in Clients, NEW C, NEW S, NEW U, NEW D,
           client' = [client EXCEPT ![c] = C], session' = [session EXCEPT ![c] = S],
           up' = [up EXCEPT ![c] = U], down' = [down EXCEPT ![c] = D],
           link' = link, phase' = phase,
           ConnInv(C, S, U, D, phase[link[c]]), client[c].st # "off"
    PROVE  ClientInv'
<1>1. /\ client'[c] = C /\ session'[c] = S /\ up'[c] = U /\ down'[c] = D
      /\ \A b \in Clients \ {c} : /\ client'[b] = client[b] /\ session'[b] = session[b]
                                  /\ up'[b] = up[b] /\ down'[b] = down[b]
  BY DEF ClientInv, LinkType
<1>2. LinkType'
  BY DEF ClientInv, LinkType, ConnInv, SidesType
<1>3. ASSUME NEW b \in Clients
      PROVE  ConnInv(client'[b], session'[b], up'[b], down'[b], phase'[link'[b]]) /\ Linked(b)'
  <2>1. CASE b = c
    BY <1>1, <2>1 DEF ClientInv, Linked
  <2>2. CASE b # c
    BY <1>1, <1>3, <2>2 DEF ClientInv, Linked
  <2>3. QED
    BY <2>1, <2>2
<1>4. QED
  BY <1>2, <1>3 DEF ClientInv

\* What the invariant says of one connection.
LEMMA ConnOf ==
    ASSUME ClientInv, NEW c \in Clients
    PROVE  /\ ConnInv(client[c], session[c], up[c], down[c], phase[link[c]])
           /\ client[c] \in ClientSide /\ session[c] \in DaemonSide
           /\ up[c] \in Seq(Part) /\ down[c] \in Seq(Part)
           /\ client[c].st = "off" => session[c].st = "none"
BY DEF ClientInv, LinkType, ConnInv, Untouched, NoSession

LEMMA ClientEofClientInv ==
    ASSUME ClientInv, NEW c \in Clients, ClientEof(c)
    PROVE  ClientInv'
<1>1. ConnInv(client[c], session[c], up[c], down[c], phase[link[c]]) /\ client[c].st # "off"
  BY ConnOf DEF ClientEof, Active, Online
<1>2. ConnInv([client[c] EXCEPT !.st = IF client[c].st = "open" THEN "daemonClosed" ELSE "eof"], session[c], up[c], down[c],
              phase[link[c]])
  BY <1>1, EofConn DEF ClientEof
<1>3. /\ client' = [client EXCEPT ![c] = [client[c] EXCEPT !.st = IF client[c].st = "open" THEN "daemonClosed" ELSE "eof"]]
  BY DEF ClientEof
<1>4. session' = [session EXCEPT ![c] = session[c]] /\ up' = [up EXCEPT ![c] = up[c]] /\ down' = [down EXCEPT ![c] = down[c]]
      /\ link' = link /\ phase' = phase
  BY DEF ClientEof, daemonVars, ClientInv, LinkType
<1>5. QED
  BY <1>1, <1>2, <1>3, <1>4, OfOneConn

LEMMA AcceptClientInv ==
    ASSUME ClientInv, NEW c \in Clients, Accept(c)
    PROVE  ClientInv'
<1>1. ConnInv(client[c], session[c], up[c], down[c], phase[link[c]]) /\ client[c].st # "off"
  BY ConnOf DEF Accept, Active, Online
<1>2. ConnInv(client[c], [session[c] EXCEPT !.st = "hello"], up[c], down[c],
              phase[link[c]])
  BY <1>1, AcceptConn DEF Accept
<1>3. session' = [session EXCEPT ![c] = [session[c] EXCEPT !.st = "hello"]]
  BY DEF Accept
<1>4. client' = [client EXCEPT ![c] = client[c]] /\ up' = [up EXCEPT ![c] = up[c]] /\ down' = [down EXCEPT ![c] = down[c]]
      /\ link' = link /\ phase' = phase
  BY DEF Accept, daemonVars, ClientInv, LinkType
<1>5. QED
  BY <1>1, <1>2, <1>3, <1>4, OfOneConn

LEMMA CloseClientInv ==
    ASSUME ClientInv, NEW c \in Clients, Close(c)
    PROVE  ClientInv'
<1>1. ConnInv(client[c], session[c], up[c], down[c], phase[link[c]]) /\ client[c].st # "off"
  BY ConnOf DEF Close, Active, Online
<1>2. ConnInv(client[c], [session[c] EXCEPT !.st = "closed"], up[c], down[c],
              phase[link[c]])
  BY <1>1, CloseConn DEF Close
<1>3. session' = [session EXCEPT ![c] = [session[c] EXCEPT !.st = "closed"]]
  BY DEF Close
<1>4. client' = [client EXCEPT ![c] = client[c]] /\ up' = [up EXCEPT ![c] = up[c]] /\ down' = [down EXCEPT ![c] = down[c]]
      /\ link' = link /\ phase' = phase
  BY DEF Close, daemonVars, ClientInv, LinkType
<1>5. QED
  BY <1>1, <1>2, <1>3, <1>4, OfOneConn

LEMMA SendClientInv ==
    ASSUME ClientInv, NEW c \in Clients, Send(c)
    PROVE  ClientInv'
<1>1. ConnInv(client[c], session[c], up[c], down[c], phase[link[c]]) /\ client[c].st # "off"
  BY ConnOf DEF Send, Active, Online
<1>2. PICK w \in {"ping", "status"} :
         /\ client' = [client EXCEPT ![c].sent = Append(@, w)]
         /\ up' = [up EXCEPT ![c] = @ \o Parts(Len(client[c].sent) + 1, w)]
  BY DEF Send
<1>3. ConnInv([client[c] EXCEPT !.sent = Append(client[c].sent, w)], session[c],
              up[c] \o Parts(Len(client[c].sent) + 1, w), down[c], phase[link[c]])
  BY <1>1, SendConn DEF Send
<1>4. /\ client' = [client EXCEPT ![c] = [client[c] EXCEPT !.sent = Append(client[c].sent, w)]]
      /\ up' = [up EXCEPT ![c] = up[c] \o Parts(Len(client[c].sent) + 1, w)]
  BY <1>2
<1>5. /\ session' = [session EXCEPT ![c] = session[c]] /\ down' = [down EXCEPT ![c] = down[c]]
      /\ link' = link /\ phase' = phase
  BY DEF Send, daemonVars, ClientInv, LinkType
<1>6. QED
  BY <1>1, <1>3, <1>4, <1>5, OfOneConn
LEMMA LeaveClientInv ==
    ASSUME ClientInv, NEW c \in Clients, Leave(c)
    PROVE  ClientInv'
<1>1. ConnInv(client[c], session[c], up[c], down[c], phase[link[c]]) /\ client[c].st # "off"
  BY ConnOf DEF Leave, Active, Online
<1>2. PICK n \in 0 .. Len(up[c]) : up' = [up EXCEPT ![c] = SubSeq(@, 1, n)]
  BY DEF Leave
<1>3. ConnInv([client[c] EXCEPT !.st = "left"], session[c], SubSeq(up[c], 1, n), down[c],
              phase[link[c]])
  BY <1>1, LeaveConn DEF Leave
<1>4. /\ client' = [client EXCEPT ![c] = [client[c] EXCEPT !.st = "left"]]
      /\ up' = [up EXCEPT ![c] = SubSeq(up[c], 1, n)]
  BY <1>2 DEF Leave
<1>5. /\ session' = [session EXCEPT ![c] = session[c]] /\ down' = [down EXCEPT ![c] = down[c]]
      /\ link' = link /\ phase' = phase
  BY DEF Leave, daemonVars, ClientInv, LinkType
<1>6. QED
  BY <1>1, <1>3, <1>4, <1>5, OfOneConn
LEMMA ClientReadClientInv ==
    ASSUME ClientInv, NEW c \in Clients, ClientRead(c)
    PROVE  ClientInv'
<1>1. ConnInv(client[c], session[c], up[c], down[c], phase[link[c]]) /\ client[c].st # "off"
  BY ConnOf DEF ClientRead, Active, Online
<1>2. /\ session' = [session EXCEPT ![c] = session[c]] /\ up' = [up EXCEPT ![c] = up[c]]
      /\ down' = [down EXCEPT ![c] = Tail(down[c])] /\ link' = link /\ phase' = phase
  BY DEF ClientRead, daemonVars, ClientInv, LinkType
<1>3. CASE Head(down[c]).k = 1
  <2>1. ConnInv([client[c] EXCEPT !.buf = <<Head(down[c])>>], session[c], up[c], Tail(down[c]),
                phase[link[c]])
    BY <1>1, <1>3, ClientPrefixConn DEF ClientRead
  <2>2. client' = [client EXCEPT ![c] = [client[c] EXCEPT !.buf = <<Head(down[c])>>]]
    BY <1>3 DEF ClientRead
  <2>3. QED
    BY <1>1, <1>2, <2>1, <2>2, OfOneConn
<1>4. CASE Head(down[c]).k # 1
  <2> DEFINE C == [client[c] EXCEPT !.buf = <<>>,
                     !.heard = Append(client[c].heard, Head(down[c]).what),
                     !.st = IF client[c].st = "open" \/ Head(down[c]).what = "welcome" THEN "open"
                            ELSE "refused"]
  <2>1. ConnInv(C, session[c], up[c], Tail(down[c]), phase[link[c]])
    BY <1>1, <1>4, ClientBodyConn DEF ClientRead
  <2>2. client' = [client EXCEPT ![c] = C]
    BY <1>4 DEF ClientRead
  <2> HIDE DEF C
  <2>3. QED
    BY <1>1, <1>2, <2>1, <2>2, OfOneConn
<1>5. QED
  BY <1>3, <1>4
LEMMA ReadEofClientInv ==
    ASSUME ClientInv, NEW c \in Clients, ReadEof(c)
    PROVE  ClientInv'
<1>1. ConnInv(client[c], session[c], up[c], down[c], phase[link[c]]) /\ client[c].st # "off"
  BY ConnOf DEF ReadEof, Active, Online
<1>2. ConnInv(client[c], [session[c] EXCEPT !.st = "ending", !.status = FALSE, !.cause = "client"], up[c], down[c],
              phase[link[c]])
  BY <1>1, ReadEofConn DEF ReadEof
<1>3. /\ session' = [session EXCEPT ![c] = [session[c] EXCEPT !.st = "ending", !.status = FALSE, !.cause = "client"]]
  BY DEF ReadEof, Ended
<1>4. client' = [client EXCEPT ![c] = client[c]] /\ up' = [up EXCEPT ![c] = up[c]] /\ down' = [down EXCEPT ![c] = down[c]]
      /\ link' = link /\ phase' = phase
  BY DEF ReadEof, daemonVars, ClientInv, LinkType
<1>5. QED
  BY <1>1, <1>2, <1>3, <1>4, OfOneConn

\* A part that is neither a prefix nor the rest of its frame is only read after a cut.
LEMMA ReadClientInv ==
    ASSUME ClientInv, NEW c \in Clients, Read(c)
    PROVE  ClientInv'
<1>1. ConnInv(client[c], session[c], up[c], down[c], phase[link[c]]) /\ client[c].st # "off"
  BY ConnOf DEF Read, Active, Online
<1> DEFINE C == client[c]
           S == session[c]
           U == up[c]
           D == down[c]
           p == phase[link[c]]
           prefix == S.buf = <<>> /\ Head(U).k = 1
           body == S.buf # <<>> /\ S.buf[1].k = 1 /\ Head(U).n = S.buf[1].n /\ Head(U).k = 2
<1>2. /\ client' = [client EXCEPT ![c] = C] /\ down' = [down EXCEPT ![c] = D]
      /\ up' = [up EXCEPT ![c] = Tail(U)] /\ link' = link /\ phase' = phase
  BY DEF Read, daemonVars, ClientInv, LinkType
<1>3. /\ ConnInv(C, S, U, D, p) /\ S.st \in Active /\ U # <<>>
  BY <1>1 DEF Read
<1>4. CASE prefix /\ session' = [session EXCEPT ![c].buf = <<Head(U)>>]
  <2>1. ConnInv(C, [S EXCEPT !.buf = <<Head(U)>>], Tail(U), D, p)
    BY <1>3, <1>4, ReadPrefixConn
  <2>2. session' = [session EXCEPT ![c] = [S EXCEPT !.buf = <<Head(U)>>]]
    BY <1>4
  <2>3. QED
    BY <1>1, <1>2, <2>1, <2>2, OfOneConn
<1>5. CASE body /\ session' = [session EXCEPT ![c] = Handled([S EXCEPT !.buf = <<>>], Head(U).what)]
  <2>1. ConnInv(C, Handled([S EXCEPT !.buf = <<>>], Head(U).what), Tail(U), D, p)
    BY <1>3, <1>5, ReadBodyConn
  <2>2. QED
    BY <1>1, <1>2, <1>5, <2>1, OfOneConn
<1>6. ASSUME ~prefix, ~body PROVE S.cut
  <2>1. SUFFICES ASSUME ~S.cut PROVE FALSE
    OBVIOUS
  <2>2. PICK m \in 0 .. Len(C.sent) : ReadsNext(C, S, U, m)
    <3> HIDE DEF C, S, U, D, p
    <3>1. QED
      BY <1>3, <2>1, UpNext
  <2>3. QED
    BY <1>6, <2>2 DEF ReadsNext
<1>7. CASE ~prefix /\ ~body /\ session' = [session EXCEPT ![c] = Ended(S, "protocol")]
  <2>1. ConnInv(C, [S EXCEPT !.st = "ending", !.status = FALSE, !.cause = "protocol"],
                Tail(U), D, p)
    BY <1>3, <1>6, <1>7, ReadProtocolConn
  <2>2. session' = [session EXCEPT ![c] =
                       [S EXCEPT !.st = "ending", !.status = FALSE, !.cause = "protocol"]]
    BY <1>7 DEF Ended
  <2>3. QED
    BY <1>1, <1>2, <2>1, <2>2, OfOneConn
<1>8. CASE /\ ~prefix /\ ~body
           /\ session' = [session EXCEPT ![c].buf = IF @ = <<>> THEN <<Head(U)>> ELSE @]
  <2> DEFINE b == IF S.buf = <<>> THEN <<Head(U)>> ELSE S.buf
  <2>1. b \in Seq(Part) /\ Len(b) <= 1
    <3>1. U \in Seq(Part) /\ S.buf \in Seq(Part) /\ Len(S.buf) <= 1
      BY <1>3 DEF ConnInv, SidesType, Untouched, DaemonSide
    <3>2. Head(U) \in Part
      BY <1>3, <3>1, HeadAndTail
    <3>3. <<Head(U)>> \in Seq(Part) /\ Len(<<Head(U)>>) = 1
      BY <3>2
    <3>4. QED
      BY <3>1, <3>3
  <2>2. session' = [session EXCEPT ![c] = [S EXCEPT !.buf = b]]
    BY <1>8
  <2> HIDE DEF b
  <2>3. ConnInv(C, [S EXCEPT !.buf = b], Tail(U), D, p)
    BY <1>3, <1>6, <1>8, <2>1, ReadRestConn
  <2>4. QED
    BY <1>1, <1>2, <2>2, <2>3, OfOneConn
<1>9. QED
  BY <1>4, <1>5, <1>7, <1>8 DEF Read
LEMMA TickClientInv ==
    ASSUME ClientInv, NEW c \in Clients, Tick(c)
    PROVE  ClientInv'
<1>1. ConnInv(client[c], session[c], up[c], down[c], phase[link[c]]) /\ client[c].st # "off"
  BY ConnOf DEF Tick, Active, Online
<1> DEFINE S == [session[c] EXCEPT !.buf = <<>>, !.cut = (session[c].cut \/ session[c].buf # <<>>),
                                 !.out = Append(session[c].out, "snapshot")]
<1>2. ConnInv(client[c], S, up[c], down[c], phase[link[c]])
  BY <1>1, TickConn DEF Tick
<1>3. session' = [session EXCEPT ![c] = S]
  <2>1. session[c] \in DaemonSide
    BY DEF ClientInv, LinkType
  <2> DEFINE T == [session[c] EXCEPT !.buf = <<>>,
                                     !.cut = session[c].cut \/ session[c].buf # <<>>]
  <2>2. session' = [session EXCEPT ![c] = Replied(T, "snapshot")]
    BY DEF Tick
  <2>3. Replied(T, "snapshot") = S
    BY <2>1 DEF Replied, DaemonSide
  <2> HIDE DEF S, T
  <2>4. QED
    BY <2>2, <2>3
<1>4. /\ client' = [client EXCEPT ![c] = client[c]] /\ up' = [up EXCEPT ![c] = up[c]]
      /\ down' = [down EXCEPT ![c] = down[c]] /\ link' = link /\ phase' = phase
  BY DEF Tick, daemonVars, ClientInv, LinkType
<1> HIDE DEF S
<1>5. QED
  BY <1>1, <1>2, <1>3, <1>4, OfOneConn
LEMMA WriteClientInv ==
    ASSUME ClientInv, NEW c \in Clients, Write(c)
    PROVE  ClientInv'
<1>1. ConnInv(client[c], session[c], up[c], down[c], phase[link[c]]) /\ client[c].st # "off"
  BY ConnOf DEF Write, Active
<1>2. /\ client' = [client EXCEPT ![c] = client[c]] /\ up' = [up EXCEPT ![c] = up[c]]
      /\ link' = link /\ phase' = phase
  BY DEF Write, daemonVars, ClientInv, LinkType
<1> DEFINE what == Head(session[c].out)
<1>3. CASE /\ client[c].st \in Online
           /\ session' = [session EXCEPT ![c].out = Tail(@), ![c].wrote = Append(@, what)]
           /\ down' = [down EXCEPT ![c] = @ \o Parts(Len(session[c].wrote) + 1, what)]
  <2> DEFINE S == [session[c] EXCEPT !.out = Tail(session[c].out),
                                     !.wrote = Append(session[c].wrote, what)]
  <2>1. ConnInv(client[c], S, up[c], down[c] \o Parts(Len(session[c].wrote) + 1, what),
                phase[link[c]])
    BY <1>1, <1>3, WriteConn DEF Write
  <2>2. session' = [session EXCEPT ![c] = S]
    BY <1>3
  <2>3. down' = [down EXCEPT ![c] = down[c] \o Parts(Len(session[c].wrote) + 1, what)]
    BY <1>3
  <2> HIDE DEF S, what
  <2>4. QED
    BY <1>1, <1>2, <2>1, <2>2, <2>3, OfOneConn
<1>4. CASE /\ client[c].st \notin Online
           /\ session' = [session EXCEPT ![c].out = <<>>] /\ down' = down
  <2>1. ConnInv(client[c], [session[c] EXCEPT !.out = <<>>], up[c], down[c], phase[link[c]])
    BY <1>1, <1>4, WriteOfflineConn DEF Write
  <2>2. /\ session' = [session EXCEPT ![c] = [session[c] EXCEPT !.out = <<>>]]
        /\ down' = [down EXCEPT ![c] = down[c]]
    BY <1>4 DEF ClientInv, LinkType
  <2>3. QED
    BY <1>1, <1>2, <2>1, <2>2, OfOneConn
<1>5. QED
  BY <1>3, <1>4 DEF Write

\* The link is to a daemon that listens.
LEMMA ConnectClientInv ==
    ASSUME ClientInv, DaemonType, NEW c \in Clients, Connect(c)
    PROVE  ClientInv'
<1> DEFINE C == [client[c] EXCEPT !.st = "greeting", !.sent = <<client[c].hello>>]
           S == [session[c] EXCEPT !.st = "queued"]
           U == Parts(1, client[c].hello)
<1>1. ConnInv(C, S, U, down[c], phase[file])
  <2>1. ConnInv(client[c], session[c], up[c], down[c], phase[link[c]]) /\ client[c].st = "off"
    BY ConnOf DEF Connect
  <2>2. QED
    BY <2>1, ConnectConn
<1>2. /\ client' = [client EXCEPT ![c] = C] /\ session' = [session EXCEPT ![c] = S]
      /\ up' = [up EXCEPT ![c] = U] /\ down' = down /\ phase' = phase
      /\ link' = [link EXCEPT ![c] = file]
  BY DEF Connect, daemonVars
<1>3. file \in Daemons /\ phase[file] \in Listening
  BY DEF Connect, DaemonType
<1> HIDE DEF C, S, U
<1>4. /\ client'[c] = C /\ session'[c] = S /\ up'[c] = U /\ link'[c] = file
      /\ \A b \in Clients \ {c} : /\ client'[b] = client[b] /\ session'[b] = session[b]
                                  /\ up'[b] = up[b] /\ link'[b] = link[b]
  BY <1>2 DEF ClientInv, LinkType
<1>5. LinkType'
  <2>1. C \in ClientSide /\ S \in DaemonSide /\ U \in Seq(Part)
    BY <1>1 DEF ConnInv, SidesType
  <2>2. QED
    BY <1>2, <1>3, <2>1 DEF ClientInv, LinkType
<1>6. ASSUME NEW b \in Clients
      PROVE  ConnInv(client'[b], session'[b], up'[b], down'[b], phase'[link'[b]]) /\ Linked(b)'
  <2>1. CASE b = c
    <3>1. Linked(b)'
      BY <1>2, <1>3, <1>4, <2>1 DEF Linked, Listening, Starting
    <3>2. QED
      BY <1>1, <1>2, <1>4, <2>1, <3>1
  <2>2. CASE b # c
    BY <1>2, <1>4, <1>6, <2>2 DEF ClientInv, Linked
  <2>3. QED
    BY <2>1, <2>2
<1>7. QED
  BY <1>5, <1>6 DEF ClientInv

\* A daemon that moves on: nobody is connected to it yet, or it does not listen anew.
LEMMA MovesClientInv ==
    ASSUME ClientInv, DaemonType, NEW d \in Daemons, NEW q,
           phase' = [phase EXCEPT ![d] = q],
           link' = link, client' = client, up' = up, down' = down, session' = session,
           \/ phase[d] \in {"off", "probing", "evicting", "binding"}
           \/ /\ q \notin {"off", "probing", "evicting", "binding"}
              /\ q \in Listening => phase[d] \in Listening
    PROVE  ClientInv'
<1>1. LinkType'
  BY DEF ClientInv, LinkType
<1>2. ASSUME NEW c \in Clients
      PROVE  ConnInv(client[c], session[c], up[c], down[c], phase'[link[c]]) /\ Linked(c)'
  <2>1. ConnInv(client[c], session[c], up[c], down[c], phase[link[c]]) /\ Linked(c)
    BY DEF ClientInv
  <2>2. client[c].st # "off" =>
            /\ link[c] \in Daemons
            /\ phase'[link[c]] \notin {"off", "probing", "evicting", "binding"}
            /\ phase'[link[c]] \in Listening => phase[link[c]] \in Listening
    BY <2>1 DEF Linked, DaemonType, Starting
  <2>3. ConnInv(client[c], session[c], up[c], down[c], phase'[link[c]])
    BY <2>1, <2>2, PhaseConn
  <2>4. Linked(c)'
    BY <2>2 DEF Linked, Starting
  <2>5. QED
    BY <2>3, <2>4
<1>3. QED
  BY <1>1, <1>2 DEF ClientInv

\* A daemon that moves on and changes the sessions of its connections.
LEMMA EndsClientInv ==
    ASSUME ClientInv, DaemonType, NEW d \in Daemons, NEW q,
           phase' = [phase EXCEPT ![d] = q], q \in {"closing", "exited", "failed"},
           link' = link, client' = client, up' = up, down' = down,
           session' \in [Clients -> DaemonSide],
           \A c \in Clients : client[c].st # "off" /\ link[c] = d =>
               ConnInv(client[c], session'[c], up[c], down[c], q),
           \A c \in Clients : client[c].st = "off" \/ link[c] # d => session'[c] = session[c]
    PROVE  ClientInv'
<1>1. LinkType'
  BY DEF ClientInv, LinkType
<1>2. ASSUME NEW c \in Clients
      PROVE  ConnInv(client[c], session'[c], up[c], down[c], phase'[link[c]]) /\ Linked(c)'
  <2>1. ConnInv(client[c], session[c], up[c], down[c], phase[link[c]]) /\ Linked(c)
    BY DEF ClientInv
  <2>2. CASE client[c].st # "off" /\ link[c] = d
    <3>1. phase'[link[c]] = q /\ link[c] \in Daemons
      BY <2>2 DEF DaemonType
    <3>2. QED
      BY <2>2, <3>1 DEF Linked, Starting
  <2>3. CASE client[c].st # "off" /\ link[c] # d
    <3>1. phase'[link[c]] = phase[link[c]] /\ session'[c] = session[c]
      BY <2>1, <2>3 DEF DaemonType, Linked
    <3>2. QED
      BY <2>1, <3>1 DEF Linked
  <2>4. CASE client[c].st = "off"
    <3>1. session'[c] = session[c]
      BY <2>4
    <3>2. ConnInv(client[c], session[c], up[c], down[c], phase'[link[c]])
      BY <2>1, <2>4, PhaseConn
    <3>3. QED
      BY <2>4, <3>1, <3>2 DEF Linked
  <2>5. QED
    BY <2>2, <2>3, <2>4
<1>3. QED
  BY <1>1, <1>2 DEF ClientInv

LEMMA StopClientInv ==
    ASSUME ClientInv, DaemonType, NEW d \in Daemons, Stop(d)
    PROVE  ClientInv'
<1> DEFINE s(c) == [session[c] EXCEPT !.st = "closed", !.cause = "daemon"]
<1>1. ASSUME NEW c \in Clients
      PROVE  session'[c] = IF link[c] = d /\ session[c].st = "queued" THEN s(c) ELSE session[c]
  BY DEF Stop
<1>2. ASSUME NEW c \in Clients, session[c].st = "queued"
      PROVE  ConnInv(client[c], s(c), up[c], down[c], "closing")
  BY <1>2, ConnOf, StopConn
<1> HIDE DEF s
<1>3. ASSUME NEW c \in Clients
      PROVE  /\ client[c].st # "off" /\ link[c] = d =>
                    ConnInv(client[c], session'[c], up[c], down[c], "closing")
             /\ client[c].st = "off" \/ link[c] # d => session'[c] = session[c]
             /\ session'[c] \in DaemonSide
  <2>1. /\ ConnInv(client[c], session[c], up[c], down[c], phase[link[c]])
        /\ session[c] \in DaemonSide /\ (client[c].st = "off" => session[c].st = "none")
    BY ConnOf
  <2>2. ConnInv(client[c], session[c], up[c], down[c], "closing")
    BY <2>1, PhaseConn DEF Listening
  <2>3. CASE link[c] = d /\ session[c].st = "queued"
    BY <1>1, <1>2, <2>1, <2>3 DEF ConnInv, SidesType
  <2>4. CASE ~(link[c] = d /\ session[c].st = "queued")
    BY <1>1, <2>1, <2>2, <2>4
  <2>5. QED
    BY <2>3, <2>4
<1>4. session' \in [Clients -> DaemonSide]
  <2>1. session' = [c \in Clients |-> session'[c]]
    BY DEF Stop
  <2>2. QED
    BY <1>3, <2>1
<1>5. QED
  BY <1>3, <1>4, EndsClientInv DEF Stop, Moves

LEMMA GoneClientInv ==
    ASSUME ClientInv, DaemonType, NEW d \in Daemons, NEW q \in {"exited", "failed"}, Gone(d),
           phase' = [phase EXCEPT ![d] = q],
           link' = link, client' = client, up' = up, down' = down
    PROVE  ClientInv'
<1> DEFINE s(c) == [session[c] EXCEPT !.st = "closed", !.out = <<>>,
                                      !.cause = IF session[c].cause = None THEN "daemon"
                                                ELSE session[c].cause]
<1>0. q \notin Listening
  BY DEF Listening
<1>1. ASSUME NEW c \in Clients
      PROVE  session'[c] = IF link[c] = d /\ session[c].st \notin {"none", "closed"}
                           THEN s(c) ELSE session[c]
  BY DEF Gone
<1>2. ASSUME NEW c \in Clients, session[c].st \notin {"none", "closed"}
      PROVE  ConnInv(client[c], s(c), up[c], down[c], q)
  BY <1>0, <1>2, ConnOf, GoneConn
<1> HIDE DEF s
<1>3. ASSUME NEW c \in Clients
      PROVE  /\ client[c].st # "off" /\ link[c] = d =>
                    ConnInv(client[c], session'[c], up[c], down[c], q)
             /\ client[c].st = "off" \/ link[c] # d => session'[c] = session[c]
             /\ session'[c] \in DaemonSide
  <2>1. /\ ConnInv(client[c], session[c], up[c], down[c], phase[link[c]])
        /\ session[c] \in DaemonSide /\ (client[c].st = "off" => session[c].st = "none")
    BY ConnOf
  <2>2. ConnInv(client[c], session[c], up[c], down[c], q)
    BY <1>0, <2>1, PhaseConn
  <2>3. CASE link[c] = d /\ session[c].st \notin {"none", "closed"}
    BY <1>1, <1>2, <2>1, <2>3 DEF ConnInv, SidesType
  <2>4. CASE ~(link[c] = d /\ session[c].st \notin {"none", "closed"})
    BY <1>1, <2>1, <2>2, <2>4
  <2>5. QED
    BY <2>3, <2>4
<1>4. session' \in [Clients -> DaemonSide]
  <2>1. session' = [c \in Clients |-> session'[c]]
    BY DEF Gone
  <2>2. QED
    BY <1>3, <2>1
<1>5. QED
  BY <1>3, <1>4, EndsClientInv

-----------------------------------------------------------------------------
(* The theorem.                                                            *)

LEMMA DaemonStepInv ==
    ASSUME IInv, NEW d \in Daemons,
           Begin(d) \/ Probe(d) \/ Evict(d) \/ Bind(d) \/ Secure(d)
             \/ Stop(d) \/ Unlink(d) \/ Exit(d) \/ Crash(d)
    PROVE  IInv'
<1>1. DaemonInv /\ ClientInv /\ DaemonType
  BY DEF IInv, DaemonInv
<1>2. CASE Begin(d)
  <2>1. DaemonInv'
    BY <1>1, <1>2, BeginDaemonInv
  <2>2. ClientInv'
    BY <1>1, <1>2, MovesClientInv DEF Begin, Moves
  <2>3. QED
    BY <2>1, <2>2 DEF IInv
<1>3. CASE Probe(d)
  <2>1. DaemonInv'
    BY <1>1, <1>3, ProbeDaemonInv
  <2>2. ClientInv'
    BY <1>1, <1>3, MovesClientInv DEF Probe, Moves
  <2>3. QED
    BY <2>1, <2>2 DEF IInv
<1>4. CASE Evict(d)
  <2>1. DaemonInv'
    BY <1>1, <1>4, EvictDaemonInv
  <2>2. ClientInv'
    BY <1>1, <1>4, MovesClientInv DEF Evict, Moves
  <2>3. QED
    BY <2>1, <2>2 DEF IInv
<1>5. CASE Bind(d)
  <2>1. DaemonInv'
    BY <1>1, <1>5, BindDaemonInv
  <2>2. ClientInv'
    BY <1>1, <1>5, MovesClientInv DEF Bind, Moves
  <2>3. QED
    BY <2>1, <2>2 DEF IInv
<1>6. CASE Secure(d)
  <2>1. DaemonInv'
    BY <1>1, <1>6, SecureDaemonInv
  <2>2. CASE file = None
    <3>1. ClientInv'
      BY <1>1, <1>6, <2>2, GoneClientInv DEF Secure, Moves
    <3>2. QED
      BY <2>1, <3>1 DEF IInv
  <2>3. CASE file # None
    <3>1. "serving" \notin {"off", "probing", "evicting", "binding"}
          /\ phase[d] \in Listening /\ phase' = [phase EXCEPT ![d] = "serving"]
      BY <1>6, <2>3 DEF Secure, Moves, Listening
    <3>2. ClientInv'
      BY <1>1, <1>6, <2>3, <3>1, MovesClientInv DEF Secure
    <3>3. QED
      BY <2>1, <3>2 DEF IInv
  <2>4. QED
    BY <2>2, <2>3
<1>7. CASE Stop(d)
  BY <1>1, <1>7, StopDaemonInv, StopClientInv DEF IInv
<1>8. CASE Unlink(d)
  <2>1. DaemonInv'
    BY <1>1, <1>8, UnlinkDaemonInv
  <2>2. ClientInv'
    BY <1>1, <1>8, MovesClientInv DEF Unlink, Moves, Listening
  <2>3. QED
    BY <2>1, <2>2 DEF IInv
<1>9. CASE Exit(d)
  <2>1. DaemonInv'
    BY <1>1, <1>9, ExitDaemonInv
  <2>2. ClientInv'
    BY <1>1, <1>9, GoneClientInv DEF Exit, Moves
  <2>3. QED
    BY <2>1, <2>2 DEF IInv
<1>10. CASE Crash(d)
  <2>1. DaemonInv'
    BY <1>1, <1>10, CrashDaemonInv
  <2>2. ClientInv'
    BY <1>1, <1>10, GoneClientInv DEF Crash
  <2>3. QED
    BY <2>1, <2>2 DEF IInv
<1>11. QED
  BY <1>2, <1>3, <1>4, <1>5, <1>6, <1>7, <1>8, <1>9, <1>10

\* A connection leaves the daemons alone.
LEMMA SameDaemons ==
    ASSUME DaemonInv, daemonVars' = daemonVars
    PROVE  DaemonInv'
BY DEF daemonVars, DaemonInv, DaemonType, HoldsItsPath, RacesAreSeen, RemovalIsSeen,
       AloneWhileStarting, AloneStarts

LEMMA ClientStepInv ==
    ASSUME IInv, NEW c \in Clients,
           Connect(c) \/ Send(c) \/ Leave(c) \/ ClientRead(c) \/ ClientEof(c)
             \/ Accept(c) \/ Read(c) \/ ReadEof(c) \/ Tick(c) \/ Write(c) \/ Close(c)
    PROVE  IInv'
<1>1. DaemonInv /\ ClientInv /\ DaemonType
  BY DEF IInv, DaemonInv
<1>2. DaemonInv'
  <2>1. daemonVars' = daemonVars
    BY DEF Connect, Send, Leave, ClientRead, ClientEof, Accept, Read, ReadEof, Tick, Write, Close
  <2>2. QED
    BY <1>1, <2>1, SameDaemons
<1>3. ClientInv'
  BY <1>1, ConnectClientInv, SendClientInv, LeaveClientInv, ClientReadClientInv,
     ClientEofClientInv, AcceptClientInv, ReadClientInv, ReadEofClientInv, TickClientInv,
     WriteClientInv, CloseClientInv
<1>4. QED
  BY <1>2, <1>3 DEF IInv

LEMMA StepIInv == IInv /\ [Next]_vars => IInv'
<1> SUFFICES ASSUME IInv, [Next]_vars PROVE IInv'
  OBVIOUS
<1>1. CASE \E d \in Daemons : Begin(d) \/ Probe(d) \/ Evict(d) \/ Bind(d) \/ Secure(d)
                                \/ Stop(d) \/ Unlink(d) \/ Exit(d) \/ Crash(d)
  BY <1>1, DaemonStepInv
<1>2. CASE \E c \in Clients : Connect(c) \/ Send(c) \/ Leave(c) \/ ClientRead(c) \/ ClientEof(c)
                                \/ Accept(c) \/ Read(c) \/ ReadEof(c) \/ Tick(c) \/ Write(c)
                                \/ Close(c)
  BY <1>2, ClientStepInv
<1>3. CASE UNCHANGED vars
  <2>1. DaemonInv'
    BY <1>3, SameDaemons DEF IInv, vars, daemonVars
  <2>2. ClientInv'
    BY <1>3 DEF IInv, vars, daemonVars, ClientInv, LinkType, Linked
  <2>3. QED
    BY <2>1, <2>2 DEF IInv
<1>4. QED
  BY <1>1, <1>2, <1>3 DEF Next

LEMMA PrefixByElements ==
    ASSUME NEW s \in Seq(Word), NEW t \in Seq(Word), Len(s) <= Len(t),
           \A i \in 1 .. Len(s) : s[i] = t[i]
    PROVE  IsPrefix(s, t) /\ (Len(s) = Len(t) => s = t)
<1>1. SubSeq(s, 1, Len(s)) = SubSeq(t, 1, Len(s))
  <2>1. SubSeq(s, 1, Len(s)) = s
    BY SubSeqFull
  <2>2. DEFINE u == SubSeq(t, 1, Len(s))
  <2>3. u \in Seq(Word) /\ Len(u) = Len(s) /\ \A i \in 1 .. Len(s) : u[i] = t[i]
    <3>1. \A i \in 1 .. Len(s) : t[i] \in Word
      OBVIOUS
    <3>2. /\ u \in Seq(Word)
          /\ Len(u) = IF 1 <= Len(s) THEN Len(s) - 1 + 1 ELSE 0
          /\ \A i \in 1 .. Len(s) - 1 + 1 : u[i] = t[1 + i - 1]
      BY <3>1, SubSeqProperties, Len(s) \in Int
    <3>3. QED
      BY <3>2
  <2>4. u = s
    <3> HIDE DEF u
    <3>1. QED
      BY <2>3, SeqEqual
  <2>5. QED
    BY <2>1, <2>4
<1>2. Len(s) = Len(t) => s = t
  BY SeqEqual
<1>3. QED
  BY <1>1, <1>2 DEF IsPrefix

LEMMA IInvLinkInv == IInv => LinkInv
<1> SUFFICES ASSUME IInv PROVE LinkInv
  OBVIOUS
<1>1. DaemonType /\ ClientInv
  BY DEF IInv, DaemonInv
<1>2. TypeOK
  BY <1>1 DEF DaemonType, ClientInv, LinkType, TypeOK, Phase, ClientSide, DaemonSide
<1>3. ValidClientKept
  BY <1>1 DEF ClientInv, ConnInv, CauseKnown, ValidClientKept
<1>4. RefusalIsTold
  BY <1>1 DEF ClientInv, ConnInv, RefusalCarried, RefusalIsTold
<1>5. LastWordsHeard
  <2>1. SUFFICES ASSUME NEW c \in Clients
                 PROVE  /\ client[c].st = "daemonClosed" => client[c].heard = session[c].wrote
                        /\ IsPrefix(client[c].heard, session[c].wrote)
    BY DEF LastWordsHeard
  <2>2. /\ client[c].heard \in Seq(Word) /\ session[c].wrote \in Seq(Word)
        /\ Len(client[c].heard) <= Len(session[c].wrote)
        /\ \A i \in 1 .. Len(client[c].heard) : client[c].heard[i] = session[c].wrote[i]
        /\ client[c].st = "daemonClosed" => Len(client[c].heard) = Len(session[c].wrote)
    BY <1>1 DEF ClientInv, LinkType, ConnInv, DownCarries, ClientSide, DaemonSide
  <2>3. QED
    BY <2>2, PrefixByElements
<1>6. QED
  BY <1>2, <1>3, <1>4, <1>5 DEF LinkInv

LEMMA DaemonLinkInvariant == Spec => []IInv
<1>1. Init => IInv
  BY InitDaemonInv, InitClientInv DEF IInv
<1>2. IInv /\ [Next]_vars => IInv'
  BY StepIInv
<1>3. QED
  BY <1>1, <1>2, PTL DEF Spec

\* run_daemon_with_resolver: for any number of daemons that start, stop and crash on a path,
\* a daemon that serves without having raced is the one that clients find there.
THEOREM ADaemonServesItsPath == Spec => []ServesItsPath
<1>1. IInv => ServesItsPath
  BY DEF IInv, DaemonInv, HoldsItsPath, ServesItsPath, Listening
<1>2. QED
  BY <1>1, DaemonLinkInvariant, PTL

\* evict_stale_socket: whatever a crash left at the path, a daemon that starts with no other
\* one running is not turned away.
THEOREM AloneADaemonStarts == Spec => []AloneStarts
<1>1. IInv => AloneStarts
  BY DEF IInv, DaemonInv
<1>2. QED
  BY <1>1, DaemonLinkInvariant, PTL

\* The handshake, the frames and the end of a session: a valid client is only dropped after
\* a tick cut a read, a refused one is told, and the last words are heard, for any number of
\* clients, frames and ticks.
THEOREM TheLinkIsKept == Spec => []LinkInv
<1>1. IInv => LinkInv
  BY IInvLinkInv
<1>2. QED
  BY <1>1, DaemonLinkInvariant, PTL
=============================================================================
