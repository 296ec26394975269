--------------------------- MODULE Startup_proofs ---------------------------
(***************************************************************************)
(* For every number of parties, threads and Players of a thread: nobody is *)
(* let go too early, and the ends of the connections belong together.      *)
(***************************************************************************)
EXTENDS Startup, SequenceTheorems, TLAPS

ServerSteps == {"down", "collect", "go", "name", "send", "over", "done", "gone"}
Works == [step : {"connect", "id", "accept", "ready"}, base : DOMAIN Bases, i : Players]

(* The connections that are made to a server, and what is in sockets.      *)
To(s) == IF s = NameServer THEN {Report(p) : p \in Players}
         ELSE {Connection(p, t, b, s) : p \in Players, t \in Threads, b \in DOMAIN Bases}
Sockets == {NoSocket} \cup UNION {To(s) : s \in Players}

(* A server keeps a connection under the id that it has said.              *)
Accepted(s) ==
    /\ backlog[s] \in Seq(To(s))
    /\ \A x \in DOMAIN clients[s] :
          clients[s][x] \in To(s) \cap announced /\ IdOf(clients[s][x]) = x
AcceptInv ==
    /\ DOMAIN backlog = Servers /\ DOMAIN clients = Servers
    /\ \A s \in Servers : Accepted(s)

(* How far the name server is says who has reported and sent a name.       *)
Reported(n) == \A p \in Players : p < n => Report(p) \in announced
Named(n) == \A p \in Players : p < n => p \in named
ServerInv ==
    /\ serving \in [step : ServerSteps, i : Players]
    /\ named \subseteq Players
    /\ serving.step = "down" => serving.i = 0
    /\ serving.step = "collect" => Reported(serving.i)
    /\ serving.step \in {"go", "name"} => Reported(NPlayers) /\ Named(serving.i)
    /\ serving.step \in {"send", "over", "done"} => Reported(NPlayers) /\ Named(NPlayers)
    /\ released # {} => Reported(NPlayers)
    /\ informed # {} => Named(NPlayers)

(* Which connections a thread has made, and which it has got.              *)
Made(p, t, b, q) ==
    LET w == worker[p][t] IN
    b < w.base \/ (b = w.base /\ (w.step \in {"connect", "id"} => q < w.i))
Got(p, t, b, q) ==
    LET w == worker[p][t] IN
    b < w.base \/ (b = w.base /\ (w.step = "ready" \/ (w.step = "accept" /\ q < w.i)))
SocketOf(p, t, b, q) ==
    /\ p < q /\ Made(p, t, b, q) => sockets[p][t][b][q] = Connection(p, t, b, q)
    /\ q <= p /\ Got(p, t, b, q) => sockets[p][t][b][q] = Connection(q, t, b, p)
UsedFor(p, x) ==
    \E t \in Threads, b \in DOMAIN Bases, q \in Players : x = Id(t, b, p, q) /\ Got(p, t, b, q)
WorkTypes == worker \in [Players -> [Threads -> Works]]
WorkInv ==
    /\ WorkTypes
    /\ sockets \in [Players -> [Threads -> [DOMAIN Bases -> [Players -> Sockets]]]]
    /\ DOMAIN used = Servers
    /\ reused = {}
    /\ \A p \in Players, t \in Threads :
          /\ worker[p][t].step = "ready" => worker[p][t].base = Len(Bases)
          /\ worker[p][t].step = "accept" => worker[p][t].i <= p
    /\ \A p, q \in Players, t \in Threads, b \in DOMAIN Bases : SocketOf(p, t, b, q)
    /\ \A p \in Players : \A x \in used[p] : UsedFor(p, x)

(* The bases of a thread's Players leave room for the threads, and there is *)
(* a number for each pair of parties between those of two threads: with    *)
(* mc_base_id they are 24 and 16 bits apart, so that up to 256 threads and  *)
(* 256 parties have room.                                                  *)
BasesApart ==
    /\ NPlayers * NPlayers <= ThreadStep
    /\ \A b, c \in DOMAIN Bases : b # c =>
          \/ Bases[b] + NThreads * ThreadStep <= Bases[c]
          \/ Bases[c] + NThreads * ThreadStep <= Bases[b]

-----------------------------------------------------------------------------
(* Numbers.                                                                *)

LEMMA Counts ==
    /\ NPlayers \in Nat \ {0} /\ NThreads \in Nat \ {0} /\ ThreadStep \in Nat \ {0}
    /\ Len(Bases) \in Nat \ {0} /\ DOMAIN Bases = 1 .. Len(Bases)
    /\ \A b \in DOMAIN Bases : Bases[b] \in Nat
    /\ 0 \in Players /\ NameServer \notin Players
  BY CountsAssumption, BasesAssumption, EmptySeq DEF Players, NameServer

(* A number is written in one way with a given number of low digits.       *)
LEMMA OneWay ==
    ASSUME NEW k \in Nat, NEW x \in Nat, NEW y \in Nat, NEW r \in 0 .. k - 1, NEW s \in 0 .. k - 1,
           x * k + r = y * k + s
    PROVE  x = y /\ r = s
  <1>1. ASSUME NEW a \in Nat, NEW b \in Nat, a < b PROVE a * k + k <= b * k
    <2>1. PICK d \in Nat : b = a + 1 + d
      <3>1. b - a - 1 \in Nat /\ b = a + 1 + (b - a - 1)
        BY <1>1
      <3> QED
        BY <3>1
    <2>2. b * k = a * k + k + d * k
      BY <2>1
    <2>3. d * k \in Nat
      BY <2>1
    <2>4. a * k \in Nat
      OBVIOUS
    <2> QED
      BY <2>2, <2>3, <2>4
  <1>2. x * k \in Nat /\ y * k \in Nat
    OBVIOUS
  <1>3. ~ x < y
    <2>1. ASSUME x < y PROVE FALSE
      <3>1. x * k + k <= y * k
        BY <1>1, <2>1
      <3> QED
        BY <1>2, <3>1
    <2> QED
      BY <2>1
  <1>4. ~ y < x
    <2>1. ASSUME y < x PROVE FALSE
      <3>1. y * k + k <= x * k
        BY <1>1, <2>1
      <3> QED
        BY <1>2, <3>1
    <2> QED
      BY <2>1
  <1>5. x = y
    BY <1>3, <1>4
  <1> QED
    BY <1>2, <1>5

(* Below n times k.                                                        *)
LEMMA Below ==
    ASSUME NEW k \in Nat, NEW n \in Nat, NEW x \in 0 .. n - 1, NEW r \in 0 .. k - 1
    PROVE  x * k + r \in 0 .. n * k - 1
  <1>1. PICK d \in Nat : n = x + 1 + d
    <2>1. n - x - 1 \in Nat /\ n = x + 1 + (n - x - 1)
      OBVIOUS
    <2> QED
      BY <2>1
  <1>2. n * k = x * k + k + d * k
    BY <1>1
  <1>3. d * k \in Nat /\ x * k \in Nat
    BY <1>1
  <1> QED
    BY <1>2, <1>3

(* The ids that a party is asked for differ.                               *)
IdsApart ==
    \A s, p, q \in Players, t, u \in Threads, b, c \in DOMAIN Bases :
        Id(t, b, s, p) = Id(u, c, s, q) => t = u /\ b = c /\ p = q

LEMMA IdsDiffer ==
    ASSUME BasesApart
    PROVE  IdsApart
  <1> SUFFICES ASSUME NEW s \in Players, NEW p \in Players, NEW q \in Players,
                      NEW t \in Threads, NEW u \in Threads,
                      NEW b \in DOMAIN Bases, NEW c \in DOMAIN Bases,
                      Id(t, b, s, p) = Id(u, c, s, q)
               PROVE  t = u /\ b = c /\ p = q
    BY DEF IdsApart
  <1> DEFINE low(x) == s * NPlayers + x
             mid(v, x) == v * ThreadStep + low(x)
  <1>1. \A x \in Players : low(x) \in 0 .. ThreadStep - 1
    <2>1. ASSUME NEW x \in Players PROVE low(x) \in 0 .. NPlayers * NPlayers - 1
      BY Below, Counts DEF Players
    <2>2. NPlayers * NPlayers \in Nat /\ NPlayers * NPlayers <= ThreadStep
      BY Counts DEF BasesApart
    <2> HIDE DEF low
    <2> QED
      BY <2>1, <2>2, Counts
  <1>2. \A v \in Threads, x \in Players : mid(v, x) \in 0 .. NThreads * ThreadStep - 1
    <2> HIDE DEF low
    <2> QED
      BY <1>1, Below, Counts DEF Threads
  <1>3. Bases[b] + mid(t, p) = Bases[c] + mid(u, q)
    <2>1. Id(t, b, s, p) = Bases[b] + mid(t, p)
      <3>1. {Bases[b], t * ThreadStep, s * NPlayers, p} \subseteq Int
        BY Counts DEF Players, Threads
      <3> QED
        BY <3>1 DEF Id
    <2>2. Id(u, c, s, q) = Bases[c] + mid(u, q)
      <3>1. {Bases[c], u * ThreadStep, s * NPlayers, q} \subseteq Int
        BY Counts DEF Players, Threads
      <3> QED
        BY <3>1 DEF Id
    <2> QED
      BY <2>1, <2>2
  <1>4. b = c
    <2> DEFINE room == NThreads * ThreadStep
    <2>1. room \in Nat /\ mid(t, p) \in 0 .. room - 1 /\ mid(u, q) \in 0 .. room - 1
      BY <1>2, Counts
    <2>2. b # c => Bases[b] + room <= Bases[c] \/ Bases[c] + room <= Bases[b]
      BY DEF BasesApart
    <2>3. Bases[b] \in Nat /\ Bases[c] \in Nat
      BY Counts
    <2> HIDE DEF mid, room
    <2> QED
      BY <1>3, <2>1, <2>2, <2>3
  <1>5. t = u /\ low(p) = low(q)
    <2>1. mid(t, p) = mid(u, q)
      <3>1. mid(t, p) \in Int /\ mid(u, q) \in Int /\ Bases[b] \in Int
        BY <1>2, Counts
      <3> HIDE DEF low, mid
      <3>2. Bases[b] + mid(t, p) = Bases[b] + mid(u, q)
        BY <1>3, <1>4
      <3>3. ASSUME NEW z \in Int, NEW x \in Int, NEW y \in Int, z + x = z + y PROVE x = y
        BY <3>3
      <3> QED
        BY <3>1, <3>2, <3>3
    <2>2. t \in Nat /\ u \in Nat /\ ThreadStep \in Nat
      BY Counts DEF Threads
    <2> HIDE DEF low
    <2> QED
      BY <1>1, <2>1, <2>2, OneWay
  <1>6. p = q
    <2>1. s * NPlayers \in Int /\ p \in Int /\ q \in Int
      BY Counts DEF Players
    <2> QED
      BY <1>5, <2>1
  <1> QED
    BY <1>4, <1>5, <1>6

-----------------------------------------------------------------------------
(* What comes to the servers.                                              *)

LEMMA ToServers ==
    /\ \A p \in Players : Report(p) \in To(NameServer)
    /\ \A p, s \in Players, t \in Threads, b \in DOMAIN Bases : Connection(p, t, b, s) \in To(s)
    /\ \A s \in Servers : \A c \in To(s) : c[4] = s
  BY Counts DEF To, Report, Connection, Servers

LEMMA Knocked ==
    ASSUME AcceptInv, NEW s \in Servers, NEW c \in To(s), Knock(c, s), UNCHANGED <<announced, clients>>
    PROVE  AcceptInv'
  <1>1. DOMAIN backlog' = Servers /\ DOMAIN clients' = Servers
    BY DEF AcceptInv, Knock
  <1>2. ASSUME NEW x \in Servers PROVE Accepted(x)'
    <2>1. Accepted(x)
      BY DEF AcceptInv
    <2>2. CASE x = s
      <3>1. backlog'[x] = Append(backlog[x], c)
        BY <2>2 DEF Knock, AcceptInv
      <3>2. Append(backlog[x], c) \in Seq(To(x))
        BY <2>1, <2>2, AppendProperties DEF Accepted
      <3> QED
        BY <2>1, <3>1, <3>2 DEF Accepted
    <2>3. CASE x # s
      <3>1. backlog'[x] = backlog[x]
        BY <2>3 DEF Knock, AcceptInv
      <3> QED
        BY <2>1, <3>1 DEF Accepted
    <2> QED
      BY <2>2, <2>3
  <1> QED
    BY <1>1, <1>2 DEF AcceptInv

LEMMA NobodyKnocks ==
    ASSUME AcceptInv, UNCHANGED <<backlog, clients>>, announced \subseteq announced'
    PROVE  AcceptInv'
  <1>1. ASSUME NEW x \in Servers PROVE Accepted(x)'
    BY DEF AcceptInv, Accepted
  <1> QED
    BY <1>1 DEF AcceptInv

LEMMA Emptied ==
    ASSUME AcceptInv, NEW s \in Servers, backlog' = [backlog EXCEPT ![s] = <<>>],
           UNCHANGED <<announced, clients>>
    PROVE  AcceptInv'
  <1>1. ASSUME NEW x \in Servers PROVE Accepted(x)'
    <2>1. backlog'[x] = IF x = s THEN <<>> ELSE backlog[x]
      BY DEF AcceptInv
    <2>2. <<>> \in Seq(To(x))
      BY EmptySeq
    <2> QED
      BY <2>1, <2>2 DEF AcceptInv, Accepted
  <1> QED
    BY <1>1 DEF AcceptInv

LEMMA AcceptKeeps ==
    ASSUME AcceptInv, NEW s \in Servers, Accept(s)
    PROVE  AcceptInv'
  <1> DEFINE c == Head(backlog[s])
  <1>1. /\ backlog[s] # <<>> /\ backlog' = [backlog EXCEPT ![s] = Tail(@)]
        /\ c \in announced /\ announced' = announced
        /\ clients' = [clients EXCEPT ![s] =
             [x \in DOMAIN @ \cup {IdOf(c)} |-> IF x = IdOf(c) THEN c ELSE @[x]]]
    BY DEF Accept
  <1>2. Accepted(s) /\ DOMAIN backlog = Servers /\ DOMAIN clients = Servers
    BY DEF AcceptInv
  <1>3. c \in To(s) /\ Tail(backlog[s]) \in Seq(To(s))
    BY <1>1, <1>2, HeadTailProperties DEF Accepted
  <1> HIDE DEF c
  <1>4. ASSUME NEW x \in Servers PROVE Accepted(x)'
    <2>1. CASE x = s
      <3>1. backlog'[x] = Tail(backlog[s])
        BY <1>1, <1>2, <2>1
      <3>2. clients'[x] = [y \in DOMAIN clients[s] \cup {IdOf(c)} |-> IF y = IdOf(c) THEN c ELSE clients[s][y]]
        BY <1>1, <1>2, <2>1
      <3>3. \A y \in DOMAIN clients'[x] :
               clients'[x][y] = IF y = IdOf(c) THEN c ELSE clients[s][y]
        BY <3>2
      <3>4. \A y \in DOMAIN clients'[x] : y # IdOf(c) => y \in DOMAIN clients[s]
        BY <3>2
      <3>5. \A y \in DOMAIN clients'[x] :
               clients'[x][y] \in To(x) \cap announced /\ IdOf(clients'[x][y]) = y
        BY <1>1, <1>2, <1>3, <2>1, <3>3, <3>4 DEF Accepted
      <3> QED
        BY <1>1, <1>3, <2>1, <3>1, <3>5 DEF Accepted
    <2>2. CASE x # s
      <3>1. backlog'[x] = backlog[x] /\ clients'[x] = clients[x]
        BY <1>1, <1>2, <2>2
      <3>2. Accepted(x)
        BY DEF AcceptInv
      <3> QED
        BY <1>1, <3>1, <3>2 DEF Accepted
    <2> QED
      BY <2>1, <2>2
  <1>5. DOMAIN backlog' = Servers /\ DOMAIN clients' = Servers
    BY <1>1, <1>2
  <1> QED
    BY <1>4, <1>5 DEF AcceptInv

LEMMA AcceptInvKept ==
    ASSUME AcceptInv, WorkTypes, [Next]_vars
    PROVE  AcceptInv'
  <1>1. CASE ServerStep
    <2>1. CASE ServerEnds
      BY <2>1, Emptied DEF ServerEnds, Servers
    <2>2. CASE ServerStarts \/ Collect \/ SendGo \/ GetName \/ SendNames
      <3>1. UNCHANGED <<backlog, clients, announced>>
        BY <2>2 DEF ServerStarts, Collect, SendGo, GetName, SendNames, accepting
      <3> QED
        BY <3>1, NobodyKnocks
    <2> QED
      BY <1>1, <2>1, <2>2 DEF ServerStep
  <1>2. CASE \E s \in Servers : Accept(s)
    BY <1>2, AcceptKeeps
  <1>3. ASSUME NEW p \in Players, MainStep(p) PROVE AcceptInv'
    <2>1. CASE ReportTo(p)
      BY <2>1, Knocked, ToServers DEF ReportTo, Servers
    <2>2. CASE SendNumber(p) \/ ReceiveGo(p) \/ ReceiveNames(p)
      <3>1. UNCHANGED <<backlog, clients>> /\ announced \subseteq announced'
        BY <2>2 DEF SendNumber, ReceiveGo, ReceiveNames, accepting
      <3> QED
        BY <3>1, NobodyKnocks
    <2> QED
      BY <1>3, <2>1, <2>2 DEF MainStep
  <1>4. ASSUME NEW p \in Players, Dies(p) PROVE AcceptInv'
    BY <1>4, Emptied DEF Dies, Servers
  <1>5. ASSUME NEW p \in Players, NEW t \in Threads, WorkerStep(p, t) PROVE AcceptInv'
    <2>1. Peer(p, t) \in Players /\ Base(p, t) \in DOMAIN Bases
      BY DEF WorkTypes, Works, Peer, Base
    <2>2. CASE Connect(p, t)
      <3>1. Connection(p, t, Base(p, t), Peer(p, t)) \in To(Peer(p, t))
        BY <2>1, ToServers
      <3> QED
        BY <2>1, <2>2, <3>1, Knocked DEF Connect, Servers
    <2>3. CASE SendId(p, t)
      BY <2>3, NobodyKnocks DEF SendId
    <2>4. CASE GetConnection(p, t)
      BY <1>4, <2>4, NobodyKnocks DEF GetConnection
    <2> QED
      BY <1>5, <2>2, <2>3, <2>4 DEF WorkerStep
  <1>6. CASE UNCHANGED vars
    BY <1>6, NobodyKnocks DEF vars, accepting
  <1> QED
    BY <1>1, <1>2, <1>3, <1>4, <1>5, <1>6 DEF Next, GivesUp

-----------------------------------------------------------------------------
(* What the name server does.                                              *)

LEMMA FoundHasReported ==
    ASSUME AcceptInv, NEW p \in Players, Finds(NameServer, p)
    PROVE  Report(p) \in announced
  <1> DEFINE c == clients[NameServer][p]
  <1>1. c \in To(NameServer) \cap announced /\ IdOf(c) = p
    BY DEF AcceptInv, Accepted, Finds, Servers
  <1>2. PICK q \in Players : c = Report(q)
    BY <1>1 DEF To
  <1>3. IdOf(c) = q
    BY <1>2 DEF IdOf, Report
  <1> QED
    BY <1>1, <1>2, <1>3

LEMMA ServerWaits ==
    ASSUME ServerInv, UNCHANGED handshake, announced \subseteq announced'
    PROVE  ServerInv'
  <1>1. UNCHANGED <<serving, released, named, informed>>
    BY DEF handshake
  <1>2. \A n : Reported(n) => Reported(n)'
    BY DEF Reported
  <1>3. \A n : Named(n) => Named(n)'
    BY <1>1 DEF Named
  <1> QED
    BY <1>1, <1>2, <1>3 DEF ServerInv

(* The next number, or the next step from the first on.                    *)
LEMMA NextParty ==
    ASSUME ServerInv, NEW again \in ServerSteps, NEW next \in ServerSteps,
           ServeNext(again, NPlayers, next)
    PROVE  /\ serving' \in [step : ServerSteps, i : Players]
           /\ \/ serving'.step = again /\ serving'.i = serving.i + 1
              \/ serving'.step = next /\ serving'.i = 0 /\ serving.i + 1 = NPlayers
  <1>1. serving.i \in 0 .. NPlayers - 1 /\ NPlayers \in Nat \ {0}
    BY Counts DEF ServerInv, Players
  <1>2. CASE serving.i + 1 < NPlayers
    <2>1. serving' = [step |-> again, i |-> serving.i + 1]
      BY <1>2 DEF ServeNext
    <2>2. serving.i + 1 \in Players
      BY <1>1, <1>2 DEF Players
    <2> QED
      BY <2>1, <2>2
  <1>3. CASE ~ serving.i + 1 < NPlayers
    <2>1. serving' = [step |-> next, i |-> 0]
      BY <1>3 DEF ServeNext
    <2>2. 0 \in Players /\ serving.i + 1 = NPlayers
      BY <1>1, <1>3, Counts
    <2> QED
      BY <2>1, <2>2
  <1> QED
    BY <1>2, <1>3

LEMMA CollectKeeps ==
    ASSUME AcceptInv, ServerInv, Collect
    PROVE  ServerInv'
  <1>1. /\ serving.step = "collect" /\ Finds(NameServer, serving.i)
        /\ ServeNext("collect", NPlayers, "go")
        /\ UNCHANGED <<released, named, informed, announced>>
    BY DEF Collect, Serves
  <1>2. serving.i \in Players /\ Reported(serving.i)
    BY <1>1 DEF ServerInv
  <1>3. Report(serving.i) \in announced
    BY <1>1, <1>2, FoundHasReported
  <1>4. Reported(serving.i + 1)
    <2>1. \A p \in Players : p < serving.i + 1 => p < serving.i \/ p = serving.i
      BY <1>2 DEF Players
    <2> QED
      BY <1>2, <1>3, <2>1 DEF Reported
  <1>5. /\ serving' \in [step : ServerSteps, i : Players]
        /\ \/ serving'.step = "collect" /\ serving'.i = serving.i + 1
           \/ serving'.step = "go" /\ serving'.i = 0 /\ serving.i + 1 = NPlayers
    BY <1>1, NextParty DEF ServerSteps
  <1>6. \A n : Reported(n)' = Reported(n) /\ Named(n)' = Named(n)
    BY <1>1 DEF Reported, Named
  <1>7. Named(0)
    BY DEF Named, Players
  <1> QED
    BY <1>1, <1>4, <1>5, <1>6, <1>7 DEF ServerInv

LEMMA GetNameKeeps ==
    ASSUME ServerInv, GetName
    PROVE  ServerInv'
  <1>1. /\ serving.step = "name" /\ serving.i \in named
        /\ ServeNext("go", NPlayers, "send")
        /\ UNCHANGED <<released, named, informed, announced>>
    BY DEF GetName, Serves, accepting
  <1>2. serving.i \in Players /\ Reported(NPlayers) /\ Named(serving.i)
    BY <1>1 DEF ServerInv
  <1>3. Named(serving.i + 1)
    <2>1. \A p \in Players : p < serving.i + 1 => p < serving.i \/ p = serving.i
      BY <1>2 DEF Players
    <2> QED
      BY <1>1, <1>2, <2>1 DEF Named
  <1>4. /\ serving' \in [step : ServerSteps, i : Players]
        /\ \/ serving'.step = "go" /\ serving'.i = serving.i + 1
           \/ serving'.step = "send" /\ serving'.i = 0 /\ serving.i + 1 = NPlayers
    BY <1>1, NextParty DEF ServerSteps
  <1>5. \A n : Reported(n)' = Reported(n) /\ Named(n)' = Named(n)
    BY <1>1 DEF Reported, Named
  <1> QED
    BY <1>1, <1>2, <1>3, <1>4, <1>5 DEF ServerInv

LEMMA SendNamesKeeps ==
    ASSUME ServerInv, SendNames
    PROVE  ServerInv'
  <1>1. /\ serving.step = "send" /\ ServeNext("send", NPlayers, "over")
        /\ UNCHANGED <<released, named, announced>>
    BY DEF SendNames, Serves, accepting
  <1>2. Reported(NPlayers) /\ Named(NPlayers)
    BY <1>1 DEF ServerInv
  <1>3. /\ serving' \in [step : ServerSteps, i : Players]
        /\ serving'.step \in {"send", "over"}
    BY <1>1, NextParty DEF ServerSteps
  <1>4. \A n : Reported(n)' = Reported(n) /\ Named(n)' = Named(n)
    BY <1>1 DEF Reported, Named
  <1> QED
    BY <1>1, <1>2, <1>3, <1>4 DEF ServerInv

LEMMA ServerStepKeeps ==
    ASSUME AcceptInv, ServerInv, ServerStep
    PROVE  ServerInv'
  <1>1. serving \in [step : ServerSteps, i : Players]
    BY DEF ServerInv
  <1>2. CASE ServerStarts
    <2>1. /\ serving.step = "down" /\ serving' = [serving EXCEPT !.step = "collect"]
          /\ UNCHANGED <<released, named, informed, announced>>
      BY <1>2 DEF ServerStarts, Serves
    <2>2. serving'.step = "collect" /\ serving'.i = 0 /\ serving' \in [step : ServerSteps, i : Players]
      BY <1>1, <2>1 DEF ServerInv, ServerSteps
    <2>3. \A n : Reported(n)' = Reported(n) /\ Named(n)' = Named(n)
      BY <2>1 DEF Reported, Named
    <2>4. Reported(0)
      BY DEF Reported, Players
    <2> QED
      BY <2>1, <2>2, <2>3, <2>4 DEF ServerInv
  <1>3. CASE SendGo
    <2>1. /\ serving.step = "go" /\ serving' = [serving EXCEPT !.step = "name"]
          /\ UNCHANGED <<named, informed, announced>>
      BY <1>3 DEF SendGo, Serves, accepting
    <2>2. serving'.step = "name" /\ serving'.i = serving.i /\ serving' \in [step : ServerSteps, i : Players]
      BY <1>1, <2>1 DEF ServerSteps
    <2>3. \A n : Reported(n)' = Reported(n) /\ Named(n)' = Named(n)
      BY <2>1 DEF Reported, Named
    <2> QED
      BY <2>1, <2>2, <2>3 DEF ServerInv
  <1>4. CASE ServerEnds
    <2>0. PICK s \in {"done", "gone"} :
             serving' = [serving EXCEPT !.step = s] /\ (s = "done" => serving.step = "over")
      BY <1>4 DEF ServerEnds, Serves
    <2>1. UNCHANGED <<released, named, informed, announced>>
      BY <1>4 DEF ServerEnds
    <2>2. /\ serving' \in [step : ServerSteps, i : Players]
          /\ serving'.step = "gone" \/ (serving'.step = "done" /\ serving.step = "over")
      BY <1>1, <2>0 DEF ServerSteps
    <2>3. \A n : Reported(n)' = Reported(n) /\ Named(n)' = Named(n)
      BY <2>1 DEF Reported, Named
    <2> QED
      BY <2>1, <2>2, <2>3 DEF ServerInv
  <1> QED
    BY <1>2, <1>3, <1>4, CollectKeeps, GetNameKeeps, SendNamesKeeps DEF ServerStep

LEMMA ServerInvKept ==
    ASSUME AcceptInv, ServerInv, [Next]_vars
    PROVE  ServerInv'
  <1>1. CASE ServerStep
    BY <1>1, ServerStepKeeps
  <1>2. ASSUME NEW s \in Servers, Accept(s) PROVE ServerInv'
    BY <1>2, ServerWaits DEF Accept
  <1>3. ASSUME NEW p \in Players, MainStep(p) PROVE ServerInv'
    <2>1. CASE ReportTo(p) \/ SendNumber(p) \/ ReceiveNames(p)
      <3>1. UNCHANGED handshake /\ announced \subseteq announced'
        BY <2>1 DEF ReportTo, SendNumber, ReceiveNames
      <3> QED
        BY <3>1, ServerWaits
    <2>2. CASE ReceiveGo(p)
      <3>1. named' = named \cup {p} /\ UNCHANGED <<serving, released, informed, announced>>
        BY <2>2 DEF ReceiveGo, accepting
      <3>2. \A n : (Reported(n)' = Reported(n)) /\ (Named(n) => Named(n)')
        BY <3>1 DEF Reported, Named
      <3> QED
        BY <3>1, <3>2 DEF ServerInv
    <2> QED
      BY <1>3, <2>1, <2>2 DEF MainStep
  <1>4. ASSUME NEW p \in Players, Dies(p) PROVE ServerInv'
    BY <1>4, ServerWaits DEF Dies
  <1>5. ASSUME NEW p \in Players, NEW t \in Threads, WorkerStep(p, t) PROVE ServerInv'
    <2>1. Dies(p) \/ (UNCHANGED handshake /\ announced \subseteq announced')
      BY <1>5 DEF WorkerStep, Connect, SendId, GetConnection
    <2> QED
      BY <1>4, <2>1, ServerWaits
  <1>6. CASE UNCHANGED vars
    BY <1>6, ServerWaits DEF vars, accepting
  <1> QED
    BY <1>1, <1>2, <1>3, <1>4, <1>5, <1>6 DEF Next, GivesUp

-----------------------------------------------------------------------------
(* What the threads set up.                                                *)

LEMMA NobodyWorks ==
    ASSUME WorkInv, UNCHANGED <<worker, sockets, reused>>, DOMAIN used' = Servers,
           \A p \in Players : used'[p] = used[p]
    PROVE  WorkInv'
  <1>1. \A p, q \in Players, t \in Threads, b \in DOMAIN Bases :
           SocketOf(p, t, b, q)' = SocketOf(p, t, b, q) /\ Got(p, t, b, q)' = Got(p, t, b, q)
    BY DEF SocketOf, Got, Made
  <1>2. \A p \in Players : \A x : UsedFor(p, x) => UsedFor(p, x)'
    BY <1>1 DEF UsedFor
  <1> QED
    BY <1>1, <1>2 DEF WorkInv, WorkTypes

(* A step of one thread.                                                   *)
LEMMA OneWorks ==
    ASSUME WorkTypes, NEW p \in Players, NEW t \in Threads, NEW w \in Works,
           worker' = [worker EXCEPT ![p][t] = w]
    PROVE  /\ worker' \in [Players -> [Threads -> Works]]
           /\ worker'[p][t] = w
           /\ \A r \in Players, u \in Threads : r # p \/ u # t => worker'[r][u] = worker[r][u]
  <1>1. worker \in [Players -> [Threads -> Works]]
    BY DEF WorkTypes
  <1>2. [worker[p] EXCEPT ![t] = w] \in [Threads -> Works]
    BY <1>1
  <1>3. worker' = [worker EXCEPT ![p] = [worker[p] EXCEPT ![t] = w]]
    BY <1>1
  <1> QED
    BY <1>1, <1>2, <1>3

(* It puts a connection into one place at most.                            *)
Puts(p, t, b, q, c) == sockets' = [sockets EXCEPT ![p][t][b][q] = c]

LEMMA OneSocket ==
    ASSUME WorkInv, NEW p \in Players, NEW t \in Threads, NEW b \in DOMAIN Bases, NEW q \in Players,
           NEW c \in Sockets, Puts(p, t, b, q, c)
    PROVE  /\ sockets' \in [Players -> [Threads -> [DOMAIN Bases -> [Players -> Sockets]]]]
           /\ sockets'[p][t][b][q] = c
           /\ \A r, v \in Players, u \in Threads, d \in DOMAIN Bases :
                 r # p \/ u # t \/ d # b \/ v # q => sockets'[r][u][d][v] = sockets[r][u][d][v]
  <1> DEFINE A == [Players -> Sockets]
             B == [DOMAIN Bases -> A]
             C == [Threads -> B]
             f == [sockets[p][t][b] EXCEPT ![q] = c]
             g == [sockets[p][t] EXCEPT ![b] = f]
             h == [sockets[p] EXCEPT ![t] = g]
  <1>1. sockets \in [Players -> C]
    BY DEF WorkInv
  <1>2. sockets[p] \in C /\ sockets[p][t] \in B /\ sockets[p][t][b] \in A
    <2> HIDE DEF A
    <2>1. sockets[p] \in C
      BY <1>1
    <2>2. sockets[p][t] \in B
      BY <2>1
    <2> QED
      BY <2>1, <2>2
  <1>3. f \in A /\ f[q] = c /\ \A v \in Players : v # q => f[v] = sockets[p][t][b][v]
    BY <1>2
  <1>4. sockets' = [sockets EXCEPT ![p] = h]
    BY DEF Puts
  <1>5. g \in B /\ g[b] = f /\ \A d \in DOMAIN Bases : d # b => g[d] = sockets[p][t][d]
    <2> HIDE DEF A, f
    <2> QED
      BY <1>2, <1>3
  <1>6. h \in C /\ h[t] = g /\ \A u \in Threads : u # t => h[u] = sockets[p][u]
    <2> HIDE DEF B, g
    <2> QED
      BY <1>2, <1>5
  <1>7. sockets' \in [Players -> C] /\ sockets'[p] = h /\ \A r \in Players : r # p => sockets'[r] = sockets[r]
    <2> HIDE DEF C, h
    <2> QED
      BY <1>1, <1>4, <1>6
  <1>8. sockets'[p][t][b][q] = c
    <2> HIDE DEF f, g, h
    <2> QED
      BY <1>3, <1>5, <1>6, <1>7
  <1>9. ASSUME NEW r \in Players, NEW v \in Players, NEW u \in Threads, NEW d \in DOMAIN Bases,
               r # p \/ u # t \/ d # b \/ v # q
        PROVE  sockets'[r][u][d][v] = sockets[r][u][d][v]
    <2> HIDE DEF f, g, h
    <2> QED
      BY <1>3, <1>5, <1>6, <1>7, <1>9
  <1> QED
    BY <1>7, <1>8, <1>9

LEMMA WorkTypesKept ==
    ASSUME WorkTypes, [Next]_vars
    PROVE  WorkTypes'
  <1>1. ASSUME UNCHANGED worker PROVE WorkTypes'
    BY <1>1 DEF WorkTypes
  <1>2. ASSUME NEW p \in Players, NEW t \in Threads, WorkerStep(p, t) PROVE WorkTypes'
    <2> DEFINE a == worker[p][t]
               done == [a EXCEPT !.step = "id"]
               sent == IF a.i + 1 < NPlayers THEN AtWork("connect", a.base, a.i + 1)
                       ELSE AtWork("accept", a.base, 0)
               got == IF a.i + 1 <= p THEN AtWork("accept", a.base, a.i + 1)
                      ELSE IF a.base < Len(Bases) THEN AtWork("connect", a.base + 1, p)
                      ELSE AtWork("ready", a.base, 0)
    <2>1. a \in Works /\ a.base \in 1 .. Len(Bases) /\ a.i \in 0 .. NPlayers - 1
      BY SMTT(20), Counts DEF WorkTypes, Works, Players
    <2>2. {done, sent, got} \subseteq Works
      <3>1. done \in Works
        BY <2>1 DEF Works
      <3>2. \A b, i : b \in DOMAIN Bases /\ i \in Players =>
               {AtWork("connect", b, i), AtWork("accept", b, i), AtWork("ready", b, i)} \subseteq Works
        BY DEF AtWork, Works
      <3>3. /\ a.i + 1 < NPlayers => a.i + 1 \in Players
            /\ a.i + 1 <= p => a.i + 1 \in Players
            /\ a.base < Len(Bases) => a.base + 1 \in DOMAIN Bases
            /\ a.base \in DOMAIN Bases /\ 0 \in Players
        <4> HIDE DEF a
        <4> QED
          BY <2>1, Counts DEF Players
      <3> HIDE DEF a, done
      <3> QED
        BY <3>1, <3>2, <3>3
    <2>3. \/ UNCHANGED worker
          \/ worker' = [worker EXCEPT ![p][t] = done]
          \/ worker' = [worker EXCEPT ![p][t] = sent]
          \/ worker' = [worker EXCEPT ![p][t] = got]
      BY <1>2 DEF WorkerStep, Connect, SendId, GetConnection, Dies
    <2> HIDE DEF done, sent, got
    <2> QED
      BY <1>1, <2>2, <2>3, OneWorks DEF WorkTypes
  <1>3. CASE ServerStep \/ \E s \in Servers : Accept(s)
    BY <1>1, <1>3 DEF ServerStep, ServerStarts, Collect, SendGo, GetName, SendNames, ServerEnds,
          Accept, working
  <1>4. ASSUME NEW p \in Players, MainStep(p) \/ GivesUp(p) PROVE WorkTypes'
    BY <1>1, <1>4 DEF MainStep, ReportTo, SendNumber, ReceiveGo, ReceiveNames, GivesUp, Dies, working
  <1>5. CASE UNCHANGED vars
    BY <1>1, <1>5 DEF vars, working
  <1> QED
    BY <1>1, <1>2, <1>3, <1>4, <1>5 DEF Next

LEMMA ConnectKeeps ==
    ASSUME WorkInv, NEW p \in Players, NEW t \in Threads, Connect(p, t)
    PROVE  WorkInv'
  <1> DEFINE w == [worker[p][t] EXCEPT !.step = "id"]
  <1>1. /\ worker[p][t].step = "connect" /\ worker' = [worker EXCEPT ![p][t].step = "id"]
        /\ UNCHANGED <<used, sockets, reused>>
    BY DEF Connect, At
  <1>2. worker[p][t] \in Works
    BY DEF WorkInv, WorkTypes
  <1>3. w \in Works /\ w.step = "id" /\ w.base = worker[p][t].base /\ w.i = worker[p][t].i
    BY <1>2 DEF Works
  <1>4. worker' = [worker EXCEPT ![p][t] = w]
    BY <1>1
  <1> HIDE DEF w
  <1>5. /\ worker' \in [Players -> [Threads -> Works]]
        /\ worker'[p][t] = w
        /\ \A r \in Players, u \in Threads : r # p \/ u # t => worker'[r][u] = worker[r][u]
    <2>1. WorkTypes
      BY DEF WorkInv
    <2> QED
      BY ZenonT(20), <1>3, <1>4, <2>1, OneWorks
  <1>6. \A r, q \in Players, u \in Threads, b \in DOMAIN Bases :
           (Got(r, u, b, q)' <=> Got(r, u, b, q)) /\ (Made(r, u, b, q)' <=> Made(r, u, b, q))
    BY <1>1, <1>3, <1>5 DEF Got, Made
  <1>7. \A r, q \in Players, u \in Threads, b \in DOMAIN Bases : SocketOf(r, u, b, q) => SocketOf(r, u, b, q)'
    BY <1>1, <1>6 DEF SocketOf
  <1>8. \A r \in Players : \A x : UsedFor(r, x) => UsedFor(r, x)'
    BY <1>6 DEF UsedFor
  <1>9. \A r \in Players, u \in Threads :
           /\ worker'[r][u].step = "ready" => worker'[r][u].base = Len(Bases)
           /\ worker'[r][u].step = "accept" => worker'[r][u].i <= r
    <2>1. \A r \in Players, u \in Threads :
             /\ worker[r][u].step = "ready" => worker[r][u].base = Len(Bases)
             /\ worker[r][u].step = "accept" => worker[r][u].i <= r
      BY DEF WorkInv
    <2> QED
      BY <1>3, <1>5, <2>1
  <1> QED
    BY <1>1, <1>5, <1>7, <1>8, <1>9 DEF WorkInv, WorkTypes

(* A thread goes on in the loops of setup_sockets: whatever was made, or   *)
(* got, remains so.                                                        *)
LEMMA SendIdKeeps ==
    ASSUME WorkInv, NEW p \in Players, NEW t \in Threads, SendId(p, t)
    PROVE  WorkInv'
  <1> DEFINE a == worker[p][t]
             c == Connection(p, t, a.base, a.i)
             w == IF a.i + 1 < NPlayers THEN AtWork("connect", a.base, a.i + 1)
                  ELSE AtWork("accept", a.base, 0)
  <1>1. /\ a.step = "id" /\ worker' = [worker EXCEPT ![p][t] = w]
        /\ sockets' = [sockets EXCEPT ![p][t][a.base][a.i] = c]
        /\ UNCHANGED <<used, reused>>
    <2>1. /\ a.step = "id" /\ UNCHANGED <<used, reused>>
          /\ worker' = [worker EXCEPT ![p][t] =
               IF @.i + 1 < NPlayers THEN AtWork("connect", @.base, @.i + 1)
               ELSE AtWork("accept", @.base, 0)]
          /\ sockets' = [sockets EXCEPT ![p][t][c[3]][c[4]] = c]
      BY DEF SendId, At, Base, Peer
    <2>2. c[3] = a.base /\ c[4] = a.i
      BY DEF Connection
    <2> QED
      BY <2>1, <2>2
  <1>2. a \in Works /\ a.base \in DOMAIN Bases /\ a.i \in Players
    BY DEF WorkInv, WorkTypes, Works
  <1>3. w \in Works /\ w.base = a.base /\ w.step \in {"connect", "accept"}
        /\ (w.step = "connect" => w.i = a.i + 1)
        /\ (w.step = "accept" => w.i = 0 /\ a.i + 1 = NPlayers)
    <2>1. CASE a.i + 1 < NPlayers
      <3>1. a.i + 1 \in Players
        BY <1>2, <2>1, Counts DEF Players
      <3> QED
        BY <1>2, <2>1, <3>1 DEF AtWork, Works
    <2>2. CASE ~ a.i + 1 < NPlayers
      <3>1. a.i + 1 = NPlayers /\ 0 \in Players
        BY <1>2, <2>2, Counts DEF Players
      <3> QED
        BY <1>2, <2>2, <3>1 DEF AtWork, Works
    <2> QED
      BY <2>1, <2>2
  <1>4. c \in Sockets
    <2>1. c \in To(a.i)
      BY <1>2, ToServers
    <2> QED
      BY <1>2, <2>1 DEF Sockets
  <1> HIDE DEF w, c
  <1>5. /\ worker' \in [Players -> [Threads -> Works]]
        /\ worker'[p][t] = w
        /\ \A r \in Players, u \in Threads : r # p \/ u # t => worker'[r][u] = worker[r][u]
    <2>1. WorkTypes
      BY DEF WorkInv
    <2> QED
      BY ZenonT(20), <1>1, <1>3, <2>1, OneWorks
  <1>6. /\ sockets' \in [Players -> [Threads -> [DOMAIN Bases -> [Players -> Sockets]]]]
        /\ sockets'[p][t][a.base][a.i] = c
        /\ \A r, v \in Players, u \in Threads, d \in DOMAIN Bases :
              r # p \/ u # t \/ d # a.base \/ v # a.i => sockets'[r][u][d][v] = sockets[r][u][d][v]
    <2>1. Puts(p, t, a.base, a.i, c)
      BY <1>1 DEF Puts
    <2> HIDE DEF a
    <2> QED
      BY <1>2, <1>4, <2>1, OneSocket
  <1>7. \A r, q \in Players, u \in Threads, b \in DOMAIN Bases : Got(r, u, b, q)' <=> Got(r, u, b, q)
    <2>1. ASSUME NEW q \in Players, NEW b \in DOMAIN Bases PROVE Got(p, t, b, q)' <=> Got(p, t, b, q)
      <3>1. Got(p, t, b, q) <=> b < a.base
        BY <1>1 DEF Got
      <3>2. Got(p, t, b, q)' <=> b < w.base \/ (b = w.base /\ (w.step = "ready" \/ (w.step = "accept" /\ q < w.i)))
        BY <1>5 DEF Got
      <3>3. w.step = "accept" => ~ q < w.i
        BY <1>3 DEF Players
      <3> QED
        BY <1>3, <3>1, <3>2, <3>3
    <2>2. ASSUME NEW r \in Players, NEW q \in Players, NEW u \in Threads, NEW b \in DOMAIN Bases, r # p \/ u # t
          PROVE Got(r, u, b, q)' <=> Got(r, u, b, q)
      BY <1>5, <2>2 DEF Got
    <2> QED
      BY <2>1, <2>2
  <1>8. ASSUME NEW r \in Players, NEW q \in Players, NEW u \in Threads, NEW b \in DOMAIN Bases
        PROVE  SocketOf(r, u, b, q)'
    <2>1. SocketOf(r, u, b, q)
      BY DEF WorkInv
    <2>2. CASE r = p /\ u = t /\ b = a.base /\ q = a.i
      <3>1. ~ Got(r, u, b, q)
        BY <1>1, <1>2, <2>2, Counts DEF Got
      <3>2. sockets'[r][u][b][q] = Connection(r, u, b, q)
        BY <1>6, <2>2 DEF c
      <3> QED
        BY <1>7, <3>1, <3>2 DEF SocketOf
    <2>3. CASE ~ (r = p /\ u = t /\ b = a.base /\ q = a.i)
      <3>1. sockets'[r][u][b][q] = sockets[r][u][b][q]
        BY <1>6, <2>3
      <3>2. Made(r, u, b, q)' => Made(r, u, b, q)
        <4>1. CASE r = p /\ u = t
          <5>1. b # a.base => (Made(r, u, b, q)' <=> Made(r, u, b, q))
            BY <1>3, <1>5, <4>1 DEF Made
          <5>2. CASE b = a.base /\ q # a.i
            <6>1. w.step = "connect" /\ q < w.i => q < a.i
              BY <1>2, <1>3, <5>2 DEF Players
            <6>2. w.step = "accept" => q < a.i
              BY <1>2, <1>3, <5>2, Counts DEF Players
            <6>3. Made(r, u, b, q)' => (w.step = "connect" => q < w.i)
              BY <1>2, <1>3, <1>5, <4>1, <5>2, Counts DEF Made
            <6> QED
              BY <1>1, <1>3, <4>1, <5>2, <6>1, <6>2, <6>3 DEF Made
          <5> QED
            BY <2>3, <4>1, <5>1, <5>2
        <4>2. CASE ~ (r = p /\ u = t)
          BY <1>5, <4>2 DEF Made
        <4> QED
          BY <4>1, <4>2
      <3> QED
        BY <1>7, <2>1, <3>1, <3>2 DEF SocketOf
    <2> QED
      BY <2>2, <2>3
  <1>9. \A r \in Players : \A x : UsedFor(r, x) => UsedFor(r, x)'
    BY <1>7 DEF UsedFor
  <1>10. \A r \in Players, u \in Threads :
           /\ worker'[r][u].step = "ready" => worker'[r][u].base = Len(Bases)
           /\ worker'[r][u].step = "accept" => worker'[r][u].i <= r
    <2>1. \A r \in Players, u \in Threads :
             /\ worker[r][u].step = "ready" => worker[r][u].base = Len(Bases)
             /\ worker[r][u].step = "accept" => worker[r][u].i <= r
      BY DEF WorkInv
    <2>2. 0 <= p
      BY DEF Players
    <2> QED
      BY <1>3, <1>5, <2>1, <2>2
  <1> QED
    BY <1>1, <1>5, <1>6, <1>8, <1>9, <1>10 DEF WorkInv, WorkTypes

(* What is found for an id was made for it.                                *)
LEMMA FoundIsWanted ==
    ASSUME IdsApart, AcceptInv, NEW p \in Players, NEW t \in Threads, NEW b \in DOMAIN Bases,
           NEW q \in Players, Finds(p, Id(t, b, p, q))
    PROVE  clients[p][Id(t, b, p, q)] = Connection(q, t, b, p)
  <1> DEFINE c == clients[p][Id(t, b, p, q)]
  <1>1. p \in Servers /\ p # NameServer
    BY Counts DEF Servers
  <1>2. c \in To(p) /\ IdOf(c) = Id(t, b, p, q)
    BY <1>1 DEF AcceptInv, Accepted, Finds
  <1>3. PICK r \in Players, u \in Threads, d \in DOMAIN Bases : c = Connection(r, u, d, p)
    BY <1>1, <1>2 DEF To
  <1>4. IdOf(c) = Id(u, d, p, r)
    <2>1. IdOf(Connection(r, u, d, p)) = Id(u, d, p, r)
      BY <1>1 DEF IdOf, Connection
    <2> QED
      BY <1>3, <2>1
  <1>5. Id(t, b, p, q) = Id(u, d, p, r)
    BY <1>2, <1>4
  <1> HIDE DEF c
  <1>6. u = t /\ d = b /\ r = q
    BY <1>5 DEF IdsApart
  <1>7. c = Connection(q, t, b, p)
    BY <1>3, <1>6
  <1> QED
    BY <1>7 DEF c

LEMMA WantedIsUnused ==
    ASSUME IdsApart, WorkInv, NEW p \in Players, NEW t \in Threads, At(p, t, "accept")
    PROVE  ~ IdAlreadyUsed(p, WantedId(p, t))
  <1> SUFFICES ASSUME WantedId(p, t) \in used[p] PROVE FALSE
    BY DEF IdAlreadyUsed
  <1>1. /\ worker[p][t].step = "accept"
        /\ Base(p, t) \in DOMAIN Bases /\ Peer(p, t) \in Players
    BY DEF At, WorkInv, WorkTypes, Works, Base, Peer
  <1>2. PICK u \in Threads, b \in DOMAIN Bases, q \in Players :
            Id(t, Base(p, t), p, Peer(p, t)) = Id(u, b, p, q) /\ Got(p, u, b, q)
    BY DEF WorkInv, UsedFor, WantedId
  <1>3. t = u /\ Base(p, t) = b /\ Peer(p, t) = q
    BY <1>1, <1>2 DEF IdsApart
  <1>4. worker[p][t].base = b /\ worker[p][t].i = q
    BY <1>3 DEF Base, Peer
  <1>5. b \in Nat /\ q \in Nat
    BY Counts DEF Players
  <1> QED
    BY <1>1, <1>2, <1>3, <1>4, <1>5 DEF Got

LEMMA GetConnectionKeeps ==
    ASSUME IdsApart, AcceptInv, WorkInv, NEW p \in Players, NEW t \in Threads, GetConnection(p, t)
    PROVE  WorkInv'
  <1> DEFINE a == worker[p][t]
             x == Id(t, a.base, p, a.i)
             c == Connection(a.i, t, a.base, p)
             w == IF a.i + 1 <= p THEN AtWork("accept", a.base, a.i + 1)
                  ELSE IF a.base < Len(Bases) THEN AtWork("connect", a.base + 1, p)
                  ELSE AtWork("ready", a.base, 0)
  <1>1. a.step = "accept" /\ Finds(p, x) /\ ~ IdAlreadyUsed(p, x)
    <2>1. At(p, t, "accept") /\ Finds(p, WantedId(p, t))
      BY DEF GetConnection
    <2> QED
      BY <2>1, WantedIsUnused DEF At, WantedId, Base, Peer
  <1>2. a \in Works /\ a.base \in DOMAIN Bases /\ a.i \in Players /\ a.i <= p
    BY <1>1 DEF WorkInv, WorkTypes, Works
  <1>3. /\ worker' = [worker EXCEPT ![p][t] = w]
        /\ Puts(p, t, a.base, a.i, clients[p][x])
        /\ used' = [used EXCEPT ![p] = @ \cup {x}]
        /\ UNCHANGED reused
    BY <1>1 DEF GetConnection, Use, WantedId, Base, Peer, Puts
  <1>4. clients[p][x] = c
    BY <1>1, <1>2, FoundIsWanted
  <1>5. c \in Sockets
    BY <1>2, ToServers DEF Sockets
  <1>6. \/ /\ w.step = "accept" /\ w.base = a.base /\ w.i = a.i + 1 /\ a.i + 1 <= p
        \/ /\ w.step = "connect" /\ w.base = a.base + 1 /\ w.i = p /\ a.i = p
        \/ /\ w.step = "ready" /\ w.base = a.base /\ a.base = Len(Bases) /\ a.i = p
    BY <1>2, Counts DEF AtWork, Players
  <1>7. w \in Works
    <2>1. a.i + 1 <= p => a.i + 1 \in Players
      BY <1>2, Counts DEF Players
    <2>2. a.base < Len(Bases) => a.base + 1 \in DOMAIN Bases
      BY <1>2, Counts
    <2> QED
      BY <1>2, <2>1, <2>2, Counts DEF AtWork, Works
  <1> HIDE DEF w, c, x
  <1>8. /\ worker' \in [Players -> [Threads -> Works]]
        /\ worker'[p][t] = w
        /\ \A r \in Players, u \in Threads : r # p \/ u # t => worker'[r][u] = worker[r][u]
    <2>1. WorkTypes
      BY DEF WorkInv
    <2> QED
      BY ZenonT(20), <1>3, <1>7, <2>1, OneWorks
  <1>9. /\ sockets' \in [Players -> [Threads -> [DOMAIN Bases -> [Players -> Sockets]]]]
        /\ sockets'[p][t][a.base][a.i] = c
        /\ \A r, v \in Players, u \in Threads, d \in DOMAIN Bases :
              r # p \/ u # t \/ d # a.base \/ v # a.i => sockets'[r][u][d][v] = sockets[r][u][d][v]
    <2>1. Puts(p, t, a.base, a.i, c)
      BY <1>3, <1>4
    <2> HIDE DEF a
    <2> QED
      BY <1>2, <1>5, <2>1, OneSocket
  <1>10. ASSUME NEW r \in Players, NEW q \in Players, NEW u \in Threads, NEW b \in DOMAIN Bases
         PROVE  /\ Got(r, u, b, q) => Got(r, u, b, q)'
                /\ p < q => (Made(r, u, b, q)' => Made(r, u, b, q)) \/ r # p
                /\ Got(r, u, b, q)' =>
                      \/ Got(r, u, b, q) \/ (r = p /\ u = t /\ b = a.base /\ q = a.i)
                      \/ (r = p /\ p < q)
                /\ r # p => (Made(r, u, b, q)' <=> Made(r, u, b, q))
    <2>1. CASE r = p /\ u = t
      <3>1. b \in Nat /\ q \in Nat /\ a.base \in Nat /\ a.i \in Nat /\ p \in Nat
        BY <1>2, Counts DEF Players
      <3>2. Got(r, u, b, q) <=> b < a.base \/ (b = a.base /\ q < a.i)
        BY <1>1, <2>1 DEF Got
      <3>3. Got(r, u, b, q)' <=> b < w.base \/ (b = w.base /\ (w.step = "ready" \/ (w.step = "accept" /\ q < w.i)))
        BY <1>8, <2>1 DEF Got
      <3>4. Made(r, u, b, q) <=> b <= a.base
        BY <1>1, <2>1, <3>1 DEF Made
      <3>5. Made(r, u, b, q)' <=> b < w.base \/ (b = w.base /\ (w.step \in {"connect", "id"} => q < w.i))
        BY <1>8, <2>1 DEF Made
      <3> HIDE DEF a
      <3> QED
        BY <1>6, <2>1, <3>1, <3>2, <3>3, <3>4, <3>5
    <2>2. CASE ~ (r = p /\ u = t)
      <3>1. (Got(r, u, b, q)' <=> Got(r, u, b, q)) /\ (Made(r, u, b, q)' <=> Made(r, u, b, q))
        BY <1>8, <2>2 DEF Got, Made
      <3> QED
        BY <3>1
    <2> QED
      BY <2>1, <2>2
  <1>11. ASSUME NEW r \in Players, NEW q \in Players, NEW u \in Threads, NEW b \in DOMAIN Bases
         PROVE  SocketOf(r, u, b, q)'
    <2>1. SocketOf(r, u, b, q)
      BY DEF WorkInv
    <2>2. CASE r = p /\ u = t /\ b = a.base /\ q = a.i
      <3>1. ~ r < q
        BY <1>2, <2>2 DEF Players
      <3>2. sockets'[r][u][b][q] = Connection(q, u, b, r)
        BY <1>9, <2>2 DEF c
      <3> QED
        BY <3>1, <3>2 DEF SocketOf
    <2>3. CASE ~ (r = p /\ u = t /\ b = a.base /\ q = a.i)
      <3>1. sockets'[r][u][b][q] = sockets[r][u][b][q]
        BY <1>9, <2>3
      <3>2. r < q => (Made(r, u, b, q)' => Made(r, u, b, q))
        BY <1>10
      <3>3. q <= r => (Got(r, u, b, q)' => Got(r, u, b, q))
        <4>1. q <= r => ~ r < q
          BY DEF Players
        <4> QED
          BY <1>10, <2>3, <4>1
      <3> QED
        BY <2>1, <3>1, <3>2, <3>3 DEF SocketOf
    <2> QED
      BY <2>2, <2>3
  <1>12. DOMAIN used' = Servers /\ p \in Servers
         /\ \A r \in Players : used'[r] = IF r = p THEN used[p] \cup {x} ELSE used[r]
    BY <1>3 DEF WorkInv, Servers
  <1>13. ASSUME NEW r \in Players, NEW y \in used'[r] PROVE UsedFor(r, y)'
    <2>1. CASE y \in used[r]
      <3>1. PICK u \in Threads, b \in DOMAIN Bases, q \in Players : y = Id(u, b, r, q) /\ Got(r, u, b, q)
        BY <2>1 DEF WorkInv, UsedFor
      <3>2. Got(r, u, b, q)'
        BY <1>10, <3>1
      <3> QED
        BY <3>1, <3>2 DEF UsedFor
    <2>2. CASE r = p /\ y = x
      <3>1. PICK b \in DOMAIN Bases, q \in Players : b = a.base /\ q = a.i
        BY <1>2
      <3>2. Got(p, t, b, q)' <=>
               b < w.base \/ (b = w.base /\ (w.step = "ready" \/ (w.step = "accept" /\ q < w.i)))
        BY <1>8 DEF Got
      <3>3. b \in Nat /\ q \in Nat
        BY Counts DEF Players
      <3>4. Got(p, t, b, q)'
        <4> HIDE DEF a
        <4> QED
          BY <1>6, <3>1, <3>2, <3>3
      <3>5. y = Id(t, b, p, q)
        BY <2>2, <3>1 DEF x
      <3> QED
        BY <2>2, <3>4, <3>5 DEF UsedFor
    <2> QED
      BY <1>12, <2>1, <2>2
  <1>14. \A r \in Players, u \in Threads :
           /\ worker'[r][u].step = "ready" => worker'[r][u].base = Len(Bases)
           /\ worker'[r][u].step = "accept" => worker'[r][u].i <= r
    <2>1. \A r \in Players, u \in Threads :
             /\ worker[r][u].step = "ready" => worker[r][u].base = Len(Bases)
             /\ worker[r][u].step = "accept" => worker[r][u].i <= r
      BY DEF WorkInv
    <2> HIDE DEF a
    <2> QED
      BY <1>6, <1>8, <2>1
  <1> QED
    BY <1>3, <1>8, <1>9, <1>11, <1>12, <1>13, <1>14 DEF WorkInv, WorkTypes

LEMMA WorkInvKept ==
    ASSUME IdsApart, AcceptInv, WorkInv, [Next]_vars
    PROVE  WorkInv'
  <1>1. CASE ServerStep
    <2>1. CASE Collect
      <3>1. /\ UNCHANGED <<worker, sockets, reused>>
            /\ used' = [used EXCEPT ![NameServer] = @ \cup {serving.i}]
        BY <2>1 DEF Collect, Use, working
      <3>2. DOMAIN used' = Servers /\ \A p \in Players : used'[p] = used[p]
        BY <3>1, Counts DEF WorkInv
      <3> QED
        BY <3>1, <3>2, NobodyWorks
    <2>2. CASE ServerStarts \/ SendGo \/ GetName \/ SendNames \/ ServerEnds
      <3>1. UNCHANGED <<worker, sockets, reused, used>>
        BY <2>2 DEF ServerStarts, SendGo, GetName, SendNames, ServerEnds, working, accepting
      <3>2. DOMAIN used' = Servers
        BY <3>1 DEF WorkInv
      <3> QED
        BY <3>1, <3>2, NobodyWorks
    <2> QED
      BY <1>1, <2>1, <2>2 DEF ServerStep
  <1>2. ASSUME UNCHANGED <<worker, sockets, reused, used>> PROVE WorkInv'
    <2>1. DOMAIN used' = Servers
      BY <1>2 DEF WorkInv
    <2> QED
      BY <1>2, <2>1, NobodyWorks
  <1>3. ASSUME NEW s \in Servers, Accept(s) PROVE WorkInv'
    BY <1>2, <1>3 DEF Accept, working
  <1>4. ASSUME NEW p \in Players, MainStep(p) PROVE WorkInv'
    BY <1>2, <1>4 DEF MainStep, ReportTo, SendNumber, ReceiveGo, ReceiveNames, working, accepting
  <1>5. ASSUME NEW p \in Players, GivesUp(p) PROVE WorkInv'
    BY <1>2, <1>5 DEF GivesUp, Dies
  <1>6. ASSUME NEW p \in Players, NEW t \in Threads, WorkerStep(p, t) PROVE WorkInv'
    BY <1>6, ConnectKeeps, SendIdKeeps, GetConnectionKeeps DEF WorkerStep
  <1>7. CASE UNCHANGED vars
    BY <1>2, <1>7 DEF vars, working, accepting
  <1> QED
    BY <1>1, <1>3, <1>4, <1>5, <1>6, <1>7 DEF Next

-----------------------------------------------------------------------------
LEMMA AtFirst ==
    ASSUME Init
    PROVE  AcceptInv /\ ServerInv /\ WorkInv
  <1>1. AcceptInv
    <2>1. \A s \in Servers : backlog[s] = <<>> /\ clients[s] = EmptyMap
      BY DEF Init
    <2>2. \A S : <<>> \in Seq(S)
      BY EmptySeq
    <2>3. DOMAIN EmptyMap = {}
      BY DEF EmptyMap
    <2>4. \A s \in Servers : Accepted(s)
      BY <2>1, <2>2, <2>3 DEF Accepted
    <2> QED
      BY <2>4 DEF Init, AcceptInv
  <1>2. ServerInv
    BY Counts DEF Init, ServerInv, ServerSteps
  <1>3. WorkInv
    <2>1. /\ worker = [p \in Players |-> [t \in Threads |-> [step |-> "connect", base |-> 1, i |-> p]]]
          /\ reused = {} /\ used = [s \in Servers |-> {}]
      BY DEF Init, AtWork
    <2>2. sockets \in [Players -> [Threads -> [DOMAIN Bases -> [Players -> Sockets]]]]
      <3>1. [q \in Players |-> NoSocket] \in [Players -> Sockets]
        BY DEF Sockets
      <3>2. sockets = [p \in Players |-> [t \in Threads |-> [b \in DOMAIN Bases |-> [q \in Players |-> NoSocket]]]]
        BY DEF Init
      <3> QED
        BY <3>1, <3>2
    <2>3. \A p, q \in Players, t \in Threads, b \in DOMAIN Bases : ~ Got(p, t, b, q)
      BY <2>1, Counts DEF Got
    <2>4. \A p, q \in Players, t \in Threads, b \in DOMAIN Bases : p < q => ~ Made(p, t, b, q)
      BY <2>1, Counts DEF Made, Players
    <2>5. \A p, q \in Players, t \in Threads, b \in DOMAIN Bases : SocketOf(p, t, b, q)
      BY <2>3, <2>4 DEF SocketOf
    <2>6. worker \in [Players -> [Threads -> Works]]
      BY <2>1, Counts DEF Works
    <2>7. \A p \in Players : used[p] = {}
      BY <2>1 DEF Servers
    <2>8. \A p \in Players, t \in Threads : worker[p][t].step = "connect"
      BY <2>1
    <2> QED
      BY <2>1, <2>2, <2>5, <2>6, <2>7, <2>8 DEF WorkInv, WorkTypes
  <1> QED
    BY <1>1, <1>2, <1>3

LEMMA Connected ==
    ASSUME WorkInv
    PROVE  PlayersPaired
  <1>1. ASSUME NEW p \in Players, NEW t \in Threads, NEW b \in DOMAIN Bases, SetUp(p, t, b)
        PROVE  \A q \in Players : Made(p, t, b, q) /\ Got(p, t, b, q)
    <2>1. worker[p][t].base \in 1 .. Len(Bases) /\ b \in 1 .. Len(Bases) /\ Len(Bases) \in Nat
      BY Counts DEF WorkInv, WorkTypes, Works
    <2>2. worker[p][t].step = "ready" => worker[p][t].base = Len(Bases)
      BY DEF WorkInv
    <2> QED
      BY <1>1, <2>1, <2>2 DEF SetUp, Base, Made, Got
  <1>2. ASSUME NEW p \in Players, NEW q \in Players, NEW t \in Threads, NEW b \in DOMAIN Bases,
               SetUp(p, t, b), SetUp(q, t, b), p <= q
        PROVE  sockets[p][t][b][q] = Connection(p, t, b, q) /\ sockets[q][t][b][p] = Connection(p, t, b, q)
    <2>1. SocketOf(p, t, b, q) /\ SocketOf(q, t, b, p)
      BY DEF WorkInv
    <2>2. p < q \/ p = q
      BY <1>2 DEF Players
    <2> QED
      BY <1>1, <1>2, <2>1, <2>2 DEF SocketOf, Players
  <1>3. \A p, q \in Players : p <= q \/ q <= p
    BY DEF Players
  <1>4. reused = {}
    BY DEF WorkInv
  <1> QED
    BY <1>2, <1>3, <1>4 DEF PlayersPaired

LEMMA Together ==
    ASSUME ServerInv
    PROVE  StartTogether
  <1>1. \A p \in Players : p < NPlayers
    BY Counts DEF Players
  <1> QED
    BY <1>1 DEF ServerInv, StartTogether, Reported, Named

(* Nobody is let go before all have reported to the name server, and nobody *)
(* has the list before all have sent their names (Server::start).           *)
THEOREM AllStartTogether == Spec => []StartTogether
  <1> DEFINE Inv == AcceptInv /\ ServerInv /\ WorkTypes
  <1>1. Init => Inv
    BY AtFirst DEF WorkInv
  <1>2. Inv /\ [Next]_vars => Inv'
    BY AcceptInvKept, ServerInvKept, WorkTypesKept
  <1>3. Inv => StartTogether
    BY Together
  <1> QED
    BY <1>1, <1>2, <1>3, PTL DEF Spec

(* In whatever order the connections come, two parties hold the ends of one *)
(* that was made for the very Player and thread, and no id is asked for     *)
(* twice (Player::setup_sockets, ServerSocket::get_connection_socket).       *)
THEOREM ConnectionsPaired == ASSUME BasesApart PROVE Spec => []PlayersPaired
  <1> DEFINE Inv == AcceptInv /\ WorkInv
  <1>1. Init => Inv
    BY AtFirst
  <1>2. Inv /\ [Next]_vars => Inv'
    BY AcceptInvKept, WorkInvKept, IdsDiffer DEF WorkInv
  <1>3. Inv => PlayersPaired
    BY Connected
  <1> QED
    BY <1>1, <1>2, <1>3, PTL DEF Spec
=============================================================================
