------------------------------ MODULE Startup ------------------------------
(***************************************************************************)
(* How the parties of an online phase find and connect each other.  Every  *)
(* party reports to a name server (Server.x, Networking/Server.cpp), which *)
(* lets all go once all are there and sends everybody the list of them     *)
(* (Names::setup_names).  Then every worker thread of every party sets up  *)
(* Players, each of one connection per pair of parties: a Player connects  *)
(* to the parties from its own number on, says an id, and asks its party's *)
(* ServerSocket for the connections of the others by their ids.            *)
(*                                                                         *)
(* A ServerSocket has one thread that takes the connections in the order   *)
(* they come and waits for each to say its id.  A connect succeeds as soon *)
(* as the other side listens.  All waiting is given up after some time;    *)
(* whoever gives up ends its process.                                      *)
(***************************************************************************)
EXTENDS Integers, Sequences, FiniteSets, Functions

CONSTANTS
    NPlayers,
    NThreads,    \* worker threads of a party
    Bases,       \* id bases of the Players of thread 0, in the order of their set-up
    ThreadStep   \* 1 << 16, the distance of the bases of two threads

Players == 0 .. NPlayers - 1
Threads == 0 .. NThreads - 1
NameServer == -1
Servers == Players \cup {NameServer}

ASSUME CountsAssumption == {NPlayers, NThreads, ThreadStep} \subseteq Nat \ {0}
ASSUME BasesAssumption == Bases \in Seq(Nat) /\ Bases # <<>>

(* id_base + i * nplayers + player_no for a connection of client and server *)
IdOneBase(t, b, server, client) ==     \* slip: all Players of a thread have one base
    Bases[1] + t * ThreadStep + server * NPlayers + client
Id(t, b, server, client) ==
    Bases[b] + t * ThreadStep + server * NPlayers + client

(* A connection is known by who made it and for what.                       *)
Connection(p, t, b, to) == <<p, t, b, to>>
Report(p) == <<p, -1, 0, NameServer>>
NoSocket == <<>>

VARIABLES
    stage,      \* [Players -> where its main thread is]
    serving,    \* [step, i] of the name server
    released, named, informed,  \* parties that were sent GO, sent their name, got the list
    listening,  \* SUBSET Servers
    backlog,    \* [Servers -> Seq(connection)] not yet taken by the accept thread
    announced,  \* connections whose id has been sent
    clients,    \* [Servers -> function from ids to connections]
    used,       \* [Servers -> SUBSET Int]
    worker,     \* [Players -> [Threads -> [step, base, i]]]
    sockets,    \* [Players -> [Threads -> [bases -> [Players -> connection]]]]
    reused      \* parties that asked for an id twice

handshake == <<serving, released, named, informed>>
accepting == <<listening, backlog, announced, clients, used>>
working == <<worker, sockets, reused>>
vars == <<stage, handshake, accepting, working>>

EmptyMap == [x \in {} |-> NoSocket]
AtWork(step, b, i) == [step |-> step, base |-> b, i |-> i]

Init ==
    /\ stage = [p \in Players |-> "connect"]
    /\ serving = [step |-> "down", i |-> 0]
    /\ released = {} /\ named = {} /\ informed = {}
    /\ listening = {}
    /\ backlog = [s \in Servers |-> <<>>]
    /\ announced = {}
    /\ clients = [s \in Servers |-> EmptyMap]
    /\ used = [s \in Servers |-> {}]
    /\ worker = [p \in Players |-> [t \in Threads |-> AtWork("connect", 1, p)]]
    /\ sockets = [p \in Players |-> [t \in Threads |->
          [b \in DOMAIN Bases |-> [q \in Players |-> NoSocket]]]]
    /\ reused = {}

-----------------------------------------------------------------------------
(* ServerSocket.                                                           *)

Knock(c, s) == backlog' = [backlog EXCEPT ![s] = Append(@, c)]

(* The id a connection says.                                               *)
IdOfSwapped(c) ==                            \* slip: client and server exchanged
    IF c[4] = NameServer THEN c[1] ELSE Id(c[2], c[3], c[1], c[4])
IdOf(c) == IF c[4] = NameServer THEN c[1] ELSE Id(c[2], c[3], c[4], c[1])

(* accept_clients: later connections wait for the id of the first.         *)
Accept(s) ==
    /\ s \in listening /\ backlog[s] # <<>>
    /\ LET c == Head(backlog[s]) IN
       /\ c \in announced
       /\ clients' = [clients EXCEPT ![s] =
             [x \in DOMAIN @ \cup {IdOf(c)} |-> IF x = IdOf(c) THEN c ELSE @[x]]]
    /\ backlog' = [backlog EXCEPT ![s] = Tail(@)]
    /\ UNCHANGED <<stage, handshake, listening, announced, used, working>>

(* get_connection_socket finds the id, or waits, and throws if it has      *)
(* waited too long or the id was asked for before.  An id that was used    *)
(* stays in clients.  The code looks at used before it waits and here it   *)
(* does when it finds: no two threads wait for the same id.                *)
Finds(s, id) == id \in DOMAIN clients[s]
IdAlreadyUsed(s, id) == id \in used[s]
Use(s, id) == used' = [used EXCEPT ![s] = @ \cup {id}]

-----------------------------------------------------------------------------
(* Server::start.                                                          *)

ServeNext(again, n, next) ==
    serving' = IF serving.i + 1 < n
               THEN [step |-> again, i |-> serving.i + 1]
               ELSE [step |-> next, i |-> 0]
Serves(step) == serving.step = step

ServerStarts ==
    /\ Serves("down")
    /\ listening' = listening \cup {NameServer}
    /\ serving' = [serving EXCEPT !.step = "collect"]
    /\ UNCHANGED <<stage, released, named, informed, backlog, announced, clients,
                   used, working>>

CollectOne ==                                \* slip: the first is enough
    /\ Serves("collect") /\ Finds(NameServer, serving.i)
    /\ Use(NameServer, serving.i)
    /\ ServeNext("collect", 1, "go")
    /\ UNCHANGED <<stage, released, named, informed, listening, backlog, announced,
                   clients, working>>

Collect ==
    /\ Serves("collect") /\ Finds(NameServer, serving.i)
    /\ Use(NameServer, serving.i)
    /\ ServeNext("collect", NPlayers, "go")
    /\ UNCHANGED <<stage, released, named, informed, listening, backlog, announced,
                   clients, working>>

(* get_name: send GO and wait for the name.                                *)
SendGo ==
    /\ Serves("go")
    /\ released' = released \cup {serving.i}
    /\ serving' = [serving EXCEPT !.step = "name"]
    /\ UNCHANGED <<stage, named, informed, accepting, working>>

GetName ==
    /\ Serves("name") /\ serving.i \in named
    /\ ServeNext("go", NPlayers, "send")
    /\ UNCHANGED <<stage, released, named, informed, accepting, working>>

SendNames ==
    /\ Serves("send")
    /\ informed' = informed \cup {serving.i}
    /\ ServeNext("send", NPlayers, "over")
    /\ UNCHANGED <<stage, released, named, accepting, working>>

(* The process ends: after its work, because a party did not come, or      *)
(* because the parties' addresses are a mixture of localhost and others.   *)
ServerEnds ==
    /\ \/ Serves("over")
       \/ Serves("collect") /\ ~Finds(NameServer, serving.i)
       \/ Serves("send") /\ serving.i = 0 /\ NPlayers > 2
    /\ serving' = [serving EXCEPT !.step = IF Serves("over") THEN "done" ELSE "gone"]
    /\ listening' = listening \ {NameServer}
    /\ backlog' = [backlog EXCEPT ![NameServer] = <<>>]
    /\ UNCHANGED <<stage, released, named, informed, announced, clients, used, working>>

-----------------------------------------------------------------------------
(* Names::setup_names and setup_server.                                    *)

ReportTo(p) ==
    /\ stage[p] = "connect" /\ NameServer \in listening
    /\ Knock(Report(p), NameServer)
    /\ stage' = [stage EXCEPT ![p] = "number"]
    /\ UNCHANGED <<handshake, listening, announced, clients, used, working>>

SendNumber(p) ==
    /\ stage[p] = "number"
    /\ announced' = announced \cup {Report(p)}
    /\ stage' = [stage EXCEPT ![p] = "go"]
    /\ UNCHANGED <<handshake, listening, backlog, clients, used, working>>

ReceiveGo(p) ==
    /\ stage[p] = "go" /\ p \in released
    /\ named' = named \cup {p}
    /\ stage' = [stage EXCEPT ![p] = "names"]
    /\ UNCHANGED <<serving, released, informed, accepting, working>>

(* The list is there: listen, and start the workers.                       *)
ReceiveNames(p) ==
    /\ stage[p] = "names" /\ p \in informed
    /\ listening' = listening \cup {p}
    /\ stage' = [stage EXCEPT ![p] = "workers"]
    /\ UNCHANGED <<handshake, backlog, announced, clients, used, working>>

-----------------------------------------------------------------------------
(* Whatever is thrown ends the process of the party.                       *)

Gone(p) == stage[p] = "gone"
Dies(p) ==
    /\ stage' = [stage EXCEPT ![p] = "gone"]
    /\ listening' = listening \ {p}
    /\ backlog' = [backlog EXCEPT ![p] = <<>>]
    /\ UNCHANGED <<handshake, announced, clients, used, worker, sockets>>

-----------------------------------------------------------------------------
(* Player::setup_sockets by thread t.                                      *)

At(p, t, step) == stage[p] = "workers" /\ worker[p][t].step = step
Base(p, t) == worker[p][t].base
Peer(p, t) == worker[p][t].i

Connect(p, t) ==
    /\ At(p, t, "connect") /\ Peer(p, t) \in listening
    /\ Knock(Connection(p, t, Base(p, t), Peer(p, t)), Peer(p, t))
    /\ worker' = [worker EXCEPT ![p][t].step = "id"]
    /\ UNCHANGED <<stage, handshake, listening, announced, clients, used, sockets, reused>>

SendId(p, t) ==
    /\ At(p, t, "id")
    /\ LET c == Connection(p, t, Base(p, t), Peer(p, t)) IN
       /\ announced' = announced \cup {c}
       /\ sockets' = [sockets EXCEPT ![p][t][c[3]][c[4]] = c]
    /\ worker' = [worker EXCEPT ![p][t] =
          IF @.i + 1 < NPlayers THEN AtWork("connect", @.base, @.i + 1)
          ELSE AtWork("accept", @.base, 0)]
    /\ UNCHANGED <<stage, handshake, listening, backlog, clients, used, reused>>

WantedId(p, t) == Id(t, Base(p, t), p, Peer(p, t))

GetConnection(p, t) ==
    /\ At(p, t, "accept") /\ Finds(p, WantedId(p, t))
    /\ IF IdAlreadyUsed(p, WantedId(p, t))
       THEN Dies(p) /\ reused' = reused \cup {p}
       ELSE /\ Use(p, WantedId(p, t))
            /\ sockets' = [sockets EXCEPT
                  ![p][t][Base(p, t)][Peer(p, t)] = clients[p][WantedId(p, t)]]
            /\ worker' = [worker EXCEPT ![p][t] =
                  IF @.i + 1 <= p THEN AtWork("accept", @.base, @.i + 1)
                  ELSE IF @.base < Len(Bases) THEN AtWork("connect", @.base + 1, p)
                  ELSE AtWork("ready", @.base, 0)]
            /\ UNCHANGED <<stage, handshake, listening, backlog, announced, clients, reused>>

-----------------------------------------------------------------------------
(* connect is refused for a minute, send fails, wait(60) times out.        *)
GivesUp(p) ==
    /\ \/ stage[p] = "connect" /\ NameServer \notin listening
       \/ \E t \in Threads :
             \/ At(p, t, "connect") /\ Peer(p, t) \notin listening
             \/ At(p, t, "id") /\ Gone(Peer(p, t))
             \/ At(p, t, "accept") /\ ~Finds(p, WantedId(p, t))
    /\ Dies(p)
    /\ UNCHANGED reused

-----------------------------------------------------------------------------
ServerStep ==
    \/ ServerStarts \/ Collect \/ SendGo \/ GetName \/ SendNames
    \/ ServerEnds
MainStep(p) == ReportTo(p) \/ SendNumber(p) \/ ReceiveGo(p) \/ ReceiveNames(p)
WorkerStep(p, t) == Connect(p, t) \/ SendId(p, t) \/ GetConnection(p, t)

Ready(p) == stage[p] = "workers" /\ \A t \in Threads : worker[p][t].step = "ready"

(* receive() in a loop on a connection whose other end is closed.          *)
WaitsForServer(p) ==
    /\ serving.step = "gone"
    /\ stage[p] \in {"number", "go"} \/ (stage[p] = "names" /\ p \notin informed)

AtRest == \A p \in Players : Ready(p) \/ Gone(p) \/ WaitsForServer(p)

Next ==
    \/ ServerStep
    \/ \E s \in Servers : Accept(s)
    \/ \E p \in Players :
          MainStep(p) \/ GivesUp(p) \/ \E t \in Threads : WorkerStep(p, t)
    \/ AtRest /\ UNCHANGED vars

(* Every thread runs.                                                      *)
Fairness ==
    /\ WF_vars(ServerStep)
    /\ \A s \in Servers : WF_vars(Accept(s))
    /\ \A p \in Players :
          /\ WF_vars(MainStep(p))
          /\ \A t \in Threads : WF_vars(WorkerStep(p, t))

Spec == Init /\ [][Next]_vars /\ Fairness

-----------------------------------------------------------------------------
(* Two parties that have both set up a Player hold the two ends of the same *)
(* connection, made for that very thread and Player, in whatever order the  *)
(* connections came; and no id is asked for twice.                            *)
SetUp(p, t, b) ==
    stage[p] = "workers" /\ (Base(p, t) > b \/ worker[p][t].step = "ready")
PlayersPaired ==
    /\ reused = {}
    /\ \A p, q \in Players, t \in Threads, b \in DOMAIN Bases :
        SetUp(p, t, b) /\ SetUp(q, t, b) =>
            /\ sockets[p][t][b][q] = sockets[q][t][b][p]
            /\ sockets[p][t][b][q] \in {Connection(p, t, b, q), Connection(q, t, b, p)}

(* "Now all machines are set up, send GO to start them": nobody is let go   *)
(* before everybody has reported, and nobody has the list of names before   *)
(* everybody has sent its own.                                              *)
StartTogether ==
    /\ released # {} => \A p \in Players : Report(p) \in announced
    /\ informed # {} => named = Players

(* Everybody gets ready, unless somebody gives up; if a minute does pass    *)
(* where it is waited for, then nobody waits forever but those that wait    *)
(* for a name server that is gone.                                          *)
Ended == serving.step = "gone" \/ \E p \in Players : Gone(p)
StartupEnds ==
    /\ <>(Ended \/ \A p \in Players : Ready(p))
    /\ (\A p \in Players : WF_vars(GivesUp(p))) => <>AtRest
=============================================================================
