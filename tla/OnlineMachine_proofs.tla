------------------------ MODULE OnlineMachine_proofs ------------------------
(***************************************************************************)
(* Proofs about OnlineMachine, for every number of threads, every schedule *)
(* and every set of tapes: types, and that main never leaves a line before *)
(* all its tapes have finished; and, for tapes that start tapes as the     *)
(* compiler lets them, that no tape handed to a worker is lost or changed  *)
(* before the worker has taken it, and that a tape that has joined others  *)
(* finds them finished.                                                    *)
(***************************************************************************)
EXTENDS OnlineMachine, TLAPS

(* No thread that runs an entry of the schedule is also the target of a     *)
(* RUN_TAPE.  The compiler numbers the threads of RUN_TAPE from 1 and       *)
(* refuses them in programs whose schedule has parallel entries.            *)
Target(t) ==
    \E n \in Tapes : \E k \in DOMAIN Code[n] :
        Code[n][k].op = "run" /\ Code[n][k].th = t
LineThread(t) == \E l \in DOMAIN Schedule : t \in 0 .. Len(Schedule[l]) - 1
SchedulesApart == \A t \in Threads : LineThread(t) => ~Target(t)

-----------------------------------------------------------------------------
Starting == {"create", "sync", "syncwait"}
InLine == {"run", "increase", "join", "joinwait", "lineend"}
Before == {"none", "setup", "announce"}
Waiting == {"check", "progwait"}
Busy == {"seek", "exec", "joinwait", "finish", "catch", "rethrow", "undefined"}

(* What holds of the control points alone.                                  *)
ControlInv ==
    /\ pc[Main] \in {"run", "increase", "join", "joinwait"} =>
          exec \in DOMAIN Schedule /\ i < Len(Schedule[exec])
    /\ pc[Main] = "lineend" => exec \in DOMAIN Schedule
    /\ exec >= 1
    /\ DOMAIN req = Threads /\ DOMAIN current = Threads
    /\ \A t \in Threads :
          /\ pc[t] \in {"seek", "exec", "joinwait", "finish"} => program[t] \in Tapes
          /\ ip[t] >= 1

TypeInv == TypeOK /\ ControlInv

(* Every worker is past its announcement when main leaves the constructor.  *)
StartInv ==
    \A t \in Threads :
        /\ pc[Main] \in Starting =>
              /\ ready[t] => pc[t] \in Waiting
              /\ prognum[t] = Idle
              /\ pc[t] \in Before \cup Waiting
              /\ finished[t]
        /\ pc[Main] = "create" /\ t >= i => pc[t] = "none"
        /\ (pc[Main] \notin Starting \/ (pc[Main] \in {"sync", "syncwait"} /\ t < i))
              => pc[t] \notin Before

(* main has started entry t of the current line.                            *)
Launched(t) ==
    \/ pc[Main] = "run" /\ t < i
    \/ pc[Main] = "increase" /\ t <= i
    \/ pc[Main] \in {"join", "joinwait", "lineend"} /\ t < Len(Schedule[exec])

Pending(t) == prognum[t] \in Tapes /\ req[t] = LineReq(exec, t)
              /\ ~finished[t] /\ pc[t] \in Waiting
Running(t) == prognum[t] = Idle /\ current[t] = LineReq(exec, t)
              /\ ~finished[t] /\ pc[t] \in Busy
Finished(t) == prognum[t] = Idle /\ LineReq(exec, t) \in completed
               /\ finished[t] /\ pc[t] \in Waiting
Resting(t) == prognum[t] = Idle /\ finished[t] /\ pc[t] \in Waiting

(* The state of a worker that no RUN_TAPE targets, from the first line on   *)
(* until the kill loop.                                                     *)
EntryInv ==
    \A t \in Threads : ~Target(t) /\ pc[Main] \in InLine \cup {"fetch"} =>
        IF Launched(t) THEN Pending(t) \/ Running(t) \/ Finished(t)
                       ELSE Resting(t)

(* Nobody is woken but by the signal it waits for.                          *)
WaitInv ==
    /\ \A t \in Threads :
          \/ pc[Main] \in Starting
          \/ ~Target(t) /\ pc[Main] \in InLine \cup {"fetch"}
          => (pc[t] = "progwait" /\ prognum[t] = Idle => t \in serverWaiters[t])
    /\ pc[Main] = "joinwait" /\ ~finished[i] => Main \in clientWaiters[i]

(* Entries that main has joined.                                            *)
JoinInv ==
    /\ LinesJoined
    /\ pc[Main] \in {"join", "joinwait"} => \A t \in Threads : t < i => finished[t]
    /\ pc[Main] = "lineend" =>
          \A t \in Threads : t < Len(Schedule[exec]) => finished[t]

IInv == TypeInv /\ StartInv /\ EntryInv /\ WaitInv /\ JoinInv

-----------------------------------------------------------------------------
(* Facts about the constants and the signals.                               *)

LEMMA LineFacts ==
    ASSUME NEW l \in DOMAIN Schedule
    PROVE  /\ Schedule[l] \in Seq([tape : Tapes, arg : Nat])
           /\ Len(Schedule[l]) \in 1 .. NThreads
           /\ l \in Nat /\ l >= 1 /\ l <= Len(Schedule)
BY ScheduleAssumption

LEMMA SeqElement ==
    ASSUME NEW S, NEW q \in Seq(S), NEW k \in 1 .. Len(q)
    PROVE  q[k] \in S
OBVIOUS

LEMMA EntryFacts ==
    ASSUME NEW l \in DOMAIN Schedule, NEW k \in 0 .. Len(Schedule[l]) - 1
    PROVE  /\ Schedule[l][k + 1].tape \in Tapes
           /\ Schedule[l][k + 1].arg \in Nat
           /\ k \in Threads
<1>1. Schedule[l] \in Seq([tape : Tapes, arg : Nat]) /\ Len(Schedule[l]) \in 1 .. NThreads
  BY LineFacts
<1>2. k \in Nat /\ k + 1 \in 1 .. Len(Schedule[l])
  BY <1>1, ThreadsAssumption
<1>3. Schedule[l][k + 1] \in [tape : Tapes, arg : Nat]
  BY <1>1, <1>2, SeqElement
<1>4. k \in Threads
  BY <1>1, <1>2, ThreadsAssumption DEF Threads
<1> QED
  BY <1>3, <1>4

LEMMA InstrFacts ==
    ASSUME NEW n \in Tapes, NEW k \in Nat, k >= 1, k <= Len(Code[n])
    PROVE  /\ Code[n] \in Seq(Instructions) /\ k \in DOMAIN Code[n]
           /\ Code[n][k] \in Instructions
           /\ Code[n][k].n \in Nat /\ Code[n][k].th \in Nat
           /\ Code[n][k].tape \in Nat /\ Code[n][k].arg \in Nat
           /\ Code[n][k].op = "join" => Code[n][k].th \in Threads
<1>1. Code[n] \in Seq(Instructions) /\ k \in DOMAIN Code[n]
  BY CodeAssumption
<1>2. Code[n][k] \in Instructions
  BY <1>1
<1> QED
  BY <1>1, <1>2, CodeAssumption DEF Instructions

LEMMA ProcFacts ==
    /\ Main \notin Threads /\ Main \in Procs
    /\ \A t \in Threads : t \in Procs /\ t # Main
    /\ \A k \in Nat : k < NThreads => k \in Threads
    /\ \A t \in Threads : t \in Nat /\ t < NThreads
    /\ Threads \subseteq Nat /\ 0 \in Threads
BY ThreadsAssumption DEF Threads, Procs, Main

LEMMA MainGoes ==
    ASSUME TypeOK, NEW l \in MainPoints, GoTo(Main, l)
    PROVE  /\ pc' \in [Procs -> MainPoints \cup WorkerPoints]
           /\ pc'[Main] = l
           /\ \A t \in Threads : pc'[t] = pc[t]
BY ProcFacts DEF TypeOK, GoTo

LEMMA WorkerGoes ==
    ASSUME TypeOK, NEW t \in Threads, NEW l \in WorkerPoints, GoTo(t, l)
    PROVE  /\ pc' \in [Procs -> MainPoints \cup WorkerPoints]
           /\ pc'[t] = l
           /\ pc'[Main] = pc[Main]
           /\ \A u \in Threads \ {t} : pc'[u] = pc[u]
BY ProcFacts DEF TypeOK, GoTo

LEMMA LoopFacts ==
    ASSUME TypeOK, NEW n \in 0 .. NThreads, NEW a \in MainPoints, NEW b \in MainPoints,
           LoopOrLeave(n, a, b)
    PROVE  /\ i' \in Threads
           /\ pc' \in [Procs -> MainPoints \cup WorkerPoints]
           /\ \A t \in Threads : pc'[t] = pc[t]
           /\ \/ i' = i + 1 /\ i + 1 < n /\ pc'[Main] = a
              \/ i' = 0 /\ i + 1 >= n /\ pc'[Main] = b
<1>1. i \in Nat /\ i \in Threads
  BY ProcFacts DEF TypeOK
<1>2. CASE i + 1 < n
  <2>1. i' = i + 1 /\ GoTo(Main, a)
    BY <1>2 DEF LoopOrLeave
  <2>2. i' \in Threads
    BY <1>1, <1>2, <2>1, ProcFacts, ThreadsAssumption
  <2> QED
    BY <1>2, <2>1, <2>2, MainGoes
<1>3. CASE ~(i + 1 < n)
  <2>1. i' = 0 /\ GoTo(Main, b)
    BY <1>3 DEF LoopOrLeave
  <2> QED
    BY <1>1, <1>3, <2>1, MainGoes, ProcFacts, ThreadsAssumption
<1> QED
  BY <1>2, <1>3

LEMMA NumtFacts ==
    ASSUME TypeOK, exec \in DOMAIN Schedule
    PROVE  numt = Len(Schedule[exec]) /\ numt \in 1 .. NThreads
BY LineFacts DEF numt

LEMMA SignalClientFacts ==
    ASSUME TypeOK, NEW t \in Threads, SignalClient(t)
    PROVE  /\ clientWaiters' \in [Threads -> SUBSET Procs]
           /\ \A u \in Threads : clientWaiters'[u] \subseteq clientWaiters[u]
           /\ \A u \in Threads \ {t} : clientWaiters'[u] = clientWaiters[u]
BY DEF TypeOK, SignalClient, Signal

LEMMA SignalServerFacts ==
    ASSUME TypeOK, NEW t \in Threads, SignalServer(t)
    PROVE  /\ serverWaiters' \in [Threads -> SUBSET Procs]
           /\ \A u \in Threads : serverWaiters'[u] \subseteq serverWaiters[u]
           /\ \A u \in Threads \ {t} : serverWaiters'[u] = serverWaiters[u]
BY DEF TypeOK, SignalServer, Signal

-----------------------------------------------------------------------------
(* Types.                                                                    *)

LEMMA TypeInvInit == Init => TypeInv
<1> SUFFICES ASSUME Init PROVE TypeInv
  OBVIOUS
<1>1. TypeOK
  <2>1. /\ i \in Threads /\ pos \in Nat /\ exec \in Nat /\ delta \in Nat /\ fileStart \in Nat
        /\ usageUnknown \in BOOLEAN /\ purged \in BOOLEAN /\ aborted \in BOOLEAN
    BY ProcFacts DEF Init, NoDelta
  <2>2. /\ pc \in [Procs -> MainPoints \cup WorkerPoints]
        /\ pc[Main] \in MainPoints /\ \A t \in Threads : pc[t] \in WorkerPoints
    BY ProcFacts DEF Init, MainPoints, WorkerPoints
  <2>3. /\ prognum \in [Threads -> Tapes \cup {Idle, Stop}]
        /\ program \in [Threads -> Tapes \cup {Idle, Stop}]
        /\ arg \in [Threads -> Nat] /\ tpos \in [Threads -> Nat]
        /\ ip \in [Threads -> Nat] /\ datapos \in [Threads -> Nat]
    BY DEF Init
  <2>4. /\ finished \in [Threads -> BOOLEAN] /\ ready \in [Threads -> BOOLEAN]
        /\ held \in [Threads -> BOOLEAN]
        /\ clientWaiters \in [Threads -> SUBSET Procs]
        /\ serverWaiters \in [Threads -> SUBSET Procs]
    BY DEF Init
  <2> QED
    BY <2>1, <2>2, <2>3, <2>4 DEF TypeOK
<1>2. ControlInv
  BY ProcFacts DEF Init, ControlInv
<1> QED
  BY <1>1, <1>2 DEF TypeInv

LEMMA TypeInvStep == TypeInv /\ [Next]_vars => TypeInv'
<1> SUFFICES ASSUME TypeInv, [Next]_vars PROVE TypeInv'
  OBVIOUS
<1> USE ThreadsAssumption, TapesAssumption, ProcFacts DEF TypeInv, Idle, Stop
<1>m. ASSUME MainStep PROVE TypeInv'
  <2>1. CASE CreateThread
    <3>1. i \in Threads /\ i # Main /\ Main \in Procs
      BY ProcFacts DEF TypeOK
    <3>2. /\ pc' \in [Procs -> MainPoints \cup WorkerPoints]
          /\ pc'[Main] \in {"create", "sync"} /\ pc'[i] = "setup"
          /\ \A t \in Threads \ {i} : pc'[t] = pc[t]
          /\ i' \in Threads
      <4>1. CASE i + 1 < NThreads
        BY <2>1, <3>1, <4>1, ProcFacts DEF CreateThread, TypeOK, MainPoints, WorkerPoints
      <4>2. CASE ~(i + 1 < NThreads)
        BY <2>1, <3>1, <4>2, ProcFacts DEF CreateThread, TypeOK, MainPoints, WorkerPoints
      <4> QED
        BY <4>1, <4>2
    <3> QED
      BY <2>1, <3>1, <3>2 DEF CreateThread, TypeOK, ControlInv, info, workVars,
         failVars, ghosts, MainPoints, WorkerPoints
  <2>2. CASE AwaitReady
    BY <2>2 DEF AwaitReady, WaitClient, GoTo, TypeOK, ControlInv, info, sync, mainVars,
       workVars, failVars, ghosts, MainPoints, WorkerPoints
  <2>3. CASE RetryReady
    BY <2>3 DEF RetryReady, GoTo, TypeOK, ControlInv, info, sync, mainVars,
       workVars, failVars, ghosts, MainPoints, WorkerPoints
  <2>4. CASE ThreadReady
    <3>1. LoopOrLeave(NThreads, "sync", "fetch")
      BY <2>4 DEF ThreadReady
    <3>2. /\ i' \in Threads
          /\ pc' \in [Procs -> MainPoints \cup WorkerPoints]
          /\ \A t \in Threads : pc'[t] = pc[t]
          /\ \/ i' = i + 1 /\ i + 1 < NThreads /\ pc'[Main] = "sync"
             \/ i' = 0 /\ pc'[Main] = "fetch"
      <4>1. "sync" \in MainPoints /\ "fetch" \in MainPoints /\ NThreads \in 0 .. NThreads
        BY ThreadsAssumption DEF MainPoints
      <4> QED BY SMTT(20), <3>1, <4>1, LoopFacts
    <3> QED
      BY <2>4, <3>2 DEF ThreadReady, TypeOK, ControlInv, info, sync, mainVars,
         workVars, failVars, ghosts, MainPoints, WorkerPoints
  <2>5. CASE FetchLine
    <3>1. \/ GoTo(Main, "kill") /\ numt = 0
          \/ GoTo(Main, "run") /\ numt # 0
      BY <2>5 DEF FetchLine
    <3>2. /\ pc' \in [Procs -> MainPoints \cup WorkerPoints]
          /\ pc'[Main] = "kill" \/ (pc'[Main] = "run" /\ numt # 0)
          /\ \A t \in Threads : pc'[t] = pc[t]
      BY <3>1, MainGoes DEF MainPoints
    <3>3. numt # 0 => exec \in DOMAIN Schedule /\ 0 < Len(Schedule[exec])
      BY SMTT(40), LineFacts, ScheduleAssumption DEF numt, TypeOK, ControlInv
    <3> QED
      BY <2>5, <3>2, <3>3, ProcFacts DEF FetchLine, TypeOK, ControlInv, info, sync,
         workVars, failVars, ghosts, MainPoints, WorkerPoints
  <2>6. CASE MainRunTape
    <3>1. exec \in DOMAIN Schedule /\ i \in 0 .. Len(Schedule[exec]) - 1
      BY <2>6, LineFacts DEF MainRunTape, ControlInv, TypeOK
    <3>2. Entry.tape \in Tapes /\ Entry.arg \in Nat /\ i \in Threads
      BY <3>1, EntryFacts DEF Entry
    <3>3. SignalServer(i)
      BY <2>6 DEF MainRunTape, HandOver
    <3>4. serverWaiters' \in [Threads -> SUBSET Procs]
      BY <3>2, <3>3 DEF SignalServer, Signal, TypeOK
    <3>5. GoTo(Main, "increase") \/ GoTo(Main, "catch")
      BY <2>6 DEF MainRunTape
    <3>6. /\ pc' \in [Procs -> MainPoints \cup WorkerPoints]
          /\ pc'[Main] \in {"increase", "catch"}
          /\ \A t \in Threads : pc'[t] = pc[t]
      BY <3>5, MainGoes DEF MainPoints
    <3>7. delta' \in Nat /\ usageUnknown' \in BOOLEAN
      BY <2>6, <3>2, UsageAssumption DEF MainRunTape, NoDelta, TypeOK
    <3> QED
      BY <2>6, <3>1, <3>2, <3>4, <3>6, <3>7 DEF MainRunTape, HandOver,
         TypeOK, ControlInv, workVars, failVars, MainPoints, WorkerPoints
  <2>7. CASE IncreasePos
    <3>1. exec \in DOMAIN Schedule /\ numt = Len(Schedule[exec]) /\ numt \in 0 .. NThreads
      BY <2>7, NumtFacts DEF IncreasePos, JoinReturns, ControlInv
    <3>2. LoopOrLeave(numt, "run", "join")
      BY <2>7 DEF IncreasePos
    <3>3. /\ i' \in Threads
          /\ pc' \in [Procs -> MainPoints \cup WorkerPoints]
          /\ \A t \in Threads : pc'[t] = pc[t]
          /\ \/ i' = i + 1 /\ i + 1 < numt /\ pc'[Main] = "run"
             \/ i' = 0 /\ pc'[Main] = "join"
      <4>1. "run" \in MainPoints /\ "join" \in MainPoints
        BY DEF MainPoints
      <4> QED BY SMTT(20), <3>1, <3>2, <4>1, LoopFacts
    <3>4. pos' \in Nat
      BY <2>7 DEF IncreasePos, Increased, TypeOK
    <3> QED
      <4>1. TypeOK'
        BY <2>7, <3>3, <3>4 DEF IncreasePos, TypeOK, info, sync,
           workVars, failVars, MainPoints, WorkerPoints
      <4>2. ControlInv'
        <5>1. UNCHANGED <<exec, req, current, program, ip>>
          BY <2>7 DEF IncreasePos, workVars, ghosts
        <5>2. \/ pc'[Main] = "run" /\ i' < Len(Schedule[exec])
              \/ pc'[Main] = "join" /\ i' < Len(Schedule[exec])
          BY <3>1, <3>3
        <5> QED
          BY <3>1, <3>3, <5>1, <5>2 DEF ControlInv
      <4> QED
        BY <4>1, <4>2
  <2>8. CASE MainJoinWait
    BY <2>8 DEF MainJoinWait, WaitClient, GoTo, TypeOK, ControlInv, info, sync, mainVars,
       workVars, failVars, ghosts, MainPoints, WorkerPoints
  <2>9. CASE MainJoined
    <3>1. exec \in DOMAIN Schedule /\ numt = Len(Schedule[exec]) /\ numt \in 0 .. NThreads
      BY <2>9, NumtFacts DEF MainJoined, JoinReturns, ControlInv
    <3>2. LoopOrLeave(numt, "join", "lineend")
      BY <2>9 DEF MainJoined
    <3>3. /\ i' \in Threads
          /\ pc' \in [Procs -> MainPoints \cup WorkerPoints]
          /\ \A t \in Threads : pc'[t] = pc[t]
          /\ \/ i' = i + 1 /\ i + 1 < numt /\ pc'[Main] = "join"
             \/ i' = 0 /\ pc'[Main] = "lineend"
      <4>1. "join" \in MainPoints /\ "lineend" \in MainPoints
        BY DEF MainPoints
      <4> QED BY SMTT(20), <3>1, <3>2, <4>1, LoopFacts
    <3> QED
      BY <2>9, <3>1, <3>3 DEF MainJoined, TypeOK, ControlInv, info, sync, mainVars,
         workVars, failVars, ghosts, MainPoints, WorkerPoints
  <2>10. CASE EndLine
    <3>1. GoTo(Main, "fetch") /\ pos' \in Nat /\ exec' \in Nat /\ exec' >= 1
      BY <2>10, ProcFacts DEF EndLine, LineEndPos, TypeOK, ControlInv
    <3>2. /\ pc' \in [Procs -> MainPoints \cup WorkerPoints]
          /\ pc'[Main] = "fetch"
          /\ \A t \in Threads : pc'[t] = pc[t]
      BY <3>1, MainGoes DEF MainPoints
    <3> QED
      BY <2>10, <3>1, <3>2 DEF EndLine, TypeOK, ControlInv, info, sync, workVars,
         failVars, ghosts, MainPoints, WorkerPoints
  <2>11. CASE KillThread
    <3>1. LoopOrLeave(NThreads, "kill", "release")
      BY <2>11 DEF KillThread
    <3>2. /\ i' \in Threads
          /\ pc' \in [Procs -> MainPoints \cup WorkerPoints]
          /\ \A t \in Threads : pc'[t] = pc[t]
          /\ \/ i' = i + 1 /\ i + 1 < NThreads /\ pc'[Main] = "kill"
             \/ i' = 0 /\ pc'[Main] = "release"
      <4>1. "kill" \in MainPoints /\ "release" \in MainPoints /\ NThreads \in 0 .. NThreads
        BY ThreadsAssumption DEF MainPoints
      <4> QED BY SMTT(20), <3>1, <4>1, LoopFacts
    <3>3. SignalServer(i) /\ i \in Threads
      BY <2>11 DEF KillThread, TypeOK
    <3>4. serverWaiters' \in [Threads -> SUBSET Procs]
      BY <3>3 DEF SignalServer, Signal, TypeOK
    <3> QED
      BY <2>11, <3>2, <3>4 DEF KillThread, TypeOK, ControlInv, info, sync, mainVars,
         workVars, failVars, ghosts, MainPoints, WorkerPoints
  <2>12. CASE ReleaseThread
    <3>1. SignalServer(i) /\ i \in Threads
      BY <2>12 DEF ReleaseThread, TypeOK
    <3>2. serverWaiters' \in [Threads -> SUBSET Procs]
      BY <3>1 DEF SignalServer, Signal, TypeOK
    <3> QED
      BY <2>12, <3>2 DEF ReleaseThread, GoTo, TypeOK, ControlInv, mainVars,
         workVars, failVars, ghosts, MainPoints, WorkerPoints
  <2>13. CASE PthreadJoin
    <3>1. LoopOrLeave(NThreads, "release", "prune")
      BY <2>13 DEF PthreadJoin
    <3>2. /\ i' \in Threads
          /\ pc' \in [Procs -> MainPoints \cup WorkerPoints]
          /\ \A t \in Threads : pc'[t] = pc[t]
          /\ \/ i' = i + 1 /\ i + 1 < NThreads /\ pc'[Main] = "release"
             \/ i' = 0 /\ pc'[Main] = "prune"
      <4>1. "release" \in MainPoints /\ "prune" \in MainPoints /\ NThreads \in 0 .. NThreads
        BY ThreadsAssumption DEF MainPoints
      <4> QED BY SMTT(20), <3>1, <4>1, LoopFacts
    <3> QED
      BY <2>13, <3>2 DEF PthreadJoin, TypeOK, ControlInv, info, sync, mainVars,
         workVars, failVars, ghosts, MainPoints, WorkerPoints
  <2>14. CASE SeekAndPrune
    BY <2>14 DEF SeekAndPrune, GoTo, TypeOK, ControlInv, info, sync, mainVars,
       workVars, failVars, ghosts, MainPoints, WorkerPoints
  <2> QED
    BY <1>m, <2>1, <2>2, <2>3, <2>4, <2>5, <2>6, <2>7, <2>8, <2>9, <2>10, <2>11, <2>12,
       <2>13, <2>14 DEF MainStep
<1>w. ASSUME NEW t \in Threads, WorkerStep(t) PROVE TypeInv'
  <2>1. CASE SetupDone(t)
    BY <2>1 DEF SetupDone, GoTo, TypeOK, ControlInv, info, sync, mainVars, workVars,
       failVars, ghosts, MainPoints, WorkerPoints
  <2>2. CASE AnnounceReady(t)
    <3>1. clientWaiters' \in [Threads -> SUBSET Procs]
      BY <2>2, SignalClientFacts DEF AnnounceReady
    <3> QED
      BY <2>2, <3>1 DEF AnnounceReady, GoTo, TypeOK, ControlInv, mainVars, workVars,
         failVars, ghosts, MainPoints, WorkerPoints
  <2>3. CASE AwaitProgram(t)
    <3>1. /\ pc' \in [Procs -> MainPoints \cup WorkerPoints]
          /\ pc'[t] = "progwait" /\ pc'[Main] = pc[Main]
          /\ \A u \in Threads \ {t} : pc'[u] = pc[u]
      BY <2>3, WorkerGoes DEF AwaitProgram, WorkerPoints
    <3>2. serverWaiters' \in [Threads -> SUBSET Procs]
      BY <2>3, ProcFacts DEF AwaitProgram, WaitServer, TypeOK
    <3> QED
      BY <2>3, <3>1, <3>2 DEF AwaitProgram, TypeOK, ControlInv, info, mainVars,
         workVars, failVars, ghosts, WorkerPoints
  <2>4. CASE TakeProgram(t)
    <3>1. /\ program' \in [Threads -> Tapes \cup {Idle, Stop}]
          /\ prognum' \in [Threads -> Tapes \cup {Idle, Stop}]
          /\ program'[t] = prognum[t] /\ \A u \in Threads \ {t} : program'[u] = program[u]
      BY <2>4 DEF TakeProgram, TypeOK
    <3>2. /\ pc' \in [Procs -> MainPoints \cup WorkerPoints]
          /\ pc'[t] \in {"final", "undefined", "seek"} /\ pc'[Main] = pc[Main]
          /\ \A u \in Threads \ {t} : pc'[u] = pc[u]
      BY <2>4, WorkerGoes DEF TakeProgram, WorkerPoints
    <3>3. pc'[t] = "seek" => program'[t] \in Tapes
      <4>1. prognum[t] \in Tapes \cup {Idle, Stop}
        BY DEF TypeOK
      <4>2. prognum[t] \notin Tapes => pc'[t] # "seek"
        BY <2>4, <4>1 DEF TakeProgram, GoTo, TypeOK
      <4> QED
        BY <3>1, <4>1, <4>2
    <3>4. DOMAIN req' = Threads /\ DOMAIN current' = Threads
      BY <2>4 DEF TakeProgram, ControlInv
    <3> QED
      BY <2>4, <3>1, <3>2, <3>3, <3>4 DEF TakeProgram, TypeOK, ControlInv, sync, mainVars,
         failVars, WorkerPoints
  <2>5. CASE ResetAndSeek(t)
    <3>1. /\ pc' \in [Procs -> MainPoints \cup WorkerPoints]
          /\ pc'[t] = "exec" /\ pc'[Main] = pc[Main]
          /\ \A u \in Threads \ {t} : pc'[u] = pc[u]
      BY <2>5, WorkerGoes DEF ResetAndSeek, WorkerPoints
    <3>2. ip' \in [Threads -> Nat] /\ datapos' \in [Threads -> Nat]
          /\ \A u \in Threads : ip'[u] >= 1
      BY SMTT(40), <2>5 DEF ResetAndSeek, TypeOK, ControlInv
    <3>3. program[t] \in Tapes
      BY <2>5 DEF ResetAndSeek, ControlInv
    <3> QED
      BY <2>5, <3>1, <3>2, <3>3 DEF ResetAndSeek, TypeOK, ControlInv, info, sync, mainVars,
         failVars, ghosts, WorkerPoints
  <2>i. ASSUME pc[t] = "exec", ip[t] <= Len(Code[program[t]])
        PROVE  /\ Instr(t).n \in Nat /\ Instr(t).th \in Nat
               /\ Instr(t).tape \in Nat /\ Instr(t).arg \in Nat
               /\ Instr(t).op = "join" => Instr(t).th \in Threads
    BY <2>i, InstrFacts DEF TypeOK, ControlInv, Instr
  <2>h. /\ ip \in [Threads -> Nat] /\ datapos \in [Threads -> Nat]
        /\ \A u \in Threads : ip[u] >= 1
    BY DEF TypeOK, ControlInv
  <2>6. CASE UseData(t)
    <3>1. /\ datapos' \in [Threads -> Nat] /\ ip' \in [Threads -> Nat]
          /\ \A u \in Threads : ip'[u] >= 1
      <4>1. Instr(t).n \in Nat
        BY <2>6, <2>i DEF UseData, AtInstr
      <4>2. datapos' = [datapos EXCEPT ![t] = @ + Instr(t).n] /\ ip' = [ip EXCEPT ![t] = @ + 1]
        BY <2>6 DEF UseData, NextInstr
      <4> QED
        BY <4>1, <4>2, <2>h
    <3> QED
      BY <2>6, <3>1 DEF UseData, TypeOK, ControlInv, info, sync, mainVars, failVars
  <2>7. CASE ExecRunTape(t)
    <3>1. CASE InvalidCall(Instr(t).th, Instr(t).tape)
      <4>1. /\ pc' \in [Procs -> MainPoints \cup WorkerPoints]
            /\ pc'[t] = "catch" /\ pc'[Main] = pc[Main]
            /\ \A u \in Threads \ {t} : pc'[u] = pc[u]
        BY <2>7, <3>1, WorkerGoes DEF ExecRunTape, WorkerPoints
      <4>2. UNCHANGED <<info, serverWaiters, ip, datapos, req, held, clientWaiters,
                        mainVars, program, failVars, current>>
        BY <2>7, <3>1 DEF ExecRunTape
      <4> QED
        BY <4>1, <4>2 DEF TypeOK, ControlInv, info, mainVars, failVars, WorkerPoints
    <3>2. CASE ~InvalidCall(Instr(t).th, Instr(t).tape)
      <4>1. Instr(t).th \in Threads /\ Instr(t).tape \in Tapes /\ Instr(t).arg \in Nat
        BY <2>7, <3>2, <2>i DEF ExecRunTape, AtInstr, InvalidCall
      <4>2. SignalServer(Instr(t).th) /\ HandOver(Instr(t).th, Instr(t).tape, Instr(t).arg,
                                      TapeReq(t, ip[t], current[t]))
        BY <2>7, <3>2 DEF ExecRunTape, HandOver
      <4>3. serverWaiters' \in [Threads -> SUBSET Procs]
        BY <4>1, <4>2 DEF SignalServer, Signal, TypeOK
      <4>4. /\ prognum' \in [Threads -> Tapes \cup {Idle, Stop}]
            /\ arg' \in [Threads -> Nat] /\ tpos' \in [Threads -> Nat]
            /\ finished' \in [Threads -> BOOLEAN]
        BY <4>1, <4>2 DEF HandOver, TypeOK
      <4>5. /\ ip' \in [Threads -> Nat] /\ datapos' \in [Threads -> Nat]
            /\ \A u \in Threads : ip'[u] >= 1
        <5>1. OfflineDataUsed(Instr(t).tape) \in Nat
          BY <4>1, UsageAssumption
        <5>2. \/ ip' = ip /\ datapos' = datapos
              \/ /\ ip' = [ip EXCEPT ![t] = @ + 1]
                 /\ datapos' = [datapos EXCEPT ![t] = @ + OfflineDataUsed(Instr(t).tape)]
          BY <2>7, <3>2 DEF ExecRunTape, NextInstr
        <5> QED
          BY <5>1, <5>2, <2>h
      <4>0. DOMAIN req' = Threads /\ DOMAIN current' = Threads
        BY <2>7, <4>2 DEF HandOver, ExecRunTape, ControlInv
      <4>6. GoTo(t, "catch") \/ pc' = pc
        BY <2>7, <3>2 DEF ExecRunTape
      <4>7. /\ pc' \in [Procs -> MainPoints \cup WorkerPoints]
            /\ pc'[t] = "catch" \/ pc'[t] = pc[t]
            /\ pc'[Main] = pc[Main]
            /\ \A u \in Threads \ {t} : pc'[u] = pc[u]
        BY <4>6, WorkerGoes DEF WorkerPoints, TypeOK
      <4>8. program[t] \in Tapes
        BY <2>7 DEF ExecRunTape, AtInstr, ControlInv
      <4>9. UNCHANGED <<ready, held, clientWaiters, mainVars, program, failVars>>
        BY <2>7, <3>2 DEF ExecRunTape
      <4>a. TypeOK'
        BY <4>3, <4>4, <4>5, <4>7, <4>9 DEF TypeOK, mainVars, failVars, WorkerPoints
      <4>b. ControlInv'
        BY <4>0, <4>5, <4>7, <4>8, <4>9 DEF ControlInv, mainVars
      <4> QED
        BY <4>a, <4>b
    <3> QED
      BY <3>1, <3>2
  <2>8. CASE ExecJoinWait(t)
    <3>1. /\ pc' \in [Procs -> MainPoints \cup WorkerPoints]
          /\ pc'[t] = "joinwait" /\ pc'[Main] = pc[Main]
          /\ \A u \in Threads \ {t} : pc'[u] = pc[u]
      BY <2>8, WorkerGoes DEF ExecJoinWait, WorkerPoints
    <3>2. clientWaiters' \in [Threads -> SUBSET Procs]
      BY <2>8, <2>i, ProcFacts DEF ExecJoinWait, AtInstr, WaitClient, TypeOK
    <3>3. program[t] \in Tapes
      BY <2>8 DEF ExecJoinWait, AtInstr, ControlInv
    <3> QED
      BY <2>8, <3>1, <3>2, <3>3 DEF ExecJoinWait, TypeOK, ControlInv, info, mainVars,
         workVars, failVars, ghosts, WorkerPoints
  <2>9. CASE ExecJoined(t)
    <3>1. /\ pc' \in [Procs -> MainPoints \cup WorkerPoints]
          /\ pc'[t] = "exec" /\ pc'[Main] = pc[Main]
          /\ \A u \in Threads \ {t} : pc'[u] = pc[u]
      BY <2>9, WorkerGoes DEF ExecJoined, WorkerPoints
    <3>2. ip' \in [Threads -> Nat] /\ \A u \in Threads : ip'[u] >= 1
      <4>1. ip' = [ip EXCEPT ![t] = @ + 1]
        BY <2>9 DEF ExecJoined, NextInstr
      <4> QED
        BY <4>1, <2>h
    <3>3. program[t] \in Tapes
      BY <2>9 DEF ExecJoined, AtInstr, JoinReturns, ControlInv
    <3> QED
      BY <2>9, <3>1, <3>2, <3>3 DEF ExecJoined, TypeOK, ControlInv, info, sync, mainVars,
         failVars, ghosts, WorkerPoints
  <2>10. CASE ExecCrash(t)
    BY <2>10 DEF ExecCrash, AtInstr, GoTo, TypeOK, ControlInv, info, sync, mainVars,
       workVars, failVars, ghosts, MainPoints, WorkerPoints
  <2>11. CASE EndProgram(t)
    BY <2>11 DEF EndProgram, GoTo, TypeOK, ControlInv, sync, mainVars, workVars,
       failVars, ghosts, MainPoints, WorkerPoints
  <2>12. CASE FinishProgram(t)
    <3>1. clientWaiters' \in [Threads -> SUBSET Procs]
      BY <2>12, SignalClientFacts DEF FinishProgram
    <3> QED
      BY <2>12, <3>1 DEF FinishProgram, GoTo, TypeOK, ControlInv, mainVars, workVars,
         failVars, MainPoints, WorkerPoints
  <2>13. CASE AwaitRelease(t)
    <3>1. /\ pc' \in [Procs -> MainPoints \cup WorkerPoints]
          /\ pc'[t] = "finalwait" /\ pc'[Main] = pc[Main]
          /\ \A u \in Threads \ {t} : pc'[u] = pc[u]
      BY <2>13, WorkerGoes DEF AwaitRelease, WorkerPoints
    <3>2. serverWaiters' \in [Threads -> SUBSET Procs]
      BY <2>13, ProcFacts DEF AwaitRelease, WaitServer, TypeOK
    <3> QED
      BY <2>13, <3>1, <3>2 DEF AwaitRelease, TypeOK, ControlInv, info, mainVars,
         workVars, failVars, ghosts, WorkerPoints
  <2>14. CASE ExitThread(t)
    BY <2>14 DEF ExitThread, GoTo, TypeOK, ControlInv, info, sync, mainVars, workVars,
       failVars, ghosts, MainPoints, WorkerPoints
  <2> QED
    BY <1>w, <2>1, <2>2, <2>3, <2>4, <2>5, <2>6, <2>7, <2>8, <2>9, <2>10, <2>11, <2>12,
       <2>13, <2>14 DEF WorkerStep
<1>s. ASSUME NEW t \in Threads, SpuriousWakeup(t) PROVE TypeInv'
  <2>1. /\ clientWaiters' \in [Threads -> SUBSET Procs]
        /\ serverWaiters' \in [Threads -> SUBSET Procs]
    BY <1>s DEF SpuriousWakeup, TypeOK
  <2> QED
    BY <1>s, <2>1 DEF SpuriousWakeup, TypeOK, ControlInv, info, mainVars, workVars,
       failVars, ghosts
<1>u. ASSUME NEW p \in Procs, Unwind(p) PROVE TypeInv'
  <2>1. CASE Purge(p)
    BY <1>u, <2>1 DEF Purge, GoTo, TypeOK, ControlInv, info, sync, mainVars,
       workVars, ghosts, MainPoints, WorkerPoints
  <2>2. CASE Abort(p)
    BY <1>u, <2>2 DEF Abort, TypeOK, ControlInv, info, sync, mainVars, workVars, ghosts
  <2> QED
    BY <1>u, <2>1, <2>2 DEF Unwind
<1>v. ASSUME UNCHANGED vars PROVE TypeInv'
  BY <1>v DEF vars, TypeOK, ControlInv, info, sync, mainVars, workVars, failVars, ghosts
<1> QED
  BY <1>m, <1>w, <1>s, <1>u, <1>v DEF Next, Step

(* Every reachable state has the types of TypeOK: the index main works on is *)
(* that of a worker, a worker only executes a loaded tape.                   *)
THEOREM TypeCorrect == Spec => []TypeOK
<1>1. TypeInv => TypeOK
  BY DEF TypeInv
<1> QED
  BY <1>1, TypeInvInit, TypeInvStep, PTL DEF Spec

-----------------------------------------------------------------------------
(* The steps of a worker, as the other threads see them.                    *)

WorkerFrame(t) ==
    /\ pc'[Main] = pc[Main] /\ exec' = exec /\ i' = i
    /\ completed \subseteq completed'
    /\ \A u \in Threads \ {t} :
          /\ pc'[u] = pc[u] /\ current'[u] = current[u] /\ ready'[u] = ready[u]
          /\ Main \in clientWaiters[u] => Main \in clientWaiters'[u]
          /\ ~Target(u) \/ pc[t] \notin Busy =>
                /\ prognum'[u] = prognum[u] /\ req'[u] = req[u]
                /\ finished'[u] = finished[u]
                /\ serverWaiters'[u] = serverWaiters[u]

(* ... and the ways its own state changes.                                  *)
Unasked(t) == prognum'[t] = prognum[t] /\ req'[t] = req[t]
Preparing(t) ==
    /\ pc[t] = "setup" /\ pc'[t] = "announce"
    /\ Unasked(t) /\ finished'[t] = finished[t] /\ ready'[t] = ready[t]
    /\ Main \in clientWaiters[t] => Main \in clientWaiters'[t]
Announcing(t) ==
    /\ pc[t] = "announce" /\ pc'[t] = "check"
    /\ Unasked(t) /\ finished'[t] = finished[t]
Awaiting(t) ==
    /\ pc[t] = "check" /\ pc'[t] = "progwait"
    /\ Unasked(t) /\ finished'[t] = finished[t] /\ ready'[t] = ready[t]
    /\ t \in serverWaiters'[t]
    /\ Main \in clientWaiters[t] => Main \in clientWaiters'[t]
Taking(t) ==
    /\ \/ pc[t] = "check" /\ prognum[t] # Idle
       \/ pc[t] = "progwait" /\ t \notin serverWaiters[t]
    /\ prognum'[t] = Idle /\ current'[t] = req[t]
    /\ finished'[t] = finished[t] /\ ready'[t] = ready[t]
    /\ prognum[t] \in Tapes => pc'[t] = "seek"
    /\ pc'[t] \in {"seek", "final", "undefined"}
    /\ Main \in clientWaiters[t] => Main \in clientWaiters'[t]
Working(t) ==
    /\ pc[t] \in Busy /\ pc'[t] \in Busy
    /\ current'[t] = current[t] /\ ready'[t] = ready[t]
    /\ ~Target(t) => Unasked(t) /\ finished'[t] = finished[t]
    /\ Main \in clientWaiters[t] => Main \in clientWaiters'[t]
Finishing(t) ==
    /\ pc[t] = "finish" /\ pc'[t] = "check"
    /\ Unasked(t) /\ finished'[t] = TRUE /\ ready'[t] = ready[t]
    /\ completed' = completed \cup {current[t]}
Ending(t) ==
    /\ pc[t] \in {"final", "finalwait"} /\ pc'[t] \in {"finalwait", "exited"}
    /\ finished'[t] = finished[t]
    /\ Main \in clientWaiters[t] => Main \in clientWaiters'[t]

OwnStep(t) ==
    \/ Preparing(t) \/ Announcing(t) \/ Awaiting(t) \/ Taking(t)
    \/ Working(t) \/ Finishing(t) \/ Ending(t)

LEMMA WorkerSteps ==
    ASSUME TypeInv, NEW t \in Threads, WorkerStep(t)
    PROVE  WorkerFrame(t) /\ OwnStep(t)
<1> USE ProcFacts, TapesAssumption DEF TypeInv
<1>1. CASE SetupDone(t)
  BY <1>1 DEF SetupDone, GoTo, WorkerFrame, OwnStep, Preparing, Unasked, Busy, TypeOK,
     info, sync, mainVars, workVars, failVars, ghosts
<1>2. CASE AnnounceReady(t)
  BY <1>2 DEF AnnounceReady, SignalClient, Signal, GoTo, WorkerFrame, OwnStep, Announcing, Unasked, Busy, TypeOK,
     info, sync, mainVars, workVars, failVars, ghosts
<1>3. CASE AwaitProgram(t)
  BY <1>3 DEF AwaitProgram, WaitServer, Idle, GoTo, WorkerFrame, OwnStep, Awaiting, Unasked, Busy, TypeOK,
     info, sync, mainVars, workVars, failVars, ghosts
<1>4. CASE TakeProgram(t)
  <2>1. /\ \A u \in Threads \ {t} : pc'[u] = pc[u]
        /\ pc'[Main] = pc[Main]
        /\ prognum[t] \in Tapes => pc'[t] = "seek"
        /\ pc'[t] \in {"seek", "final", "undefined"}
    BY <1>4 DEF TakeProgram, GoTo, Idle, Stop, TypeOK
  <2>2. /\ prognum'[t] = Idle /\ current'[t] = req[t]
        /\ \A u \in Threads \ {t} : prognum'[u] = prognum[u] /\ current'[u] = current[u]
    BY <1>4 DEF TakeProgram, TypeOK, ControlInv
  <2> QED
    BY <1>4, <2>1, <2>2 DEF TakeProgram, WorkerFrame, OwnStep, Taking, mainVars, sync
<1>5. CASE ResetAndSeek(t)
  BY <1>5 DEF ResetAndSeek, GoTo, WorkerFrame, OwnStep, Working, Unasked, Busy, TypeOK,
     info, sync, mainVars, workVars, failVars, ghosts
<1>6. CASE UseData(t)
  BY <1>6 DEF UseData, AtInstr, NextInstr, GoTo, WorkerFrame, OwnStep, Working, Unasked, Busy, TypeOK,
     info, sync, mainVars, workVars, failVars, ghosts
<1>7. CASE ExecRunTape(t)
  <2>1. /\ pc[t] = "exec" /\ (GoTo(t, "catch") \/ pc' = pc)
        /\ UNCHANGED <<held, clientWaiters, mainVars, program, current, completed, ready>>
    BY <1>7 DEF ExecRunTape, AtInstr, info
  <2>2. pc'[t] \in Busy /\ pc[t] \in Busy /\ pc'[Main] = pc[Main]
        /\ \A u \in Threads \ {t} : pc'[u] = pc[u]
    BY <2>1 DEF GoTo, Busy, TypeOK
  <2>3. \A u \in Threads : ~Target(u) =>
          /\ prognum'[u] = prognum[u] /\ req'[u] = req[u]
          /\ finished'[u] = finished[u] /\ serverWaiters'[u] = serverWaiters[u]
    <3>1. CASE InvalidCall(Instr(t).th, Instr(t).tape)
      BY <1>7, <3>1 DEF ExecRunTape, info
    <3>2. CASE ~InvalidCall(Instr(t).th, Instr(t).tape)
      <4>1. program[t] \in Tapes /\ ip[t] \in DOMAIN Code[program[t]] /\ Instr(t).op = "run"
        BY <1>7, InstrFacts DEF ExecRunTape, AtInstr, ControlInv, TypeOK
      <4>2. Target(Instr(t).th) /\ Instr(t).th \in Threads
        BY <4>1, <3>2 DEF Target, Instr, InvalidCall
      <4>3. HandOver(Instr(t).th, Instr(t).tape, Instr(t).arg, TapeReq(t, ip[t], current[t]))
        BY <1>7, <3>2 DEF ExecRunTape
      <4>4. /\ prognum' = [prognum EXCEPT ![Instr(t).th] = Instr(t).tape]
            /\ finished' = [finished EXCEPT ![Instr(t).th] = FALSE]
            /\ req' = [req EXCEPT ![Instr(t).th] = TapeReq(t, ip[t], current[t])]
            /\ Signal(serverWaiters, Instr(t).th)
        BY <4>3 DEF HandOver, SignalServer
      <4> QED
        BY <4>2, <4>4 DEF Signal, TypeOK, ControlInv
    <3> QED
      BY <3>1, <3>2
  <2> QED
    BY <2>1, <2>2, <2>3 DEF WorkerFrame, OwnStep, Working, Unasked, mainVars
<1>8. CASE ExecJoinWait(t)
  BY <1>8 DEF ExecJoinWait, AtInstr, WaitClient, GoTo, WorkerFrame, OwnStep, Working, Unasked, Busy, TypeOK,
     info, sync, mainVars, workVars, failVars, ghosts
<1>9. CASE ExecJoined(t)
  BY <1>9 DEF ExecJoined, AtInstr, JoinReturns, NextInstr, GoTo, WorkerFrame, OwnStep, Working, Unasked, Busy, TypeOK,
     info, sync, mainVars, workVars, failVars, ghosts
<1>10. CASE ExecCrash(t)
  BY <1>10 DEF ExecCrash, AtInstr, GoTo, WorkerFrame, OwnStep, Working, Unasked, Busy, TypeOK,
     info, sync, mainVars, workVars, failVars, ghosts
<1>11. CASE EndProgram(t)
  BY <1>11 DEF EndProgram, GoTo, WorkerFrame, OwnStep, Working, Unasked, Busy, TypeOK,
     info, sync, mainVars, workVars, failVars, ghosts
<1>12. CASE FinishProgram(t)
  BY <1>12 DEF FinishProgram, SignalClient, Signal, GoTo, WorkerFrame, OwnStep, Finishing, Unasked, Busy, TypeOK,
     info, sync, mainVars, workVars, failVars, ghosts
<1>13. CASE AwaitRelease(t)
  BY <1>13 DEF AwaitRelease, WaitServer, GoTo, WorkerFrame, OwnStep, Ending, Busy, TypeOK,
     info, sync, mainVars, workVars, failVars, ghosts
<1>14. CASE ExitThread(t)
  BY <1>14 DEF ExitThread, GoTo, WorkerFrame, OwnStep, Ending, Busy, TypeOK,
     info, sync, mainVars, workVars, failVars, ghosts
<1> QED
  BY <1>1, <1>2, <1>3, <1>4, <1>5, <1>6, <1>7, <1>8, <1>9, <1>10, <1>11, <1>12, <1>13, <1>14 DEF WorkerStep

-----------------------------------------------------------------------------
(* main leaves a line only when its tapes have finished.                    *)

Inv == StartInv /\ EntryInv /\ WaitInv /\ JoinInv

LEMMA InvInit == Init => Inv
BY ProcFacts, ScheduleAssumption
   DEF Init, Inv, StartInv, EntryInv, WaitInv, JoinInv, LinesJoined, Starting, InLine,
       Before, Idle

LEMMA EntryThreads ==
    ASSUME TypeInv, SchedulesApart, exec \in DOMAIN Schedule,
           NEW t \in Threads, t < Len(Schedule[exec])
    PROVE  ~Target(t)
<1>1. t \in 0 .. Len(Schedule[exec]) - 1
  BY LineFacts, ProcFacts
<1> QED
  BY <1>1 DEF SchedulesApart, LineThread

LEMMA WorkerKeepsInv ==
    ASSUME TypeInv, Inv, SchedulesApart, NEW t \in Threads, WorkerFrame(t), OwnStep(t)
    PROVE  Inv'
<1> USE ProcFacts
<1>f. WorkerFrame(t) /\ OwnStep(t)
  OBVIOUS
<1>s. pc[Main] \notin Starting => pc[t] \notin Before
  BY DEF Inv, StartInv
<1>o. \/ Preparing(t) \/ Announcing(t) \/ Awaiting(t) \/ Taking(t)
      \/ Working(t) \/ Finishing(t) \/ Ending(t)
  BY <1>f DEF OwnStep
<1>1. StartInv'
  <2> SUFFICES ASSUME NEW u \in Threads
               PROVE  /\ pc[Main] \in Starting =>
                            /\ ready'[u] => pc'[u] \in Waiting
                            /\ prognum'[u] = Idle
                            /\ pc'[u] \in Before \cup Waiting
                            /\ finished'[u]
                      /\ pc[Main] = "create" /\ u >= i => pc'[u] = "none"
                      /\ (pc[Main] \notin Starting \/ (pc[Main] \in {"sync", "syncwait"} /\ u < i))
                            => pc'[u] \notin Before
    BY <1>f DEF WorkerFrame, StartInv
  <2>1. CASE u # t
    <3>1. pc'[u] = pc[u] /\ ready'[u] = ready[u]
      BY <1>f, <2>1 DEF WorkerFrame
    <3>2. CASE pc[Main] \in Starting
      <4>1. pc[t] \notin Busy
        BY <3>2 DEF Inv, StartInv, Busy, Before, Waiting
      <4>2. prognum'[u] = prognum[u] /\ finished'[u] = finished[u]
        BY <1>f, <2>1, <4>1 DEF WorkerFrame
      <4> QED
        BY <3>1, <3>2, <4>2 DEF Inv, StartInv
    <3>3. CASE pc[Main] \notin Starting
      BY <3>1, <3>3 DEF Inv, StartInv, Starting
    <3> QED
      BY <3>2, <3>3
  <2>2. CASE u = t
    <3>1. CASE pc[Main] \in Starting
      <4>1. /\ ready[t] => pc[t] \in Waiting
            /\ prognum[t] = Idle /\ finished[t] /\ pc[t] \in Before \cup Waiting
            /\ pc[t] = "progwait" => t \in serverWaiters[t]
            /\ pc[Main] = "create" /\ t >= i => pc[t] = "none"
            /\ pc[Main] \in {"sync", "syncwait"} /\ t < i => pc[t] \notin Before
        BY <3>1 DEF Inv, StartInv, WaitInv
      <4>2. ~Taking(t) /\ ~Working(t) /\ ~Finishing(t) /\ ~Ending(t)
        BY <4>1 DEF Before, Waiting, Busy, Taking, Working, Finishing, Ending
      <4>3. Preparing(t) \/ Announcing(t) \/ Awaiting(t)
        BY <1>o, <4>2
      <4> QED
        BY <2>2, <3>1, <4>1, <4>3 DEF Preparing, Announcing, Awaiting, Unasked, Starting,
           Before, Waiting
    <3>2. CASE pc[Main] \notin Starting
      BY <2>2, <3>2, <1>o, <1>s DEF Starting, Before, Waiting, Busy,
         Preparing, Announcing, Awaiting, Taking, Working, Finishing, Ending
    <3> QED
      BY <3>1, <3>2
  <2> QED
    BY <2>1, <2>2
<1>2. EntryInv'
  <2> SUFFICES ASSUME NEW u \in Threads, ~Target(u), pc[Main] \in InLine \cup {"fetch"}
               PROVE  IF Launched(u) THEN (Pending(u) \/ Running(u) \/ Finished(u))'
                                     ELSE Resting(u)'
    BY <1>f DEF WorkerFrame, EntryInv, Launched
  <2>0. IF Launched(u) THEN Pending(u) \/ Running(u) \/ Finished(u) ELSE Resting(u)
    BY DEF Inv, EntryInv
  <2>1. CASE u # t
    BY <2>0, <2>1, <1>f DEF WorkerFrame, Pending, Running, Finished, Resting, LineReq
  <2>2. CASE u = t
    <3>1. pc[t] \notin Before /\ pc[t] \notin {"final", "finalwait"}
      BY <2>0, <2>2, <1>s DEF Starting, InLine, Pending, Running, Finished, Resting,
         Waiting, Busy
    <3>2. pc[t] = "progwait" /\ prognum[t] = Idle => t \in serverWaiters[t]
      BY <2>2 DEF Inv, WaitInv
    <3>3. ~Preparing(t) /\ ~Announcing(t) /\ ~Ending(t)
      BY <3>1 DEF Preparing, Announcing, Ending, Before
    <3>4. exec' = exec /\ completed \subseteq completed'
      BY <1>f DEF WorkerFrame
    <3>5. CASE Awaiting(t)
      BY <2>0, <2>2, <3>4, <3>5 DEF Awaiting, Unasked, Pending, Running, Finished, Resting,
         Waiting, Busy, LineReq
    <3>6. CASE Taking(t)
      BY <2>0, <2>2, <3>2, <3>4, <3>6 DEF Taking, Pending, Running, Finished, Resting,
         Waiting, Busy, LineReq
    <3>7. CASE Working(t)
      BY <2>0, <2>2, <3>4, <3>7 DEF Working, Unasked, Pending, Running, Finished, Resting,
         Waiting, Busy, LineReq
    <3>8. CASE Finishing(t)
      BY <2>0, <2>2, <3>4, <3>8 DEF Finishing, Unasked, Pending, Running, Finished, Resting,
         Waiting, Busy, LineReq
    <3> QED
      BY <1>o, <3>3, <3>5, <3>6, <3>7, <3>8
  <2> QED
    BY <2>1, <2>2
<1>k. \A u \in Threads : ~Target(u) /\ finished[u] => finished'[u]
  <2>1. \A u \in Threads \ {t} : ~Target(u) => finished'[u] = finished[u]
    BY <1>f DEF WorkerFrame
  <2>2. ~Target(t) /\ finished[t] => finished'[t]
    BY <1>o DEF Preparing, Announcing, Awaiting, Taking, Working, Finishing, Ending
  <2> QED
    BY <2>1, <2>2
<1>3. WaitInv'
  <2>1. ASSUME NEW u \in Threads,
               \/ pc[Main] \in Starting
               \/ ~Target(u) /\ pc[Main] \in InLine \cup {"fetch"},
               pc'[u] = "progwait", prognum'[u] = Idle
        PROVE  u \in serverWaiters'[u]
    <3>1. CASE u # t
      <4>1. ~Target(u) \/ pc[t] \notin Busy
        BY <2>1 DEF Inv, StartInv, Busy, Before, Waiting
      <4> QED
        BY <2>1, <3>1, <4>1, <1>f DEF WorkerFrame, Inv, WaitInv
    <3>2. CASE u = t
      BY <2>1, <3>2, <1>o DEF Preparing, Announcing, Awaiting, Taking, Working, Finishing,
         Ending, Busy, Waiting, Idle
    <3> QED
      BY <3>1, <3>2
  <2>2. ASSUME pc[Main] = "joinwait", ~finished'[i]
        PROVE  Main \in clientWaiters'[i]
    <3>1. i \in Threads /\ ~Target(i)
      BY <2>2, EntryThreads DEF TypeInv, TypeOK, ControlInv
    <3>2. ~finished[i] /\ Main \in clientWaiters[i]
      BY <2>2, <3>1, <1>k DEF Inv, WaitInv
    <3>3. CASE i # t
      BY <3>1, <3>2, <3>3, <1>f DEF WorkerFrame
    <3>4. CASE i = t
      <4>1. ~Announcing(t) /\ ~Finishing(t)
        BY <2>2, <3>4, <1>s DEF Announcing, Finishing, Starting, Before
      <4> QED
        BY <1>o, <3>2, <3>4, <4>1 DEF Preparing, Awaiting, Taking, Working, Ending
    <3> QED
      BY <3>3, <3>4
  <2> QED
    BY <2>1, <2>2, <1>f DEF WorkerFrame, WaitInv
<1>4. JoinInv'
  <2>1. LinesJoined'
    BY <1>f DEF WorkerFrame, Inv, JoinInv, LinesJoined
  <2>2. ASSUME NEW u \in Threads,
               \/ pc[Main] \in {"join", "joinwait"} /\ u < i
               \/ pc[Main] = "lineend" /\ u < Len(Schedule[exec])
        PROVE  finished'[u]
    <3>1. exec \in DOMAIN Schedule /\ u < Len(Schedule[exec])
      <4>1. CASE pc[Main] \in {"join", "joinwait"} /\ u < i
        <5>1. exec \in DOMAIN Schedule /\ i < Len(Schedule[exec]) /\ i \in Threads
          BY <4>1 DEF TypeInv, TypeOK, ControlInv
        <5>2. Len(Schedule[exec]) \in Nat
          BY <5>1, LineFacts
        <5> QED
          BY <4>1, <5>1, <5>2
      <4>2. CASE pc[Main] = "lineend" /\ u < Len(Schedule[exec])
        BY <4>2 DEF TypeInv, ControlInv
      <4> QED
        BY <2>2, <4>1, <4>2
    <3>2. ~Target(u) /\ finished[u]
      BY <2>2, <3>1, EntryThreads DEF Inv, JoinInv
    <3> QED
      BY <3>2, <1>k
  <2> QED
    BY <2>1, <2>2, <1>f DEF WorkerFrame, JoinInv
<1> QED
  BY <1>1, <1>2, <1>3, <1>4 DEF Inv

(* What no step of main changes, and what only leaving the lines changes.   *)
LEMMA MainKeepsInv ==
    ASSUME TypeInv, Inv, SchedulesApart, MainStep
    PROVE  Inv'
<1> USE ProcFacts
<1>t. TypeOK /\ ControlInv
  BY DEF TypeInv
<1>i. StartInv /\ EntryInv /\ WaitInv /\ JoinInv
  BY DEF Inv
<1>1. CASE CreateThread
  <2>1. /\ pc[Main] = "create" /\ i \in Threads /\ pc[i] = "none"
        /\ UNCHANGED <<ready, prognum, finished, serverWaiters, clientWaiters, exec, completed>>
    BY <1>1, <1>t, <1>i DEF CreateThread, TypeOK, StartInv, info, ghosts
  <2>2. \/ i' = i + 1 /\ pc' = [pc EXCEPT ![i] = "setup"]
        \/ i' = 0 /\ i + 1 >= NThreads /\ pc' = [pc EXCEPT ![i] = "setup", ![Main] = "sync"]
    BY <1>1, <2>1, ThreadsAssumption DEF CreateThread
  <2>3. /\ pc'[i] = "setup" /\ \A t \in Threads \ {i} : pc'[t] = pc[t]
        /\ \/ pc'[Main] = "create" /\ i' = i + 1
           \/ pc'[Main] = "sync" /\ i' = 0
    BY <2>1, <2>2, <1>t DEF TypeOK
  <2>4. StartInv'
    BY <2>1, <2>3, <1>i DEF StartInv, Starting, Before, Waiting
  <2>5. EntryInv' /\ WaitInv'
    BY <2>1, <2>3, <1>i DEF EntryInv, WaitInv, Starting, InLine
  <2>6. JoinInv'
    BY <2>1, <2>3, <1>i DEF JoinInv, LinesJoined
  <2> QED
    BY <2>4, <2>5, <2>6 DEF Inv
<1>2. CASE AwaitReady \/ RetryReady
  <2>1. /\ pc[Main] \in {"sync", "syncwait"} /\ pc'[Main] \in {"sync", "syncwait"}
        /\ \A t \in Threads : pc'[t] = pc[t]
        /\ UNCHANGED <<ready, prognum, finished, serverWaiters, i, exec, completed>>
    BY <1>2, <1>t DEF AwaitReady, RetryReady, GoTo, TypeOK, info, mainVars, ghosts
  <2> QED
    BY <2>1, <1>i DEF Inv, StartInv, EntryInv, WaitInv, JoinInv, LinesJoined, Starting, InLine
<1>3. CASE ThreadReady
  <2>1. /\ pc[Main] = "sync" /\ ready[i] /\ LoopOrLeave(NThreads, "sync", "fetch")
        /\ UNCHANGED <<ready, prognum, finished, serverWaiters, clientWaiters, exec, completed>>
    BY <1>3 DEF ThreadReady, info, ghosts
  <2>2. /\ i \in Threads /\ \A t \in Threads : pc'[t] = pc[t]
        /\ \/ i' = i + 1 /\ pc'[Main] = "sync"
           \/ i' = 0 /\ i + 1 >= NThreads /\ pc'[Main] = "fetch"
    <3>1. NThreads \in 0 .. NThreads /\ "sync" \in MainPoints /\ "fetch" \in MainPoints
      BY ThreadsAssumption DEF MainPoints
    <3>2. i \in Threads
      BY <1>t DEF TypeOK
    <3> QED
      BY <2>1, <1>t, <3>1, <3>2, LoopFacts
  <2>3. pc[i] \in Waiting
    BY <2>1, <2>2, <1>i DEF StartInv, Starting
  <2>4. CASE i' = i + 1 /\ pc'[Main] = "sync"
    <3>1. StartInv'
      BY <2>1, <2>2, <2>3, <2>4, <1>i DEF StartInv, Starting, Before, Waiting
    <3> QED
      BY <3>1, <2>1, <2>2, <2>4, <1>i DEF Inv, EntryInv, WaitInv, JoinInv, LinesJoined,
         Starting, InLine
  <2>5. CASE i' = 0 /\ i + 1 >= NThreads /\ pc'[Main] = "fetch"
    <3>1. \A t \in Threads : t = i \/ t < i
      BY <2>2, <2>5, ThreadsAssumption
    <3>2. \A t \in Threads : pc[t] \in Waiting /\ prognum[t] = Idle /\ finished[t]
      BY <3>1, <2>1, <2>3, <1>i DEF StartInv, Starting, Before, Waiting
    <3>3. StartInv'
      BY <3>2, <2>2, <2>5 DEF StartInv, Starting, Before, Waiting
    <3>4. EntryInv'
      BY <3>2, <2>1, <2>2, <2>5 DEF EntryInv, Launched, Resting
    <3> QED
      BY <3>3, <3>4, <2>1, <2>2, <2>5, <1>i DEF Inv, WaitInv, JoinInv, LinesJoined,
         Starting, InLine
  <2> QED
    BY <2>2, <2>4, <2>5
<1>4. CASE FetchLine
  <2>1. /\ pc[Main] = "fetch" /\ i' = 0
        /\ \A t \in Threads : pc'[t] = pc[t]
        /\ pc'[Main] \in {"run", "kill"}
        /\ UNCHANGED <<ready, prognum, finished, serverWaiters, clientWaiters, exec,
                       completed, req, current>>
    BY <1>4, <1>t DEF FetchLine, GoTo, TypeOK, info, sync, ghosts
  <2>2. StartInv' /\ WaitInv' /\ JoinInv'
    BY <2>1, <1>i DEF StartInv, WaitInv, JoinInv, LinesJoined, Starting, InLine
  <2>3. EntryInv'
    BY <2>1, <1>i DEF EntryInv, Launched, Resting, InLine
  <2> QED
    BY <2>2, <2>3 DEF Inv
<1>5. CASE MainRunTape
  <2>1. /\ pc[Main] = "run" /\ exec \in DOMAIN Schedule /\ i \in Threads
        /\ i < Len(Schedule[exec]) /\ ~Target(i)
    BY <1>5, <1>t, EntryThreads DEF MainRunTape, TypeOK, ControlInv
  <2>2. Entry.tape \in Tapes /\ Entry.tape # Idle
    <3>1. i \in 0 .. Len(Schedule[exec]) - 1
      BY <2>1, LineFacts
    <3>2. Entry.tape \in Tapes
      BY <2>1, <3>1, EntryFacts DEF Entry
    <3> QED
      BY <3>2, TapesAssumption DEF Idle
  <2>3. /\ prognum' = [prognum EXCEPT ![i] = Entry.tape]
        /\ finished' = [finished EXCEPT ![i] = FALSE]
        /\ req' = [req EXCEPT ![i] = LineReq(exec, i)]
        /\ Signal(serverWaiters, i)
        /\ UNCHANGED <<ready, clientWaiters, exec, i, completed, current>>
    BY <1>5 DEF MainRunTape, HandOver, SignalServer
  <2>4. /\ \A t \in Threads : pc'[t] = pc[t]
        /\ pc'[Main] \in {"increase", "catch"}
    BY <1>5, <1>t DEF MainRunTape, GoTo, TypeOK
  <2>5. /\ prognum'[i] = Entry.tape /\ ~finished'[i] /\ req'[i] = LineReq(exec, i)
        /\ \A t \in Threads \ {i} :
              /\ prognum'[t] = prognum[t] /\ finished'[t] = finished[t]
              /\ req'[t] = req[t] /\ serverWaiters'[t] = serverWaiters[t]
    BY <2>1, <2>3, <1>t DEF Signal, TypeOK, ControlInv
  <2>6. StartInv'
    BY <2>1, <2>3, <2>4, <1>i DEF StartInv, Starting
  <2>7. EntryInv'
    <3>1. Resting(i)
      BY <2>1, <1>i DEF EntryInv, Launched, InLine
    <3>2. \A t \in Threads : t = i => Pending(t)'
      BY <3>1, <2>1, <2>2, <2>3, <2>4, <2>5 DEF Pending, Resting, LineReq
    <3>3. \A t \in Threads \ {i} :
            /\ Pending(t) => Pending(t)'
            /\ Running(t) => Running(t)'
            /\ Finished(t) => Finished(t)'
            /\ Resting(t) => Resting(t)'
      BY <2>3, <2>4, <2>5 DEF Pending, Running, Finished, Resting, LineReq
    <3>4. pc'[Main] = "increase" =>
            /\ \A t \in Threads : t = i => Launched(t)'
            /\ \A t \in Threads \ {i} : Launched(t)' <=> Launched(t)
      BY <2>1, <2>3 DEF Launched
    <3> QED
      <4> SUFFICES ASSUME NEW t \in Threads, ~Target(t), pc'[Main] = "increase"
                   PROVE  IF Launched(t)' THEN (Pending(t) \/ Running(t) \/ Finished(t))'
                                          ELSE Resting(t)'
        BY <2>4 DEF EntryInv, InLine
      <4>1. CASE t = i
        BY <4>1, <3>2, <3>4
      <4>2. CASE t # i
        <5>1. IF Launched(t) THEN Pending(t) \/ Running(t) \/ Finished(t) ELSE Resting(t)
          BY <2>1, <1>i DEF EntryInv, InLine
        <5> QED
          BY <4>2, <5>1, <3>3, <3>4
      <4> QED
        BY <4>1, <4>2
  <2>8. WaitInv' /\ JoinInv'
    BY <2>1, <2>2, <2>3, <2>4, <2>5, <1>i DEF WaitInv, JoinInv, LinesJoined, Starting, InLine
  <2> QED
    BY <2>6, <2>7, <2>8 DEF Inv
<1>6. CASE IncreasePos
  <2>1. /\ pc[Main] = "increase" /\ exec \in DOMAIN Schedule /\ i \in Threads
        /\ numt = Len(Schedule[exec]) /\ numt \in 0 .. NThreads /\ i < numt
    <3>1. pc[Main] = "increase"
      BY <1>6 DEF IncreasePos
    <3>2. exec \in DOMAIN Schedule /\ i \in Threads /\ i < Len(Schedule[exec])
      BY <3>1, <1>t DEF TypeOK, ControlInv
    <3> QED
      BY <3>1, <3>2, <1>t, NumtFacts
  <2>2. /\ LoopOrLeave(numt, "run", "join")
        /\ UNCHANGED <<ready, prognum, finished, serverWaiters, clientWaiters, exec,
                       completed, req, current>>
    BY <1>6 DEF IncreasePos, info, sync, ghosts
  <2>3. /\ \A t \in Threads : pc'[t] = pc[t]
        /\ \/ i' = i + 1 /\ pc'[Main] = "run"
           \/ i' = 0 /\ i + 1 >= numt /\ pc'[Main] = "join"
    BY <2>1, <2>2, <1>t, LoopFacts DEF MainPoints
  <2>4. \A t \in Threads : Launched(t)' <=> Launched(t)
    BY <2>1, <2>2, <2>3 DEF Launched
  <2>5. StartInv' /\ WaitInv' /\ JoinInv'
    BY <2>1, <2>2, <2>3, <1>i DEF StartInv, WaitInv, JoinInv, LinesJoined, Starting, InLine
  <2>6. EntryInv'
    BY <2>1, <2>2, <2>3, <2>4, <1>i DEF EntryInv, Pending, Running, Finished, Resting,
       LineReq, InLine
  <2> QED
    BY <2>5, <2>6 DEF Inv
<1>7. CASE MainJoinWait
  <2>1. /\ pc[Main] = "join" /\ i \in Threads /\ Main \in clientWaiters'[i]
        /\ \A t \in Threads : pc'[t] = pc[t]
        /\ pc'[Main] = "joinwait"
        /\ UNCHANGED <<ready, prognum, finished, serverWaiters, i, exec,
                       completed, req, current>>
    BY <1>7, <1>t DEF MainJoinWait, WaitClient, GoTo, TypeOK, info, mainVars, ghosts
  <2>2. StartInv' /\ WaitInv' /\ JoinInv'
    BY <2>1, <1>i DEF StartInv, WaitInv, JoinInv, LinesJoined, Starting, InLine
  <2>3. EntryInv'
    BY <2>1, <1>i DEF EntryInv, Launched, Pending, Running, Finished, Resting, LineReq, InLine
  <2> QED
    BY <2>2, <2>3 DEF Inv
<1>8. CASE MainJoined
  <2>1. /\ pc[Main] \in {"join", "joinwait"} /\ exec \in DOMAIN Schedule /\ i \in Threads
        /\ numt = Len(Schedule[exec]) /\ numt \in 0 .. NThreads /\ i < numt
    <3>1. pc[Main] \in {"join", "joinwait"}
      BY <1>8 DEF MainJoined, JoinReturns
    <3>2. exec \in DOMAIN Schedule /\ i \in Threads /\ i < Len(Schedule[exec])
      BY <3>1, <1>t DEF TypeOK, ControlInv
    <3> QED
      BY <3>1, <3>2, <1>t, NumtFacts
  <2>2. finished[i]
    BY <1>8, <1>i DEF MainJoined, JoinReturns, WaitInv
  <2>3. /\ LoopOrLeave(numt, "join", "lineend")
        /\ UNCHANGED <<ready, prognum, finished, serverWaiters, clientWaiters, exec,
                       completed, req, current>>
    BY <1>8 DEF MainJoined, info, sync, ghosts
  <2>4. /\ \A t \in Threads : pc'[t] = pc[t]
        /\ \/ i' = i + 1 /\ pc'[Main] = "join"
           \/ i' = 0 /\ i + 1 >= numt /\ pc'[Main] = "lineend"
    BY <2>1, <2>3, <1>t, LoopFacts DEF MainPoints
  <2>5. \A t \in Threads : Launched(t)' <=> Launched(t)
    BY <2>1, <2>3, <2>4 DEF Launched
  <2>6. StartInv' /\ WaitInv'
    BY <2>1, <2>3, <2>4, <1>i DEF StartInv, WaitInv, Starting, InLine
  <2>7. EntryInv'
    BY <2>1, <2>3, <2>4, <2>5, <1>i DEF EntryInv, Pending, Running, Finished, Resting,
       LineReq, InLine
  <2>8. \A t \in Threads : t < i + 1 => finished[t]
    BY <2>1, <2>2, <1>i DEF JoinInv
  <2>9. JoinInv'
    <3>1. CASE i' = i + 1 /\ pc'[Main] = "join"
      BY <2>1, <2>3, <2>8, <3>1, <1>i DEF JoinInv, LinesJoined
    <3>2. CASE i' = 0 /\ i + 1 >= numt /\ pc'[Main] = "lineend"
      <4>1. \A t \in Threads : t < Len(Schedule[exec]) => finished[t]
        BY <2>1, <2>8, <3>2
      <4>2. ASSUME NEW t \in 0 .. Len(Schedule[exec]) - 1
            PROVE  LineReq(exec, t) \in completed
        <5>1. t \in Threads /\ t < Len(Schedule[exec]) /\ ~Target(t)
          BY <2>1, EntryFacts, EntryThreads
        <5>2. Launched(t) /\ finished[t]
          BY <2>1, <4>1, <5>1 DEF Launched
        <5> QED
          BY <2>1, <5>1, <5>2, <1>i DEF EntryInv, Pending, Running, Finished, InLine
      <4> QED
        BY <2>1, <2>3, <3>2, <4>1, <4>2, <1>i DEF JoinInv, LinesJoined, LineReq
    <3> QED
      BY <2>4, <3>1, <3>2
  <2> QED
    BY <2>6, <2>7, <2>9 DEF Inv
<1>9. CASE EndLine
  <2>1. /\ pc[Main] = "lineend" /\ pc'[Main] = "fetch" /\ exec' = exec + 1
        /\ exec \in DOMAIN Schedule
        /\ \A t \in Threads : pc'[t] = pc[t]
        /\ UNCHANGED <<ready, prognum, finished, serverWaiters, clientWaiters, i,
                       completed, req, current>>
    BY <1>9, <1>t DEF EndLine, GoTo, TypeOK, ControlInv, info, sync, ghosts
  <2>2. StartInv' /\ WaitInv'
    BY <2>1, <1>i DEF StartInv, WaitInv, Starting, InLine
  <2>3. JoinInv'
    <3>1. LinesJoined'
      <4> SUFFICES ASSUME NEW l \in DOMAIN Schedule, l < exec + 1,
                          NEW t \in 0 .. Len(Schedule[l]) - 1
                   PROVE  LineReq(l, t) \in completed
        BY <2>1 DEF LinesJoined, LineReq
      <4>1. l < exec \/ l = exec
        BY <2>1, LineFacts
      <4> QED
        BY <2>1, <4>1, <1>i DEF JoinInv, LinesJoined
    <3> QED
      BY <2>1, <3>1 DEF JoinInv
  <2>4. EntryInv'
    <3>1. ASSUME NEW t \in Threads, ~Target(t) PROVE Resting(t)
      <4>1. CASE Launched(t)
        BY <2>1, <3>1, <4>1, <1>i DEF EntryInv, JoinInv, Launched, Pending, Running,
           Finished, Resting, InLine
      <4>2. CASE ~Launched(t)
        BY <2>1, <3>1, <4>2, <1>i DEF EntryInv, InLine
      <4> QED
        BY <4>1, <4>2
    <3> QED
      BY <2>1, <3>1 DEF EntryInv, Launched, Resting
  <2> QED
    BY <2>2, <2>3, <2>4 DEF Inv
<1>10. CASE KillThread \/ ReleaseThread \/ PthreadJoin \/ SeekAndPrune
  <2>1. /\ pc[Main] \in {"kill", "release", "pthreadjoin", "prune"}
        /\ pc'[Main] \in {"kill", "release", "pthreadjoin", "prune", "done"}
        /\ \A t \in Threads : pc'[t] = pc[t]
        /\ UNCHANGED <<exec, completed>>
    BY <1>10, <1>t DEF KillThread, ReleaseThread, PthreadJoin, SeekAndPrune, LoopOrLeave,
       GoTo, TypeOK, mainVars, ghosts
  <2> QED
    BY <2>1, <1>i DEF Inv, StartInv, EntryInv, WaitInv, JoinInv, LinesJoined, Starting, InLine
<1> QED
  BY <1>1, <1>2, <1>3, <1>4, <1>5, <1>6, <1>7, <1>8, <1>9, <1>10 DEF MainStep

LEMMA UnwindKeepsInv ==
    ASSUME TypeInv, Inv, SchedulesApart, NEW p \in Procs, Unwind(p)
    PROVE  Inv'
<1> USE ProcFacts
<1>1. CASE p = Main
  <2>1. /\ pc[Main] \in {"catch", "rethrow"} /\ pc'[Main] = "rethrow"
        /\ \A t \in Threads : pc'[t] = pc[t]
        /\ UNCHANGED <<exec, completed>>
    BY <1>1 DEF Unwind, Purge, Abort, GoTo, TypeInv, TypeOK, mainVars, ghosts
  <2> QED
    BY <2>1 DEF Inv, StartInv, EntryInv, WaitInv, JoinInv, LinesJoined, Starting, InLine
<1>2. CASE p # Main
  <2>1. p \in Threads
    BY <1>2 DEF Procs
  <2>2. WorkerFrame(p) /\ Working(p)
    BY <1>2, <2>1 DEF Unwind, Purge, Abort, GoTo, TypeInv, TypeOK, WorkerFrame, Working,
       Unasked, Busy, info, sync, mainVars, ghosts
  <2> QED
    BY <2>1, <2>2, WorkerKeepsInv DEF OwnStep
<1> QED
  BY <1>1, <1>2

LEMMA InvStep ==
    ASSUME TypeInv, Inv, SchedulesApart, ~SpuriousWakeups, [Next]_vars
    PROVE  Inv'
<1>1. CASE MainStep
  BY <1>1, MainKeepsInv
<1>2. ASSUME NEW t \in Threads, WorkerStep(t) PROVE Inv'
  BY <1>2, WorkerSteps, WorkerKeepsInv
<1>3. ASSUME NEW t \in Threads, SpuriousWakeup(t) PROVE Inv'
  BY <1>3 DEF SpuriousWakeup
<1>4. ASSUME NEW p \in Procs, Unwind(p) PROVE Inv'
  BY <1>4, UnwindKeepsInv
<1>5. CASE UNCHANGED vars
  BY <1>5 DEF vars, info, sync, mainVars, workVars, failVars, ghosts, Inv, StartInv,
     EntryInv, WaitInv, JoinInv, LinesJoined, Launched, Pending, Running, Finished,
     Resting, LineReq
<1> QED
  BY <1>1, <1>2, <1>3, <1>4, <1>5 DEF Next, Step

(* Unless a wait returns without a signal, main has left a line only after   *)
(* every tape of that line reported that it finished, whatever the tapes do, *)
(* provided that RUN_TAPE is not used on threads that run schedule entries.  *)
THEOREM LinesAreJoined ==
    ASSUME SchedulesApart, ~SpuriousWakeups
    PROVE  Spec => []LinesJoined
<1>1. Init => TypeInv /\ Inv
  BY TypeInvInit, InvInit
<1>2. TypeInv /\ Inv /\ [Next]_vars => (TypeInv /\ Inv)'
  BY TypeInvStep, InvStep
<1>3. Inv => LinesJoined
  BY DEF Inv, JoinInv
<1> QED
  BY <1>1, <1>2, <1>3, PTL DEF Spec

-----------------------------------------------------------------------------
(* Tapes that start tapes.                                                 *)

(* Instruction k of tape n joins the tape on thread th.                     *)
Joins(n, k, th) == Code[n][k].op = "join" /\ Code[n][k].th = th
Starter(n) == \E k \in DOMAIN Code[n] : Code[n][k].op \in {"run", "join"}

(* Tape n has started a tape on th, at j, and before its instruction k not  *)
(* joined it.                                                               *)
Open(n, k, th, j) ==
    /\ j \in 1 .. k - 1 /\ Starts(n, j, th)
    /\ \A m \in j + 1 .. k - 1 : ~Joins(n, m, th)

(* What the compiler writes: only the main tape starts others, it runs on   *)
(* thread 0, and the threads it starts tapes on are numbered from 1         *)
(* (Program.run_tape refuses recursive spawning, n_threads is 1 at first).  *)
(* A thread is started again only after it has been joined, and joined only *)
(* after it was started (free_threads, map_reduce).                         *)
CompiledTapes ==
    /\ SchedulesApart
    /\ \A l \in DOMAIN Schedule : \A t \in 0 .. Len(Schedule[l]) - 1 :
          Starter(Schedule[l][t + 1].tape) => t = 0
    /\ ~Target(0)
    /\ \A n \in Tapes : \A k \in DOMAIN Code[n] :
          LET c == Code[n][k] IN
          /\ c.op = "run" => /\ c.tape \in Tapes => ~Starter(c.tape)
                             /\ \A j \in Nat : ~Open(n, k, c.th, j)
          /\ c.op = "join" => Target(c.th) /\ \E j \in Nat : Open(n, k, c.th, j)
    /\ \A n \in Tapes : \A th \in Threads : \A j \in Nat :
          ~Open(n, Len(Code[n]) + 1, th, j)

-----------------------------------------------------------------------------
(* From the first line to the last, or to the exception of main; then the   *)
(* end of Machine::run.                                                     *)
InLines == InLine \cup {"fetch", "catch", "rethrow"}
Stopping == {"kill", "release", "pthreadjoin", "prune", "done"}
Ended == {"final", "finalwait", "exited"}

(* The request r was handed to t, which has not taken it, runs it, or has   *)
(* reported its end.                                                        *)
Handed(t, r) == prognum[t] \in Tapes /\ req[t] = r
Taken(t, r) == prognum[t] = Idle /\ current[t] = r /\ pc[t] \in Busy
Reported(t, r) == Resting(t) /\ r \in completed

(* A worker that runs a tape was told nothing else meanwhile; the tapes     *)
(* that start others are on thread 0.                                       *)
WorkerOK(t) ==
    /\ pc[t] \in Busy \cup Waiting
    /\ pc[t] \in Busy => prognum[t] = Idle /\ ~finished[t] /\ req[t] = current[t]
    /\ prognum[t] # Idle => prognum[t] \in Tapes /\ ~finished[t] /\ pc[t] \in Waiting
    /\ pc[t] = "progwait" /\ prognum[t] = Idle => t \in serverWaiters[t]
    /\ prognum[t] # Idle /\ Starter(prognum[t]) => t = 0
    /\ pc[t] \in Busy /\ Starter(program[t]) => t = 0

(* The threads on which the tape of thread 0 may start others.              *)
StartedOK(th) ==
    /\ pc[0] \notin {"exec", "joinwait", "catch", "rethrow"} => Resting(th)
    /\ pc[0] \in {"exec", "joinwait"} =>
          /\ \A j \in Nat : Open(program[0], ip[0], th, j) =>
                \/ Handed(th, TapeReq(0, j, current[0]))
                \/ Taken(th, TapeReq(0, j, current[0]))
                \/ Reported(th, TapeReq(0, j, current[0]))
          /\ (\A j \in Nat : ~Open(program[0], ip[0], th, j)) => Resting(th)

(* The tapes that the tape on thread 0 has joined, and the one it waits for. *)
JoinedOK ==
    pc[0] \in {"exec", "joinwait"} =>
        /\ ip[0] <= Len(Code[program[0]]) + 1
        /\ \A k \in 1 .. ip[0] - 1 : Code[program[0]][k].op = "join" =>
              \A j \in 1 .. k - 1 : Starts(program[0], j, Code[program[0]][k].th) =>
                  TapeReq(0, j, current[0]) \in completed
JoiningOK ==
    pc[0] = "joinwait" =>
        /\ ip[0] <= Len(Code[program[0]]) /\ Instr(0).op = "join"
        /\ ~finished[Instr(0).th] => 0 \in clientWaiters[Instr(0).th]

(* All tapes have ended when main stops the workers.                        *)
StoppingOK(t) ==
    /\ pc[t] \in Waiting \cup Ended
    /\ prognum[t] \in {Idle, Stop}
    /\ pc[t] = "progwait" /\ prognum[t] = Idle => t \in serverWaiters[t]
StoppedOK(t) == prognum[t] = Stop \/ pc[t] \in Ended

TInv ==
    /\ pc[Main] \in InLines =>
          /\ \A t \in Threads : WorkerOK(t)
          /\ \A th \in Threads : Target(th) => StartedOK(th)
          /\ JoinedOK /\ JoiningOK
    /\ pc[Main] \in Stopping =>
          \A t \in Threads :
              StoppingOK(t) /\ (pc[Main] # "kill" \/ t < i => StoppedOK(t))

-----------------------------------------------------------------------------
(* Open, from one instruction to the next.                                  *)

LEMMA OpenStep ==
    ASSUME NEW n \in Tapes, NEW k \in Nat, k >= 1, k <= Len(Code[n]),
           NEW th, NEW j \in Nat
    PROVE  /\ Code[n][k].op \notin {"run", "join"} =>
                 (Open(n, k + 1, th, j) <=> Open(n, k, th, j))
           /\ Code[n][k].op = "run" =>
                 (Open(n, k + 1, th, j) <=>
                    Open(n, k, th, j) \/ (j = k /\ th = Code[n][k].th))
           /\ Code[n][k].op = "join" =>
                 (Open(n, k + 1, th, j) <=> Open(n, k, th, j) /\ th # Code[n][k].th)
<1>1. ASSUME j \in 1 .. k - 1
      PROVE  Open(n, k + 1, th, j) <=> Open(n, k, th, j) /\ ~Joins(n, k, th)
  <2>1. j + 1 .. (k + 1) - 1 = (j + 1 .. k - 1) \cup {k} /\ j \in 1 .. (k + 1) - 1
    BY <1>1
  <2> QED BY <1>1, <2>1 DEF Open
<1>2. ASSUME j = k
      PROVE  (Open(n, k + 1, th, j) <=> Starts(n, k, th)) /\ ~Open(n, k, th, j)
  <2>1. /\ j + 1 .. (k + 1) - 1 = {} /\ j \in 1 .. (k + 1) - 1
        /\ j \notin 1 .. k - 1
    BY <1>2
  <2> QED BY <1>2, <2>1 DEF Open
<1>3. ASSUME j \notin 1 .. k - 1, j # k
      PROVE  ~Open(n, k + 1, th, j) /\ ~Open(n, k, th, j)
  <2>1. j \notin 1 .. (k + 1) - 1
    BY <1>3
  <2> QED BY <1>3, <2>1 DEF Open
<1>4. /\ Starts(n, k, th) <=> Code[n][k].op = "run" /\ Code[n][k].th = th
      /\ Joins(n, k, th) <=> Code[n][k].op = "join" /\ Code[n][k].th = th
  BY DEF Starts, Joins
<1> QED BY <1>1, <1>2, <1>3, <1>4

LEMMA OpenFirst == \A n, th, j : ~Open(n, 1, th, j)
BY DEF Open

-----------------------------------------------------------------------------
(* The steps of a worker other than RUN_TAPE: what they leave alone, and    *)
(* what becomes of the worker.                                              *)
Alone(t) ==
    /\ pc'[Main] = pc[Main] /\ i' = i /\ completed \subseteq completed'
    /\ \A u \in Threads \ {t} :
          /\ pc'[u] = pc[u] /\ prognum'[u] = prognum[u] /\ finished'[u] = finished[u]
          /\ req'[u] = req[u] /\ current'[u] = current[u]
          /\ program'[u] = program[u] /\ ip'[u] = ip[u]
          /\ tpos'[u] = tpos[u] /\ arg'[u] = arg[u]
          /\ serverWaiters'[u] = serverWaiters[u]
          /\ clientWaiters[u] \subseteq clientWaiters'[u]
    /\ req'[t] = req[t]
    /\ pc[t] = "seek" => tpos'[t] = tpos[t] /\ arg'[t] = arg[t]

Keeps(t) == prognum'[t] = prognum[t] /\ current'[t] = current[t] /\ program'[t] = program[t]
Waits(t) == clientWaiters[t] \subseteq clientWaiters'[t] /\ finished'[t] = finished[t]

BeginsT(t) == pc[t] \in Before /\ prognum'[t] = prognum[t]
AwaitsT(t) ==
    /\ pc[t] = "check" /\ pc'[t] = "progwait" /\ prognum[t] = Idle
    /\ t \in serverWaiters'[t] /\ Keeps(t) /\ Waits(t)
TakesT(t) ==
    /\ \/ pc[t] = "check" /\ prognum[t] # Idle
       \/ pc[t] = "progwait" /\ t \notin serverWaiters[t]
    /\ prognum'[t] = Idle /\ program'[t] = prognum[t] /\ current'[t] = req[t]
    /\ prognum[t] \in Tapes => pc'[t] = "seek"
    /\ prognum[t] = Stop => pc'[t] = "final"
    /\ Waits(t)
SeeksT(t) == pc[t] = "seek" /\ pc'[t] = "exec" /\ ip'[t] = 1 /\ Keeps(t) /\ Waits(t)
UsesT(t) ==
    /\ AtInstr(t, "use") /\ pc'[t] = "exec" /\ ip'[t] = ip[t] + 1
    /\ Keeps(t) /\ Waits(t)
AwaitsJoinT(t) ==
    /\ AtInstr(t, "join") /\ pc'[t] = "joinwait" /\ ip'[t] = ip[t]
    /\ t \in clientWaiters'[Instr(t).th] /\ Keeps(t) /\ Waits(t)
JoinsT(t) ==
    /\ \/ AtInstr(t, "join") /\ finished[Instr(t).th]
       \/ JoinReturns(t, Instr(t).th)
    /\ pc'[t] = "exec" /\ ip'[t] = ip[t] + 1 /\ Keeps(t) /\ Waits(t)
ThrowsT(t) == pc[t] \in Busy /\ pc'[t] \in {"catch", "rethrow"} /\ Keeps(t) /\ Waits(t)
EndsT(t) ==
    /\ pc[t] = "exec" /\ ip[t] > Len(Code[program[t]]) /\ pc'[t] = "finish"
    /\ Keeps(t) /\ Waits(t)
ReportsT(t) ==
    /\ pc[t] = "finish" /\ pc'[t] = "check" /\ finished'[t] = TRUE
    /\ completed' = completed \cup {current[t]} /\ Keeps(t)
StopsT(t) == pc[t] \in Ended /\ pc'[t] \in Ended /\ Keeps(t)

AloneStep(t) ==
    \/ BeginsT(t) \/ AwaitsT(t) \/ TakesT(t) \/ SeeksT(t) \/ UsesT(t) \/ AwaitsJoinT(t)
    \/ JoinsT(t) \/ ThrowsT(t) \/ EndsT(t) \/ ReportsT(t) \/ StopsT(t)

LEMMA AloneSteps ==
    ASSUME TypeInv, NEW t \in Threads, WorkerStep(t), ~ExecRunTape(t)
    PROVE  Alone(t) /\ AloneStep(t)
<1> USE ProcFacts, TapesAssumption DEF TypeInv, ControlInv, Alone, AloneStep, Keeps, Waits,
       TypeOK, info, sync, mainVars, workVars, failVars, ghosts
<1>1. CASE SetupDone(t)
  BY <1>1 DEF SetupDone, GoTo, BeginsT, Before
<1>2. CASE AnnounceReady(t)
  BY <1>2 DEF AnnounceReady, SignalClient, Signal, GoTo, BeginsT, Before
<1>3. CASE AwaitProgram(t)
  BY <1>3 DEF AwaitProgram, WaitServer, GoTo, AwaitsT
<1>4. CASE TakeProgram(t)
  <2>1. /\ \A u \in Threads \ {t} : pc'[u] = pc[u]
        /\ pc'[Main] = pc[Main]
        /\ prognum[t] \in Tapes => pc'[t] = "seek"
        /\ prognum[t] = Stop => pc'[t] = "final"
    <3>1. GoTo(t, CASE prognum[t] = Stop -> "final"
                    [] prognum[t] = Idle -> "undefined"
                    [] OTHER -> "seek")
      BY <1>4 DEF TakeProgram
    <3>2. ASSUME prognum[t] \in Tapes PROVE GoTo(t, "seek")
      <4>1. prognum[t] # Stop /\ prognum[t] # Idle
        BY <3>2 DEF Idle, Stop
      <4> QED
        BY <3>1, <4>1
    <3>3. ASSUME prognum[t] = Stop PROVE GoTo(t, "final")
      <4>1. prognum[t] # Idle
        BY <3>3 DEF Idle, Stop
      <4> QED
        BY <3>1, <3>3, <4>1
    <3> QED
      BY <3>1, <3>2, <3>3 DEF GoTo
  <2>2. /\ prognum'[t] = Idle /\ current'[t] = req[t] /\ program'[t] = prognum[t]
        /\ \A u \in Threads \ {t} : /\ prognum'[u] = prognum[u] /\ current'[u] = current[u]
                                     /\ program'[u] = program[u]
    BY <1>4 DEF TakeProgram
  <2>3. /\ \/ pc[t] = "check" /\ prognum[t] # Idle
           \/ pc[t] = "progwait" /\ t \notin serverWaiters[t]
        /\ UNCHANGED <<arg, tpos, finished, clientWaiters, serverWaiters, ip, req, completed>>
    BY <1>4 DEF TakeProgram
  <2> QED
    BY <2>1, <2>2, <2>3 DEF TakesT
<1>5. CASE ResetAndSeek(t)
  BY <1>5 DEF ResetAndSeek, GoTo, SeeksT
<1>6. CASE UseData(t)
  BY <1>6 DEF UseData, AtInstr, NextInstr, UsesT
<1>8. CASE ExecJoinWait(t)
  <2>1. Instr(t).th \in Threads
    BY <1>8, InstrFacts DEF ExecJoinWait, AtInstr, Instr
  <2> QED
    BY <1>8, <2>1 DEF ExecJoinWait, AtInstr, WaitClient, GoTo, AwaitsJoinT
<1>9. CASE ExecJoined(t)
  BY <1>9 DEF ExecJoined, AtInstr, NextInstr, JoinReturns, GoTo, JoinsT
<1>10. CASE ExecCrash(t)
  BY <1>10 DEF ExecCrash, AtInstr, GoTo, ThrowsT, Busy
<1>11. CASE EndProgram(t)
  BY <1>11 DEF EndProgram, GoTo, EndsT
<1>12. CASE FinishProgram(t)
  BY <1>12 DEF FinishProgram, SignalClient, Signal, GoTo, ReportsT
<1>13. CASE AwaitRelease(t)
  BY <1>13 DEF AwaitRelease, WaitServer, GoTo, StopsT, Ended
<1>14. CASE ExitThread(t)
  BY <1>14 DEF ExitThread, GoTo, StopsT, Ended
<1> QED
  BY <1>1, <1>2, <1>3, <1>4, <1>5, <1>6, <1>8, <1>9, <1>10, <1>11, <1>12, <1>13, <1>14
     DEF WorkerStep

(* While main is in the lines a worker is past its announcement and has not *)
(* been stopped.                                                            *)
LEMMA AloneKeepsWorkers ==
    ASSUME TypeInv, TInv, pc[Main] \in InLines,
           NEW t \in Threads, Alone(t), AloneStep(t)
    PROVE  \A u \in Threads : WorkerOK(u)'
<1>w. \A u \in Threads : WorkerOK(u)
  BY DEF TInv
<1>1. ASSUME NEW u \in Threads \ {t} PROVE WorkerOK(u)'
  BY <1>w, <1>1 DEF Alone, WorkerOK
<1>2. WorkerOK(t)'
  <2>1. WorkerOK(t) /\ req'[t] = req[t] /\ prognum[t] \in Tapes \cup {Idle, Stop}
    BY <1>w DEF Alone, TypeInv, TypeOK
  <2>2. ~BeginsT(t) /\ ~StopsT(t)
    BY <2>1 DEF WorkerOK, BeginsT, StopsT, Busy, Waiting, Before, Ended
  <2>3. CASE AwaitsT(t)
    BY <2>1, <2>3 DEF WorkerOK, AwaitsT, Keeps, Waits, Busy, Waiting
  <2>4. CASE TakesT(t)
    BY <2>1, <2>4 DEF WorkerOK, TakesT, Waits, Busy, Waiting
  <2>5. CASE SeeksT(t) \/ UsesT(t) \/ AwaitsJoinT(t) \/ JoinsT(t) \/ ThrowsT(t) \/ EndsT(t)
    <3>1. pc[t] \in Busy /\ pc'[t] \in Busy /\ Keeps(t) /\ Waits(t)
      BY <2>5 DEF SeeksT, UsesT, AwaitsJoinT, JoinsT, ThrowsT, EndsT, AtInstr, JoinReturns, Busy
    <3> QED
      BY <2>1, <3>1 DEF WorkerOK, Keeps, Waits, Busy, Waiting
  <2>6. CASE ReportsT(t)
    BY <2>1, <2>6 DEF WorkerOK, ReportsT, Keeps, Busy, Waiting
  <2> QED
    BY <2>2, <2>3, <2>4, <2>5, <2>6, AloneStep(t) DEF AloneStep
<1> QED
  BY <1>1, <1>2

(* A tape that starts or joins others is on thread 0.                       *)
LEMMA StarterOnFirst ==
    ASSUME TypeInv, NEW t \in Threads, WorkerOK(t), pc[t] = "exec",
           ip[t] <= Len(Code[program[t]]), Instr(t).op \in {"run", "join"}
    PROVE  t = 0
<1>1. program[t] \in Tapes /\ ip[t] \in Nat /\ ip[t] >= 1
  BY DEF TypeInv, TypeOK, ControlInv
<1>2. ip[t] \in DOMAIN Code[program[t]]
  BY <1>1, InstrFacts
<1> QED
  BY <1>1, <1>2 DEF WorkerOK, Starter, Instr, Busy

LEMMA ProgramFacts ==
    ASSUME TypeInv, NEW t \in Threads, pc[t] \in {"exec", "joinwait"}
    PROVE  /\ program[t] \in Tapes /\ ip[t] \in Nat /\ ip[t] >= 1
           /\ Len(Code[program[t]]) \in Nat
<1>1. program[t] \in Tapes /\ ip[t] \in Nat /\ ip[t] >= 1
  BY DEF TypeInv, TypeOK, ControlInv
<1> QED
  BY <1>1, CodeAssumption

LEMMA AloneKeepsJoined ==
    ASSUME TypeInv, TInv, CompiledTapes, pc[Main] \in InLines,
           NEW t \in Threads, Alone(t), AloneStep(t)
    PROVE  JoinedOK' /\ JoiningOK'
<1> USE ProcFacts
<1>i. /\ JoinedOK /\ JoiningOK /\ completed \subseteq completed'
      /\ \A u \in Threads : WorkerOK(u)
      /\ \A th \in Threads : Target(th) => StartedOK(th)
  BY DEF TInv, Alone
<1>1. CASE t # 0
  <2>1. /\ pc'[0] = pc[0] /\ ip'[0] = ip[0] /\ program'[0] = program[0]
        /\ current'[0] = current[0]
    BY <1>1 DEF Alone
  <2>2. JoinedOK'
    BY <2>1, <1>i DEF JoinedOK, TapeReq
  <2>3. ASSUME pc[0] = "joinwait", ~finished'[Instr(0).th]
        PROVE  0 \in clientWaiters'[Instr(0).th]
    <3>1. Instr(0).th \in Threads
      BY <2>3, <1>i, InstrFacts DEF JoiningOK, Instr, TypeInv, TypeOK, ControlInv
    <3>2. CASE Instr(0).th # t
      BY <2>3, <3>1, <3>2, <1>i DEF Alone, JoiningOK
    <3>3. CASE Instr(0).th = t
      <4>1. WorkerOK(t) /\ ~ReportsT(t)
        BY <2>3, <3>3, <1>i DEF ReportsT
      <4>2. Waits(t)
        BY <4>1, AloneStep(t) DEF WorkerOK, AloneStep, BeginsT, AwaitsT, TakesT, SeeksT, UsesT,
           AwaitsJoinT, JoinsT, ThrowsT, EndsT, StopsT, Busy, Waiting, Before, Ended
      <4> QED
        BY <2>3, <3>3, <4>2, <1>i DEF Waits, JoiningOK
    <3> QED
      BY <3>2, <3>3
  <2> QED
    BY <2>1, <2>2, <2>3, <1>i DEF JoiningOK, Instr
<1>2. CASE t = 0
  <2>1. WorkerOK(0) /\ ~BeginsT(0) /\ ~StopsT(0)
    BY <1>i DEF WorkerOK, BeginsT, StopsT, Busy, Waiting, Before, Ended
  <2>2. CASE AwaitsT(0) \/ TakesT(0) \/ ThrowsT(0) \/ EndsT(0) \/ ReportsT(0)
    <3>1. pc'[0] \notin {"exec", "joinwait"}
      <4>1. prognum[0] # Idle => prognum[0] \in Tapes
        BY <2>1 DEF WorkerOK
      <4>2. CASE TakesT(0)
        <5>1. prognum[0] # Idle
          BY <2>1, <4>2 DEF TakesT, WorkerOK
        <5> QED
          BY <4>1, <4>2, <5>1 DEF TakesT
      <4> QED
        BY <2>2, <4>2 DEF AwaitsT, ThrowsT, EndsT, ReportsT
    <3> QED
      BY <3>1 DEF JoinedOK, JoiningOK
  <2>3. CASE SeeksT(0)
    <3>1. program[0] \in Tapes /\ Len(Code[program[0]]) \in Nat
      BY <2>3, CodeAssumption DEF SeeksT, TypeInv, ControlInv
    <3> QED
      BY <2>3, <3>1 DEF SeeksT, Keeps, JoinedOK, JoiningOK
  <2>c. pc[0] \in {"exec", "joinwait"} =>
           /\ program[0] \in Tapes /\ ip[0] \in Nat /\ ip[0] >= 1
           /\ Len(Code[program[0]]) \in Nat
    BY ProgramFacts
  <2>4. CASE UsesT(0)
    <3>1. /\ pc[0] = "exec" /\ pc'[0] = "exec" /\ ip'[0] = ip[0] + 1
          /\ ip[0] <= Len(Code[program[0]]) /\ Code[program[0]][ip[0]].op = "use"
          /\ program'[0] = program[0] /\ current'[0] = current[0]
      BY <2>4 DEF UsesT, AtInstr, Instr, Keeps
    <3>2. JoinedOK'
      <4> SUFFICES ASSUME NEW m \in 1 .. ip[0], Code[program[0]][m].op = "join",
                          NEW j \in 1 .. m - 1,
                          Starts(program[0], j, Code[program[0]][m].th)
                   PROVE  TapeReq(0, j, current[0]) \in completed'
        BY <3>1, <2>c DEF JoinedOK, TapeReq
      <4>1. m # ip[0]
        BY <3>1
      <4>2. m \in 1 .. ip[0] - 1
        BY <4>1, <3>1, <2>c
      <4> QED
        BY <3>1, <4>2, <1>i DEF JoinedOK
    <3> QED
      BY <3>1, <3>2 DEF JoiningOK
  <2>5. CASE AwaitsJoinT(0)
    <3>1. /\ pc[0] = "exec" /\ pc'[0] = "joinwait" /\ ip'[0] = ip[0]
          /\ ip[0] <= Len(Code[program[0]]) /\ Instr(0).op = "join"
          /\ program'[0] = program[0] /\ current'[0] = current[0]
          /\ 0 \in clientWaiters'[Instr(0).th]
      BY <2>5 DEF AwaitsJoinT, AtInstr, Keeps
    <3> QED
      BY <3>1, <2>c, <1>i DEF JoinedOK, JoiningOK, TapeReq, Instr
  <2>6. CASE JoinsT(0)
    <3> DEFINE n == program[0]
               k == ip[0]
               th == Code[n][k].th
    <3>1. /\ pc[0] \in {"exec", "joinwait"} /\ pc'[0] = "exec" /\ ip'[0] = k + 1
          /\ k <= Len(Code[n]) /\ Code[n][k].op = "join" /\ finished[th]
          /\ program'[0] = n /\ current'[0] = current[0]
      BY <2>6, <1>i DEF JoinsT, AtInstr, JoinReturns, JoiningOK, Instr, Keeps
    <3>2. n \in Tapes /\ k \in DOMAIN Code[n] /\ th \in Threads
      BY <3>1, <2>c, InstrFacts
    <3>3. Target(th) /\ StartedOK(th)
      BY <3>1, <3>2, <1>i DEF CompiledTapes
    <3>4. ASSUME NEW j \in 1 .. k - 1, Starts(n, j, th)
          PROVE  TapeReq(0, j, current[0]) \in completed
      <4>0. j \in Nat /\ k \in Nat
        BY <3>1, <2>c
      <4>1. CASE Open(n, k, th, j)
        <5>1. \/ Handed(th, TapeReq(0, j, current[0]))
              \/ Taken(th, TapeReq(0, j, current[0]))
              \/ Reported(th, TapeReq(0, j, current[0]))
          BY <3>1, <3>3, <4>0, <4>1 DEF StartedOK
        <5>2. WorkerOK(th)
          BY <3>2, <1>i
        <5> QED
          BY <3>1, <5>1, <5>2, TapesAssumption DEF Handed, Taken, Reported, WorkerOK, Idle
      <4>2. CASE ~Open(n, k, th, j)
        <5>1. PICK m \in j + 1 .. k - 1 : Joins(n, m, th)
          BY <3>4, <4>2 DEF Open
        <5>2. m \in 1 .. k - 1 /\ j \in 1 .. m - 1
          BY <5>1, <4>0, <3>4
        <5> QED
          BY <3>1, <3>4, <5>1, <5>2, <1>i DEF JoinedOK, Joins
      <4> QED
        BY <4>1, <4>2
    <3> HIDE DEF th
    <3>5. JoinedOK'
      <4> SUFFICES ASSUME NEW m \in 1 .. k, Code[n][m].op = "join",
                          NEW j \in 1 .. m - 1, Starts(n, j, Code[n][m].th)
                   PROVE  TapeReq(0, j, current[0]) \in completed'
        BY <3>1, <2>c DEF JoinedOK, TapeReq
      <4>1. CASE m = k
        BY <3>4, <4>1, <1>i DEF th
      <4>2. CASE m # k
        <5>1. m \in 1 .. k - 1
          BY <4>2, <3>1, <2>c
        <5> QED
          BY <3>1, <5>1, <1>i DEF JoinedOK
      <4> QED
        BY <4>1, <4>2
    <3> QED
      BY <3>1, <3>5 DEF JoiningOK
  <2> QED
    BY <1>2, <2>1, <2>2, <2>3, <2>4, <2>5, <2>6, AloneStep(t) DEF AloneStep
<1> QED
  BY <1>1, <1>2

LEMMA AloneKeepsStarted ==
    ASSUME TypeInv, TInv, CompiledTapes, pc[Main] \in InLines,
           NEW t \in Threads, Alone(t), AloneStep(t),
           NEW th \in Threads, Target(th)
    PROVE  StartedOK(th)'
<1> USE ProcFacts
<1>i. /\ JoinedOK /\ JoiningOK /\ completed \subseteq completed'
      /\ \A u \in Threads : WorkerOK(u)
      /\ StartedOK(th) /\ th # 0 /\ WorkerOK(th)
  BY DEF TInv, Alone, CompiledTapes
<1>a. \A r : req'[t] = req[t]
  BY DEF Alone
<1>1. CASE t # 0 /\ t # th
  <2>1. /\ pc'[0] = pc[0] /\ ip'[0] = ip[0] /\ program'[0] = program[0]
        /\ current'[0] = current[0]
        /\ pc'[th] = pc[th] /\ prognum'[th] = prognum[th] /\ finished'[th] = finished[th]
        /\ req'[th] = req[th] /\ current'[th] = current[th]
    BY <1>1 DEF Alone
  <2> QED
    BY <2>1, <1>i DEF StartedOK, Handed, Taken, Reported, Resting, TapeReq
<1>2. CASE t = th
  <2>1. /\ pc'[0] = pc[0] /\ ip'[0] = ip[0] /\ program'[0] = program[0]
        /\ current'[0] = current[0] /\ req'[th] = req[th]
    BY <1>2, <1>i DEF Alone
  <2>2. AloneStep(th)
    BY <1>2
  <2>3. Resting(th) => Resting(th)'
    BY <1>i, <2>2 DEF Resting, WorkerOK, AloneStep, BeginsT, AwaitsT, TakesT, SeeksT, UsesT,
           AwaitsJoinT, JoinsT, ThrowsT, EndsT, ReportsT, StopsT, Keeps, Waits, AtInstr, JoinReturns,
           Busy, Waiting, Before, Ended
  <2>4. ASSUME NEW r, Handed(th, r) \/ Taken(th, r) \/ Reported(th, r)
        PROVE  (prognum'[th] \in Tapes /\ req'[th] = r)
               \/ (prognum'[th] = Idle /\ current'[th] = r /\ pc'[th] \in Busy)
               \/ (Resting(th)' /\ r \in completed')
    <3>1. CASE Handed(th, r)
      <4>1. prognum[th] \in Tapes /\ prognum[th] # Idle /\ req[th] = r /\ pc[th] \in Waiting
        BY <3>1, <1>i, TapesAssumption DEF Handed, WorkerOK, Idle
      <4>2. AwaitsT(th) \/ TakesT(th)
        BY <4>1, <2>2 DEF AloneStep, BeginsT, SeeksT, UsesT,
           AwaitsJoinT, JoinsT, ThrowsT, EndsT, ReportsT, StopsT, AtInstr, JoinReturns,
           Busy, Waiting, Before, Ended
      <4> QED
        BY <2>1, <4>1, <4>2 DEF AwaitsT, TakesT, Keeps, Busy
    <3>2. CASE Taken(th, r)
      <4>1. prognum[th] = Idle /\ current[th] = r /\ pc[th] \in Busy
        BY <3>2 DEF Taken
      <4>2. CASE ReportsT(th)
        BY <4>1, <4>2 DEF ReportsT, Resting, Keeps, Waiting
      <4>3. CASE ~ReportsT(th)
        <5>1. pc'[th] \in Busy /\ Keeps(th)
          BY <4>1, <4>3, <2>2 DEF AloneStep, BeginsT, SeeksT, UsesT, AwaitsT, TakesT,
           AwaitsJoinT, JoinsT, ThrowsT, EndsT, StopsT, AtInstr, JoinReturns,
           Busy, Before, Ended
        <5> QED
          BY <4>1, <5>1 DEF Keeps
      <4> QED
        BY <4>2, <4>3
    <3>3. CASE Reported(th, r)
      BY <3>3, <2>3, <1>i DEF Reported
    <3> QED
      BY <2>4, <3>1, <3>2, <3>3
  <2> QED
    BY <2>1, <2>3, <2>4, <1>i DEF StartedOK, Handed, Taken, Reported, TapeReq
<1>3. CASE t = 0
  <2>1. /\ pc'[th] = pc[th] /\ prognum'[th] = prognum[th] /\ finished'[th] = finished[th]
        /\ req'[th] = req[th] /\ current'[th] = current[th]
    BY <1>3, <1>i DEF Alone
  <2>2. /\ Resting(th) => Resting(th)'
        /\ \A r : Handed(th, r) => (prognum'[th] \in Tapes /\ req'[th] = r)
        /\ \A r : Taken(th, r) => (prognum'[th] = Idle /\ current'[th] = r /\ pc'[th] \in Busy)
        /\ \A r : Reported(th, r) => (Resting(th)' /\ r \in completed')
    BY <2>1, <1>i DEF Resting, Handed, Taken, Reported
  <2>w. WorkerOK(0) /\ ~BeginsT(0) /\ ~StopsT(0)
    BY <1>i DEF WorkerOK, BeginsT, StopsT, Busy, Waiting, Before, Ended
  <2>c. pc[0] \in {"exec", "joinwait"} =>
           /\ program[0] \in Tapes /\ ip[0] \in Nat /\ ip[0] >= 1
           /\ Len(Code[program[0]]) \in Nat
    BY ProgramFacts
  <2>3. CASE AwaitsT(0) \/ ReportsT(0)
    BY <2>2, <2>3, <1>i DEF AwaitsT, ReportsT, StartedOK
  <2>4. CASE TakesT(0)
    <3>1. prognum[0] \in Tapes
      BY <2>w, <2>4 DEF WorkerOK, TakesT
    <3> QED
      BY <2>2, <2>4, <3>1, <1>i DEF TakesT, StartedOK
  <2>5. CASE ThrowsT(0)
    BY <2>5 DEF ThrowsT, StartedOK
  <2>6. CASE SeeksT(0)
    <3>1. Resting(th)'
      BY <2>2, <2>6, <1>i DEF SeeksT, StartedOK
    <3> QED
      BY <2>6, <3>1, OpenFirst DEF SeeksT, StartedOK
  <2>7. CASE EndsT(0)
    <3>1. pc[0] = "exec" /\ ip[0] = Len(Code[program[0]]) + 1 /\ program[0] \in Tapes
      BY <2>7, <2>c, <1>i DEF EndsT, JoinedOK
    <3>2. \A j \in Nat : ~Open(program[0], ip[0], th, j)
      BY <3>1 DEF CompiledTapes
    <3> QED
      BY <2>2, <2>7, <3>1, <3>2, <1>i DEF EndsT, StartedOK
  <2>8. CASE AwaitsJoinT(0)
    BY <2>2, <2>8, <1>i DEF AwaitsJoinT, AtInstr, Keeps, StartedOK, Handed, Taken, Reported, TapeReq
  <2> DEFINE n == program[0]
             k == ip[0]
  <2>9. CASE UsesT(0)
    <3>1. /\ pc[0] = "exec" /\ pc'[0] = "exec" /\ ip'[0] = k + 1
          /\ k <= Len(Code[n]) /\ Code[n][k].op = "use"
          /\ program'[0] = n /\ current'[0] = current[0]
      BY <2>9 DEF UsesT, AtInstr, Instr, Keeps
    <3>2. \A j \in Nat : Open(n, k + 1, th, j) <=> Open(n, k, th, j)
      BY <3>1, <2>c, OpenStep
    <3> QED
      BY <2>2, <3>1, <3>2, <1>i DEF StartedOK, Handed, Taken, Reported, TapeReq
  <2>10. CASE JoinsT(0)
    <3>1. /\ pc[0] \in {"exec", "joinwait"} /\ pc'[0] = "exec" /\ ip'[0] = k + 1
          /\ k <= Len(Code[n]) /\ Code[n][k].op = "join" /\ finished[Code[n][k].th]
          /\ program'[0] = n /\ current'[0] = current[0]
      BY <2>10, <1>i DEF JoinsT, AtInstr, JoinReturns, JoiningOK, Instr, Keeps
    <3>2. \A j \in Nat : Open(n, k + 1, th, j) <=> Open(n, k, th, j) /\ th # Code[n][k].th
      BY <3>1, <2>c, OpenStep
    <3>3. CASE th # Code[n][k].th
      BY <2>2, <3>1, <3>2, <3>3, <1>i DEF StartedOK, Handed, Taken, Reported, TapeReq
    <3>4. CASE th = Code[n][k].th
      <4>1. PICK j \in Nat : Open(n, k, th, j)
        <5>1. n \in Tapes /\ k \in DOMAIN Code[n]
          BY <3>1, <2>c, InstrFacts
        <5> QED
          BY <5>1, <3>1, <3>4 DEF CompiledTapes
      <4>2. Resting(th)
        <5>1. \/ Handed(th, TapeReq(0, j, current[0]))
              \/ Taken(th, TapeReq(0, j, current[0]))
              \/ Reported(th, TapeReq(0, j, current[0]))
          BY <3>1, <4>1, <1>i DEF StartedOK
        <5>2. finished[th] /\ WorkerOK(th)
          BY <3>1, <3>4, <1>i
        <5>3. prognum[th] \notin Tapes
          BY <5>2, TapesAssumption DEF WorkerOK, Idle
        <5>4. pc[th] \notin Busy
          BY <5>2 DEF WorkerOK
        <5> QED
          BY <5>1, <5>3, <5>4 DEF Handed, Taken, Reported
      <4> QED
        BY <2>2, <3>1, <3>2, <3>4, <4>2 DEF StartedOK
    <3> QED
      BY <3>3, <3>4
  <2> QED
    BY <1>3, <2>w, <2>3, <2>4, <2>5, <2>6, <2>7, <2>8, <2>9, <2>10, AloneStep(t) DEF AloneStep
<1> QED
  BY <1>1, <1>2, <1>3

-----------------------------------------------------------------------------
(* RUN_TAPE: only the tape on thread 0 does it, on a thread that rests.     *)
Handing(th, n, r) ==
    /\ prognum' = [prognum EXCEPT ![th] = n]
    /\ finished' = [finished EXCEPT ![th] = FALSE]
    /\ req' = [req EXCEPT ![th] = r]
    /\ SignalServer(th)
    /\ \A u \in Threads \ {th} : tpos'[u] = tpos[u] /\ arg'[u] = arg[u]

LEMMA RunTapeFacts ==
    ASSUME TypeInv, TInv, CompiledTapes, pc[Main] \in InLines,
           NEW t \in Threads, ExecRunTape(t)
    PROVE  /\ t = 0 /\ pc[0] = "exec" /\ ip[0] <= Len(Code[program[0]])
           /\ Instr(0).op = "run"
           /\ UNCHANGED <<clientWaiters, program, current, completed>>
           /\ pc'[Main] = pc[Main] /\ \A u \in Threads \ {0} : pc'[u] = pc[u] /\ ip'[u] = ip[u]
           /\ pc'[0] = "catch" \/ (pc'[0] = "exec" /\ ip'[0] = ip[0] + 1)
           /\ \/ /\ pc'[0] = "catch"
                 /\ UNCHANGED <<prognum, finished, req, serverWaiters, tpos, arg>>
              \/ /\ Instr(0).th \in Threads /\ Instr(0).th # 0 /\ Instr(0).tape \in Tapes
                 /\ ~Starter(Instr(0).tape) /\ Target(Instr(0).th)
                 /\ Resting(Instr(0).th)
                 /\ Handing(Instr(0).th, Instr(0).tape, TapeReq(0, ip[0], current[0]))
<1> USE ProcFacts
<1>i. /\ \A u \in Threads : WorkerOK(u)
      /\ \A th \in Threads : Target(th) => StartedOK(th)
      /\ TypeOK
  BY DEF TInv, TypeInv
<1>1. /\ pc[t] = "exec" /\ ip[t] <= Len(Code[program[t]]) /\ Instr(t).op = "run"
      /\ UNCHANGED <<clientWaiters, program, current, completed>>
      /\ (GoTo(t, "catch") /\ ip' = ip) \/ (pc' = pc /\ NextInstr(t))
  BY DEF ExecRunTape, AtInstr
<1>2. t = 0
  BY <1>1, <1>i, StarterOnFirst
<1>3. /\ pc'[Main] = pc[Main] /\ \A u \in Threads \ {0} : pc'[u] = pc[u] /\ ip'[u] = ip[u]
      /\ pc'[0] = "catch" \/ (pc'[0] = "exec" /\ ip'[0] = ip[0] + 1)
  BY <1>1, <1>2, <1>i DEF GoTo, NextInstr, TypeOK
<1>4. CASE InvalidCall(Instr(t).th, Instr(t).tape)
  <2>1. UNCHANGED <<prognum, finished, req, serverWaiters, tpos, arg>> /\ GoTo(t, "catch")
    BY <1>4 DEF ExecRunTape, info
  <2>2. pc'[0] = "catch"
    BY <2>1, <1>2, <1>i DEF GoTo, TypeOK
  <2> QED
    BY <2>1, <2>2, <1>1, <1>2, <1>3
<1>5. CASE ~InvalidCall(Instr(t).th, Instr(t).tape)
  <2> DEFINE th == Instr(0).th
             n == program[0]
             k == ip[0]
  <2>1. th \in Threads /\ Instr(0).tape \in Tapes
    BY <1>5, <1>2 DEF InvalidCall
  <2>2. n \in Tapes /\ k \in Nat /\ k >= 1 /\ k \in DOMAIN Code[n] /\ Instr(0) = Code[n][k]
    BY <1>1, <1>2, ProgramFacts, InstrFacts DEF Instr
  <2>3. Target(th) /\ th # 0
    BY <1>1, <1>2, <2>2 DEF Target, CompiledTapes
  <2>4. ~Starter(Instr(0).tape) /\ \A j \in Nat : ~Open(n, k, th, j)
    BY <1>1, <1>2, <2>1, <2>2 DEF CompiledTapes
  <2>5. Resting(th)
    <3>1. StartedOK(th)
      BY <1>i, <2>1, <2>3
    <3> QED
      BY <1>1, <1>2, <2>4, <3>1 DEF StartedOK
  <2>6. HandOver(Instr(t).th, Instr(t).tape, Instr(t).arg, TapeReq(t, ip[t], current[t]))
    BY <1>5 DEF ExecRunTape
  <2>7. Handing(th, Instr(0).tape, TapeReq(0, k, current[0]))
    <3>1. /\ prognum' = [prognum EXCEPT ![th] = Instr(0).tape]
          /\ finished' = [finished EXCEPT ![th] = FALSE]
          /\ req' = [req EXCEPT ![th] = TapeReq(0, k, current[0])]
          /\ SignalServer(th)
          /\ arg' = [arg EXCEPT ![th] = Instr(0).arg]
          /\ tpos' = [tpos EXCEPT ![th] = pos]
      <4>1. /\ prognum' = [prognum EXCEPT ![Instr(t).th] = Instr(t).tape]
            /\ finished' = [finished EXCEPT ![Instr(t).th] = FALSE]
            /\ req' = [req EXCEPT ![Instr(t).th] = TapeReq(t, ip[t], current[t])]
            /\ SignalServer(Instr(t).th)
            /\ arg' = [arg EXCEPT ![Instr(t).th] = Instr(t).arg]
            /\ tpos' = [tpos EXCEPT ![Instr(t).th] = pos]
        BY <2>6 DEF HandOver
      <4> QED
        BY <4>1, <1>2 DEF SignalServer
    <3>2. \A u \in Threads \ {th} : tpos'[u] = tpos[u] /\ arg'[u] = arg[u]
      BY <3>1, <2>1, <1>i DEF TypeOK
    <3> QED
      BY <3>1, <3>2 DEF Handing
  <2> QED
    BY <1>1, <1>2, <1>3, <2>1, <2>3, <2>4, <2>5, <2>7
<1> QED
  BY <1>4, <1>5

(* A tape handed to a thread that rests.                                    *)
LEMMA HandingFacts ==
    ASSUME TypeInv, NEW th \in Threads, NEW n \in Tapes, NEW r, Handing(th, n, r),
           Resting(th), NEW t \in Threads, WorkerOK(t), Starter(n) => th = 0,
           program' = program, current' = current,
           pc'[t] = pc[t] \/ (pc[t] \in Busy /\ pc'[t] \in Busy)
    PROVE  /\ WorkerOK(t)'
           /\ t # th => /\ prognum'[t] = prognum[t] /\ finished'[t] = finished[t]
                        /\ req'[t] = req[t] /\ serverWaiters'[t] = serverWaiters[t]
           /\ t = th => prognum'[t] = n /\ req'[t] = r /\ ~finished'[t]
<1>1. /\ prognum'[th] = n /\ req'[th] = r /\ ~finished'[th]
      /\ \A u \in Threads \ {th} :
            /\ prognum'[u] = prognum[u] /\ finished'[u] = finished[u]
            /\ req'[u] = req[u] /\ serverWaiters'[u] = serverWaiters[u]
  BY SignalServerFacts DEF Handing, TypeInv, TypeOK, ControlInv
<1>2. CASE t # th
  BY <1>1, <1>2 DEF WorkerOK, Busy, Waiting
<1>3. CASE t = th
  <2>1. pc[t] \in Waiting /\ pc'[t] = pc[t]
    BY <1>3 DEF Resting, Waiting, Busy
  <2>2. n # Idle
    BY TapesAssumption DEF Idle
  <2> QED
    BY <1>1, <1>3, <2>1, <2>2 DEF WorkerOK, Busy, Waiting
<1> QED
  BY <1>1, <1>2, <1>3

LEMMA RunTapeKeepsTInv ==
    ASSUME TypeInv, TInv, CompiledTapes, pc[Main] \in InLines,
           NEW t \in Threads, ExecRunTape(t)
    PROVE  TInv'
<1> USE ProcFacts
<1> DEFINE n == program[0]
           k == ip[0]
           c == Instr(0)
<1>f. /\ t = 0 /\ pc[0] = "exec" /\ k <= Len(Code[n])
      /\ c.op = "run" /\ c = Code[n][k]
      /\ UNCHANGED <<clientWaiters, program, current, completed>>
      /\ pc'[Main] = pc[Main] /\ \A u \in Threads \ {0} : pc'[u] = pc[u] /\ ip'[u] = ip[u]
      /\ pc'[0] = "catch" \/ (pc'[0] = "exec" /\ ip'[0] = k + 1)
  BY RunTapeFacts DEF Instr
<1>c. n \in Tapes /\ k \in Nat /\ k >= 1 /\ Len(Code[n]) \in Nat
  BY <1>f, ProgramFacts
<1>i. /\ \A u \in Threads : WorkerOK(u)
      /\ \A th \in Threads : Target(th) => StartedOK(th)
      /\ JoinedOK /\ JoiningOK
  BY DEF TInv
<1>m. pc'[Main] \notin Stopping
  BY <1>f DEF InLines, InLine, Stopping
<1>1. JoinedOK' /\ JoiningOK'
  <2>1. JoinedOK'
    <3> SUFFICES ASSUME pc'[0] = "exec", ip'[0] = k + 1,
                        NEW m \in 1 .. k, Code[n][m].op = "join",
                        NEW j \in 1 .. m - 1, Starts(n, j, Code[n][m].th)
                 PROVE  TapeReq(0, j, current[0]) \in completed
      BY <1>f, <1>c DEF JoinedOK, TapeReq
    <3>1. m # k
      BY <1>f
    <3>2. m \in 1 .. k - 1
      BY <3>1, <1>c
    <3> QED
      BY <1>f, <1>i, <3>2 DEF JoinedOK
  <2> QED
    BY <2>1, <1>f DEF JoiningOK
<1>2. CASE pc'[0] = "catch" /\ UNCHANGED <<prognum, finished, req, serverWaiters, tpos, arg>>
  <2>1. \A u \in Threads : WorkerOK(u)'
    BY <1>2, <1>f, <1>i DEF WorkerOK, Busy, Waiting
  <2>2. \A th \in Threads : StartedOK(th)'
    BY <1>2 DEF StartedOK
  <2> QED
    BY <2>1, <2>2, <1>1, <1>m DEF TInv
<1>3. CASE /\ c.th \in Threads /\ c.th # 0 /\ c.tape \in Tapes
           /\ ~Starter(c.tape) /\ Target(c.th) /\ Resting(c.th)
           /\ Handing(c.th, c.tape, TapeReq(0, k, current[0]))
  <2> HIDE DEF c
  <2>1. ASSUME NEW u \in Threads
        PROVE /\ WorkerOK(u)'
              /\ u # c.th => /\ prognum'[u] = prognum[u] /\ finished'[u] = finished[u]
                             /\ req'[u] = req[u] /\ serverWaiters'[u] = serverWaiters[u]
              /\ u = c.th => prognum'[u] = c.tape /\ req'[u] = TapeReq(0, k, current[0])
    <3>1. pc'[u] = pc[u] \/ (pc[u] \in Busy /\ pc'[u] \in Busy)
      BY <1>f DEF Busy
    <3>2. PICK q : q = TapeReq(0, k, current[0])
      OBVIOUS
    <3>3. PICK th : th = c.th
      OBVIOUS
    <3>4. PICK a : a = c.tape
      OBVIOUS
    <3>5. Handing(th, a, q)
      BY <1>3, <3>2, <3>3, <3>4 DEF Handing, SignalServer
    <3>6. /\ th \in Threads /\ a \in Tapes /\ Resting(th) /\ WorkerOK(u)
          /\ Starter(a) => th = 0
          /\ program' = program /\ current' = current
      BY <1>3, <1>f, <1>i, <3>3, <3>4
    <3>7. /\ WorkerOK(u)'
          /\ u # th => /\ prognum'[u] = prognum[u] /\ finished'[u] = finished[u]
                       /\ req'[u] = req[u] /\ serverWaiters'[u] = serverWaiters[u]
          /\ u = th => prognum'[u] = a /\ req'[u] = q /\ ~finished'[u]
      BY <3>1, <3>5, <3>6, HandingFacts
    <3> QED
      BY <3>2, <3>3, <3>4, <3>7
  <2>2. ASSUME NEW th \in Threads, Target(th) PROVE StartedOK(th)'
    <3> SUFFICES ASSUME pc'[0] = "exec", ip'[0] = k + 1 PROVE StartedOK(th)'
      BY <1>f DEF StartedOK
    <3>1. \A j \in Nat : Open(n, k + 1, th, j) <=> Open(n, k, th, j) \/ (j = k /\ th = c.th)
      BY <1>f, <1>c, OpenStep
    <3>2. CASE th = c.th
      <4>1. \A j \in Nat : Open(n, k + 1, th, j) <=> j = k
        <5>1. k \in DOMAIN Code[n]
          BY <1>f, <1>c, InstrFacts
        <5>2. \A j \in Nat : ~Open(n, k, th, j)
          <6>1. c.th = Code[n][k].th /\ Code[n][k].op = "run"
            BY <1>f
          <6> QED
            BY <5>1, <6>1, <1>c, <3>2 DEF CompiledTapes
        <5> SUFFICES ASSUME NEW j \in Nat PROVE Open(n, k + 1, th, j) <=> j = k
          OBVIOUS
        <5>3. Open(n, k + 1, th, j) <=> Open(n, k, th, j) \/ (j = k /\ th = c.th)
          BY <3>1
        <5> QED
          BY <5>3, <3>2, <5>2
      <4>2. prognum'[th] \in Tapes /\ req'[th] = TapeReq(0, k, current[0])
        BY <2>1, <3>2, <1>3
      <4> QED
        BY <4>1, <4>2, <1>f, <1>c DEF StartedOK, TapeReq, Handed
    <3>3. CASE th # c.th
      <4>1. /\ Resting(th) => Resting(th)'
            /\ \A r : Handed(th, r) => prognum'[th] \in Tapes /\ req'[th] = r
            /\ \A r : Taken(th, r) => prognum'[th] = Idle /\ current'[th] = r /\ pc'[th] \in Busy
            /\ \A r : Reported(th, r) => Resting(th)' /\ r \in completed'
        <5>1. th # 0
          BY <2>2 DEF CompiledTapes
        <5> QED
          BY <5>1, <2>1, <3>3, <1>f DEF Resting, Handed, Taken, Reported
      <4>2. \A j \in Nat : Open(n, k + 1, th, j) <=> Open(n, k, th, j)
        BY <3>1, <3>3
      <4>3. StartedOK(th)
        BY <2>2, <1>i
      <4> QED
        BY <4>1, <4>2, <4>3, <1>f DEF StartedOK, Handed, Taken, Reported, TapeReq
    <3> QED
      BY <3>2, <3>3
  <2> QED
    BY <2>1, <2>2, <1>1, <1>m DEF TInv
<1> QED
  BY <1>2, <1>3, RunTapeFacts

-----------------------------------------------------------------------------
(* The workers while main stops them.                                       *)
LEMMA StoppingSteps ==
    ASSUME TypeInv, TInv, pc[Main] \in Stopping, NEW t \in Threads,
           Alone(t), AloneStep(t)
    PROVE  TInv'
<1>1. /\ \A u \in Threads : /\ StoppingOK(u)
                            /\ pc[Main] # "kill" \/ u < i => StoppedOK(u)
      /\ pc'[Main] = pc[Main] /\ pc'[Main] \notin InLines /\ i' = i
  BY DEF TInv, Alone, Stopping, InLines, InLine
<1>2. ASSUME NEW u \in Threads \ {t}
      PROVE  StoppingOK(u)' /\ (StoppedOK(u) => StoppedOK(u)')
  BY <1>1, <1>2 DEF Alone, StoppingOK, StoppedOK
<1>3. StoppingOK(t)' /\ (StoppedOK(t) => StoppedOK(t)')
  <2>1. StoppingOK(t) /\ prognum[t] \notin Tapes
    BY <1>1, TapesAssumption DEF StoppingOK, Idle, Stop
  <2>2. AwaitsT(t) \/ TakesT(t) \/ StopsT(t)
    BY <2>1, AloneStep(t) DEF StoppingOK, AloneStep, BeginsT, SeeksT, UsesT, AwaitsJoinT,
       JoinsT, ThrowsT, EndsT, ReportsT, AtInstr, JoinReturns, Busy, Waiting, Before, Ended
  <2> QED
    BY <2>1, <2>2 DEF StoppingOK, StoppedOK, AwaitsT, TakesT, StopsT, Keeps, Waiting, Ended,
       Stop, Idle
<1> QED
  BY <1>1, <1>2, <1>3 DEF TInv

(* No worker executes a tape while main stops them, nor before the lines.   *)
LEMMA NoRunTape ==
    ASSUME TypeInv, Inv, TInv, NEW t \in Threads, ExecRunTape(t)
    PROVE  pc[Main] \in InLines
<1>1. pc[t] = "exec"
  BY DEF ExecRunTape, AtInstr
<1>2. pc[Main] \notin Starting
  BY <1>1 DEF Inv, StartInv, Before, Waiting
<1>3. pc[Main] \notin Stopping
  BY <1>1 DEF TInv, StoppingOK, Waiting, Ended
<1> QED
  BY <1>2, <1>3 DEF TypeInv, TypeOK, MainPoints, Starting, Stopping, InLines, InLine

LEMMA WorkerKeepsTInv ==
    ASSUME TypeInv, Inv, TInv, CompiledTapes, NEW t \in Threads, WorkerStep(t)
    PROVE  TInv'
<1>1. CASE ExecRunTape(t)
  BY <1>1, NoRunTape, RunTapeKeepsTInv
<1>2. CASE ~ExecRunTape(t)
  <2>1. Alone(t) /\ AloneStep(t)
    BY <1>2, AloneSteps
  <2>2. CASE pc[Main] \in InLines
    BY <2>1, <2>2, AloneKeepsWorkers, AloneKeepsStarted, AloneKeepsJoined
       DEF TInv, Alone, Stopping, InLines, InLine
  <2>3. CASE pc[Main] \in Stopping
    BY <2>1, <2>3, StoppingSteps
  <2>4. CASE pc[Main] \notin InLines \cup Stopping
    BY <2>1, <2>4 DEF TInv, Alone
  <2> QED
    BY <2>2, <2>3, <2>4
<1> QED
  BY <1>1, <1>2

LEMMA UnwindKeepsTInv ==
    ASSUME TypeInv, Inv, TInv, CompiledTapes, NEW p \in Procs, Unwind(p)
    PROVE  TInv'
<1> USE ProcFacts
<1>1. /\ pc[p] \in {"catch", "rethrow"} /\ pc'[p] = "rethrow"
      /\ \A q \in Procs \ {p} : pc'[q] = pc[q]
      /\ UNCHANGED <<info, sync, mainVars, workVars, ghosts>>
  BY DEF Unwind, Purge, Abort, GoTo, TypeInv, TypeOK
<1>2. CASE p = Main
  <2>1. pc[Main] \in InLines /\ pc'[Main] \in InLines /\ pc'[Main] \notin Stopping
        /\ \A t \in Threads : pc'[t] = pc[t]
    BY <1>1, <1>2 DEF InLines, Stopping
  <2> QED
    BY <1>1, <2>1 DEF TInv, WorkerOK, StartedOK, JoinedOK, JoiningOK, Resting, Handed, Taken, Reported,
       TapeReq, Instr, info, sync, mainVars, workVars, ghosts
<1>3. CASE p # Main
  <2>1. p \in Threads
    BY <1>3 DEF Procs
  <2>2. Alone(p) /\ ThrowsT(p)
    BY <1>1, <1>3, <2>1 DEF Alone, ThrowsT, Keeps, Waits, Busy, info, sync, mainVars, workVars, ghosts
  <2>3. AloneStep(p)
    BY <2>2 DEF AloneStep
  <2>4. CASE pc[Main] \in InLines
    BY <2>1, <2>2, <2>3, <2>4, AloneKeepsWorkers, AloneKeepsStarted, AloneKeepsJoined
       DEF TInv, Alone, Stopping, InLines, InLine
  <2>5. CASE pc[Main] \in Stopping
    BY <2>1, <2>2, <2>3, <2>5, StoppingSteps
  <2>6. CASE pc[Main] \notin InLines \cup Stopping
    BY <2>2, <2>6 DEF TInv, Alone
  <2> QED
    BY <2>4, <2>5, <2>6
<1> QED
  BY <1>2, <1>3

-----------------------------------------------------------------------------
(* Main.                                                                    *)
MainFrame ==
    /\ \A t \in Threads : pc'[t] = pc[t] /\ clientWaiters[t] \subseteq clientWaiters'[t]
    /\ UNCHANGED <<prognum, finished, req, current, program, ip, serverWaiters, completed>>

LEMMA MainFrameKeeps ==
    ASSUME MainFrame
    PROVE  /\ \A t \in Threads : WorkerOK(t) => WorkerOK(t)'
           /\ \A t \in Threads : StartedOK(t) => StartedOK(t)'
           /\ JoinedOK => JoinedOK'
           /\ \A t \in Threads : StoppingOK(t) => StoppingOK(t)'
           /\ \A t \in Threads : StoppedOK(t) => StoppedOK(t)'
<1> USE ProcFacts DEF MainFrame
<1>1. \A t \in Threads : WorkerOK(t) => WorkerOK(t)'
  BY DEF WorkerOK
<1>2. \A t \in Threads : StartedOK(t) => StartedOK(t)'
  BY DEF StartedOK, Resting, Handed, Taken, Reported, TapeReq
<1>3. JoinedOK => JoinedOK'
  BY DEF JoinedOK, TapeReq
<1>4. \A t \in Threads : /\ StoppingOK(t) => StoppingOK(t)'
                         /\ StoppedOK(t) => StoppedOK(t)'
  BY DEF StoppingOK, StoppedOK
<1> QED
  BY <1>1, <1>2, <1>3, <1>4

LEMMA MainFrameJoining ==
    ASSUME TypeInv, MainFrame, JoiningOK
    PROVE  JoiningOK'
<1> SUFFICES ASSUME pc[0] = "joinwait"
             PROVE  /\ ip[0] <= Len(Code[program[0]]) /\ Instr(0).op = "join"
                    /\ ~finished[Instr(0).th] => 0 \in clientWaiters'[Instr(0).th]
  BY ProcFacts DEF MainFrame, JoiningOK, Instr
<1>1. ip[0] <= Len(Code[program[0]]) /\ Instr(0).op = "join"
  BY DEF JoiningOK
<1>2. Instr(0).th \in Threads
  BY <1>1, ProcFacts, ProgramFacts, InstrFacts DEF Instr
<1> QED
  BY <1>1, <1>2 DEF JoiningOK, MainFrame

(* When main fetches a line, every worker rests.                            *)
LEMMA AllRest ==
    ASSUME TypeInv, Inv, TInv, CompiledTapes, pc[Main] = "fetch"
    PROVE  \A t \in Threads : Resting(t)
<1>1. \A t \in Threads : ~Target(t) => Resting(t)
  BY DEF Inv, EntryInv, Launched, InLine
<1>2. Resting(0)
  BY <1>1, ProcFacts DEF CompiledTapes
<1>3. \A t \in Threads : Target(t) => StartedOK(t)
  BY DEF TInv, InLines
<1> QED
  BY <1>1, <1>2, <1>3 DEF StartedOK, Resting, Waiting

(* What main hands over goes to a worker that rests.                        *)
LEMMA MainRunTapeFacts ==
    ASSUME TypeInv, Inv, CompiledTapes, MainRunTape
    PROVE  /\ pc[Main] = "run" /\ pc'[Main] \in {"increase", "catch"}
           /\ i \in Threads /\ exec \in DOMAIN Schedule
           /\ Entry.tape \in Tapes /\ (Starter(Entry.tape) => i = 0)
           /\ ~Target(i) /\ Resting(i)
           /\ Handing(i, Entry.tape, LineReq(exec, i))
           /\ \A t \in Threads : pc'[t] = pc[t]
           /\ UNCHANGED <<clientWaiters, program, current, completed, ip>>
<1> USE ProcFacts
<1>1. /\ pc[Main] = "run" /\ exec \in DOMAIN Schedule /\ i \in Threads
      /\ i < Len(Schedule[exec])
  BY DEF MainRunTape, TypeInv, TypeOK, ControlInv
<1>2. ~Target(i)
  BY <1>1, EntryThreads DEF CompiledTapes
<1>3. Resting(i)
  BY <1>1, <1>2 DEF Inv, EntryInv, Launched, InLine
<1>4. Entry.tape \in Tapes /\ (Starter(Entry.tape) => i = 0)
  <2>1. i \in 0 .. Len(Schedule[exec]) - 1
    BY <1>1, LineFacts
  <2> QED
    BY <1>1, <2>1, EntryFacts DEF Entry, CompiledTapes
<1>5. /\ prognum' = [prognum EXCEPT ![i] = Entry.tape]
      /\ finished' = [finished EXCEPT ![i] = FALSE]
      /\ req' = [req EXCEPT ![i] = LineReq(exec, i)]
      /\ SignalServer(i)
      /\ arg' = [arg EXCEPT ![i] = Entry.arg]
      /\ tpos' = [tpos EXCEPT ![i] = pos]
      /\ UNCHANGED <<clientWaiters, program, current, completed, ip>>
  BY DEF MainRunTape, HandOver, workVars
<1>6. Handing(i, Entry.tape, LineReq(exec, i))
  BY <1>1, <1>5 DEF Handing, TypeInv, TypeOK
<1>7. /\ \A t \in Threads : pc'[t] = pc[t]
      /\ pc'[Main] \in {"increase", "catch"}
  BY DEF MainRunTape, GoTo, TypeInv, TypeOK
<1> QED
  BY <1>1, <1>2, <1>3, <1>4, <1>5, <1>6, <1>7

LEMMA MainRunTapeKeepsTInv ==
    ASSUME TypeInv, Inv, TInv, CompiledTapes, MainRunTape
    PROVE  TInv'
<1> USE ProcFacts
<1>f. /\ pc[Main] = "run" /\ pc'[Main] \in {"increase", "catch"}
      /\ i \in Threads /\ ~Target(i) /\ Resting(i)
      /\ \A t \in Threads : pc'[t] = pc[t]
      /\ UNCHANGED <<clientWaiters, program, current, completed, ip>>
  BY MainRunTapeFacts
<1>m. pc[Main] \in InLines /\ pc'[Main] \in InLines /\ pc'[Main] \notin Stopping
  BY <1>f DEF InLines, InLine, Stopping
<1>i. /\ \A u \in Threads : WorkerOK(u)
      /\ \A th \in Threads : Target(th) => StartedOK(th)
      /\ JoinedOK /\ JoiningOK
  BY <1>m DEF TInv
<1>1. PICK ii : ii = i
  OBVIOUS
<1>2. PICK n : n = Entry.tape
  OBVIOUS
<1>3. PICK r : r = LineReq(exec, i)
  OBVIOUS
<1>4. n \in Tapes /\ (Starter(n) => ii = 0)
  BY <1>1, <1>2, MainRunTapeFacts
<1>5. Handing(ii, n, r)
  BY <1>1, <1>2, <1>3, MainRunTapeFacts DEF Handing, SignalServer
<1>6. ASSUME NEW u \in Threads
      PROVE  /\ WorkerOK(u)'
             /\ u # ii => /\ prognum'[u] = prognum[u] /\ finished'[u] = finished[u]
                          /\ req'[u] = req[u]
  BY <1>1, <1>4, <1>5, <1>f, <1>i, HandingFacts
<1>7. \A th \in Threads : Target(th) => StartedOK(th)'
  <2> SUFFICES ASSUME NEW th \in Threads, Target(th) PROVE StartedOK(th)'
    OBVIOUS
  <2>1. StartedOK(th) /\ th # ii
    BY <1>1, <1>f, <1>i
  <2> QED
    BY <2>1, <1>6, <1>f DEF StartedOK, Resting, Handed, Taken, Reported, TapeReq
<1>8. JoinedOK'
  BY <1>f, <1>i DEF JoinedOK, TapeReq
<1>9. JoiningOK'
  <2> SUFFICES ASSUME pc[0] = "joinwait"
               PROVE  /\ ip[0] <= Len(Code[program[0]]) /\ Instr(0).op = "join"
                      /\ ~finished'[Instr(0).th] => 0 \in clientWaiters[Instr(0).th]
    BY <1>f DEF JoiningOK, Instr
  <2>1. ip[0] <= Len(Code[program[0]]) /\ Instr(0).op = "join"
        /\ (~finished[Instr(0).th] => 0 \in clientWaiters[Instr(0).th])
    BY <1>i DEF JoiningOK
  <2>2. Instr(0).th \in Threads /\ Instr(0).th # ii
    <3>1. /\ program[0] \in Tapes /\ ip[0] \in DOMAIN Code[program[0]]
          /\ Instr(0) = Code[program[0]][ip[0]]
      BY <2>1, ProgramFacts, InstrFacts DEF Instr
    <3>2. Instr(0).th \in Threads /\ Target(Instr(0).th)
      BY <2>1, <3>1, CodeAssumption DEF CompiledTapes
    <3> QED
      BY <3>2, <1>1, <1>f
  <2> QED
    BY <2>1, <2>2, <1>6
<1> QED
  BY <1>6, <1>7, <1>8, <1>9, <1>m DEF TInv

LEMMA MainKeepsTInv ==
    ASSUME TypeInv, Inv, TInv, CompiledTapes, MainStep
    PROVE  TInv'
<1> USE ProcFacts
<1>t. TypeOK
  BY DEF TypeInv
<1>1. CASE CreateThread \/ AwaitReady \/ RetryReady
  <2>1. pc'[Main] \in Starting
    BY <1>1, <1>t DEF CreateThread, AwaitReady, RetryReady, GoTo, TypeOK, Starting
  <2> QED
    BY <2>1 DEF TInv, Starting, Stopping, InLines, InLine
<1>2. CASE ThreadReady
  <2>1. /\ pc[Main] = "sync" /\ ready[i] /\ LoopOrLeave(NThreads, "sync", "fetch")
        /\ UNCHANGED <<prognum, finished, serverWaiters>>
    BY <1>2 DEF ThreadReady, info
  <2>2. /\ i \in Threads /\ \A t \in Threads : pc'[t] = pc[t]
        /\ \/ i' = i + 1 /\ pc'[Main] = "sync"
           \/ i' = 0 /\ i + 1 >= NThreads /\ pc'[Main] = "fetch"
    <3>1. NThreads \in 0 .. NThreads /\ "sync" \in MainPoints /\ "fetch" \in MainPoints
      BY ThreadsAssumption DEF MainPoints
    <3>2. i \in Threads
      BY <1>t DEF TypeOK
    <3> QED
      BY <2>1, <1>t, <3>1, <3>2, LoopFacts
  <2>3. CASE pc'[Main] = "sync"
    BY <2>3 DEF TInv, Stopping, InLines, InLine
  <2>4. CASE i + 1 >= NThreads /\ pc'[Main] = "fetch"
    <3>1. \A t \in Threads : t = i \/ t < i
      BY <2>2, <2>4, ThreadsAssumption
    <3>2. \A t \in Threads :
            /\ pc[t] \in Waiting /\ prognum[t] = Idle /\ finished[t]
            /\ pc[t] = "progwait" => t \in serverWaiters[t]
      BY <3>1, <2>1 DEF Inv, StartInv, WaitInv, Starting, Before, Waiting
    <3>3. \A t \in Threads : WorkerOK(t)'
      BY <3>2, <2>1, <2>2 DEF WorkerOK, Busy, Waiting
    <3>4. \A t \in Threads : StartedOK(t)'
      BY <3>2, <2>1, <2>2 DEF StartedOK, Resting, Waiting
    <3>5. JoinedOK' /\ JoiningOK'
      BY <3>2, <2>2 DEF JoinedOK, JoiningOK, Waiting
    <3> QED
      BY <3>3, <3>4, <3>5, <2>4 DEF TInv, Stopping
  <2> QED
    BY <2>2, <2>3, <2>4
<1>3. CASE FetchLine
  <2>1. /\ pc[Main] = "fetch" /\ pc'[Main] \in {"run", "kill"} /\ MainFrame
    BY <1>3, <1>t DEF FetchLine, GoTo, TypeOK, info, sync, ghosts, workVars, MainFrame
  <2>2. /\ \A t \in Threads : WorkerOK(t) /\ (Target(t) => StartedOK(t))
        /\ JoinedOK /\ JoiningOK
    BY <2>1 DEF TInv, InLines
  <2>3. CASE pc'[Main] = "run"
    BY <2>1, <2>2, <2>3, MainFrameKeeps, MainFrameJoining DEF TInv, Stopping
  <2>4. CASE pc'[Main] = "kill"
    <3>1. \A t \in Threads : StoppingOK(t)
      BY <2>1, <2>2, AllRest DEF StoppingOK, Resting, WorkerOK
    <3>2. i' = 0
      BY <1>3 DEF FetchLine
    <3>3. \A t \in Threads : ~(t < i')
      BY <3>2
    <3> QED
      BY <2>1, <2>4, <3>1, <3>3, MainFrameKeeps DEF TInv, InLines, InLine
  <2> QED
    BY <2>1, <2>3, <2>4
<1>4. CASE MainRunTape
  BY <1>4, MainRunTapeKeepsTInv
<1>5. CASE IncreasePos \/ MainJoinWait \/ MainJoined \/ EndLine
  <2>1. /\ pc[Main] \in InLine /\ pc'[Main] \in InLine \cup {"fetch"} /\ MainFrame
    BY <1>5, <1>t DEF IncreasePos, MainJoinWait, MainJoined, EndLine, JoinReturns, WaitClient,
       LoopOrLeave, GoTo, TypeOK, info, sync, ghosts, workVars, mainVars, MainFrame, InLine
  <2>2. /\ \A t \in Threads : WorkerOK(t) /\ (Target(t) => StartedOK(t))
        /\ JoinedOK /\ JoiningOK
    BY <2>1 DEF TInv, InLines
  <2> QED
    BY <2>1, <2>2, MainFrameKeeps, MainFrameJoining DEF TInv, InLine, Stopping
<1>6. CASE KillThread \/ ReleaseThread
  <2>1. PICK ii : ii = i
    OBVIOUS
  <2>2. /\ ii \in Threads /\ pc[Main] \in Stopping
        /\ \A t \in Threads : pc'[t] = pc[t]
        /\ SignalServer(i) /\ TypeOK
    BY <1>6, <1>t, <2>1 DEF KillThread, ReleaseThread, LoopOrLeave, GoTo, TypeOK, Stopping
  <2>3. \A t \in Threads \ {ii} : serverWaiters'[t] = serverWaiters[t]
    BY <2>1, <2>2 DEF SignalServer, Signal, TypeOK
  <2>4. \A t \in Threads : StoppingOK(t) /\ (pc[Main] # "kill" \/ t < i => StoppedOK(t))
    BY <2>2 DEF TInv
  <2>5. CASE KillThread
    <3>1. /\ pc[Main] = "kill" /\ prognum' = [prognum EXCEPT ![i] = Stop]
          /\ \/ i' = i + 1 /\ pc'[Main] = "kill"
             \/ i' = 0 /\ i + 1 >= NThreads /\ pc'[Main] = "release"
      <4>1. LoopOrLeave(NThreads, "kill", "release")
        BY <2>5 DEF KillThread
      <4>2. NThreads \in 0 .. NThreads /\ "kill" \in MainPoints /\ "release" \in MainPoints
        BY ThreadsAssumption DEF MainPoints
      <4> QED
        BY <2>5, <1>t, <4>1, <4>2, LoopFacts DEF KillThread
    <3>2. ASSUME NEW t \in Threads
          PROVE  StoppingOK(t)' /\ (t <= i => StoppedOK(t)')
      <4>1. CASE t = ii
        <5>1. prognum'[t] = Stop /\ Stop # Idle
          BY <2>1, <2>2, <3>1, <4>1 DEF TypeOK, Stop, Idle
        <5> QED
          BY <2>2, <2>4, <5>1 DEF StoppingOK, StoppedOK
      <4>2. CASE t # ii
        <5>1. prognum'[t] = prognum[t] /\ serverWaiters'[t] = serverWaiters[t]
          BY <2>1, <2>2, <2>3, <3>1, <4>2 DEF TypeOK
        <5>2. t <= i => t < i
          BY <2>1, <2>2, <4>2
        <5> QED
          BY <2>2, <2>4, <5>1, <5>2 DEF StoppingOK, StoppedOK
      <4> QED
        BY <4>1, <4>2
    <3>3. \A t \in Threads : pc'[Main] # "kill" \/ t < i' => t <= i
      BY <2>1, <2>2, <3>1, ThreadsAssumption
    <3> QED
      BY <3>1, <3>2, <3>3 DEF TInv, InLines, InLine
  <2>6. CASE ReleaseThread
    <3>1. /\ pc[Main] = "release" /\ pc'[Main] = "pthreadjoin" /\ prognum' = prognum
      BY <2>6, <1>t DEF ReleaseThread, GoTo, TypeOK
    <3>2. ASSUME NEW t \in Threads PROVE StoppingOK(t)' /\ StoppedOK(t)'
      <4>1. StoppingOK(t) /\ StoppedOK(t)
        BY <2>4, <3>1
      <4>2. ~(pc[t] = "progwait" /\ prognum[t] = Idle)
        BY <4>1 DEF StoppedOK, Ended, Stop, Idle
      <4> QED
        BY <2>2, <3>1, <4>1, <4>2 DEF StoppingOK, StoppedOK
    <3> QED
      BY <3>1, <3>2 DEF TInv, InLines, InLine
  <2> QED
    BY <1>6, <2>5, <2>6
<1>7. CASE PthreadJoin \/ SeekAndPrune
  <2>1. /\ pc[Main] \in Stopping \ {"kill"} /\ pc'[Main] \in Stopping \ {"kill"} /\ MainFrame
    BY <1>7, <1>t DEF PthreadJoin, SeekAndPrune, LoopOrLeave, GoTo, TypeOK, info, sync, ghosts,
       workVars, MainFrame, Stopping
  <2>2. \A t \in Threads : StoppingOK(t) /\ StoppedOK(t)
    BY <2>1 DEF TInv
  <2> QED
    BY <2>1, <2>2, MainFrameKeeps DEF TInv, Stopping, InLines, InLine
<1> QED
  BY <1>1, <1>2, <1>3, <1>4, <1>5, <1>6, <1>7 DEF MainStep

-----------------------------------------------------------------------------
LEMMA TInvInit == Init => TInv
BY ProcFacts DEF Init, TInv, InLines, InLine, Stopping

LEMMA TInvStep ==
    ASSUME TypeInv, Inv, TInv, CompiledTapes, ~SpuriousWakeups, [Next]_vars
    PROVE  TInv'
<1>1. CASE MainStep
  BY <1>1, MainKeepsTInv
<1>2. ASSUME NEW t \in Threads, WorkerStep(t) PROVE TInv'
  BY <1>2, WorkerKeepsTInv
<1>3. ASSUME NEW t \in Threads, SpuriousWakeup(t) PROVE TInv'
  BY <1>3 DEF SpuriousWakeup
<1>4. ASSUME NEW p \in Procs, Unwind(p) PROVE TInv'
  BY <1>4, UnwindKeepsTInv
<1>5. CASE UNCHANGED vars
  <2>1. pc' = pc /\ i' = i /\ MainFrame /\ ip' = ip /\ program' = program
        /\ UNCHANGED <<finished, clientWaiters>>
    BY <1>5 DEF vars, info, sync, mainVars, workVars, ghosts, MainFrame
  <2>2. JoiningOK => JoiningOK'
    BY <2>1 DEF JoiningOK, Instr
  <2> QED
    BY <2>1, <2>2, MainFrameKeeps DEF TInv
<1> QED
  BY <1>1, <1>2, <1>3, <1>4, <1>5 DEF Next, Step

LEMMA TapesInvariant ==
    ASSUME CompiledTapes, ~SpuriousWakeups
    PROVE  Spec => [](TypeInv /\ Inv /\ TInv)
<1>1. Init => TypeInv /\ Inv /\ TInv
  BY TypeInvInit, InvInit, TInvInit
<1>2. TypeInv /\ Inv /\ TInv /\ [Next]_vars => (TypeInv /\ Inv /\ TInv)'
  BY TypeInvStep, InvStep, TInvStep DEF CompiledTapes
<1> QED
  BY <1>1, <1>2, PTL DEF Spec

-----------------------------------------------------------------------------
(* What is handed to a worker, and when.                                    *)
LEMMA TapeSteps ==
    ASSUME TypeInv, Inv, TInv, CompiledTapes, ~SpuriousWakeups, [Next]_vars,
           NEW t \in Threads
    PROVE  /\ prognum[t] \in Tapes /\ prognum'[t] # prognum[t] =>
                 prognum'[t] = Idle /\ program'[t] = prognum[t]
           /\ pc[t] = "seek" => tpos'[t] = tpos[t] /\ arg'[t] = arg[t]
<1> USE ProcFacts
<1>t. TypeOK
  BY DEF TypeInv
<1>s. ASSUME UNCHANGED <<prognum, tpos, arg>>
      PROVE  /\ prognum'[t] = prognum[t] /\ tpos'[t] = tpos[t] /\ arg'[t] = arg[t]
  BY <1>s
<1>r. ASSUME Resting(t) PROVE prognum[t] \notin Tapes /\ pc[t] # "seek"
  BY <1>r, TapesAssumption DEF Resting, Waiting, Idle
<1>1. CASE MainStep
  <2>1. CASE MainRunTape
    <3>1. Resting(i) /\ Handing(i, Entry.tape, LineReq(exec, i)) /\ i \in Threads
      BY <2>1, MainRunTapeFacts
    <3>2. t # i => prognum'[t] = prognum[t] /\ tpos'[t] = tpos[t] /\ arg'[t] = arg[t]
      BY <3>1, <1>t DEF Handing, TypeOK
    <3> QED
      BY <3>1, <3>2, <1>r
  <2>2. CASE KillThread
    <3>1. /\ pc[Main] = "kill" /\ prognum' = [prognum EXCEPT ![i] = Stop]
          /\ UNCHANGED <<arg, tpos>> /\ i \in Threads
      BY <2>2, <1>t DEF KillThread, TypeOK
    <3>2. prognum[t] \notin Tapes
      BY <3>1, TapesAssumption DEF TInv, Stopping, StoppingOK, Idle, Stop
    <3> QED
      BY <3>1, <3>2
  <2>3. CASE ~MainRunTape /\ ~KillThread
    <3>1. UNCHANGED <<prognum, tpos, arg>>
      BY <1>1, <2>3 DEF MainStep, CreateThread, AwaitReady, RetryReady, ThreadReady, FetchLine,
         IncreasePos, MainJoinWait, MainJoined, EndLine, ReleaseThread, PthreadJoin,
         SeekAndPrune, info
    <3> QED
      BY <3>1, <1>s
  <2> QED
    BY <2>1, <2>2, <2>3
<1>2. ASSUME NEW u \in Threads, WorkerStep(u)
      PROVE  /\ prognum[t] \in Tapes /\ prognum'[t] # prognum[t] =>
                   prognum'[t] = Idle /\ program'[t] = prognum[t]
             /\ pc[t] = "seek" => tpos'[t] = tpos[t] /\ arg'[t] = arg[t]
  <2>1. CASE ExecRunTape(u)
    <3>1. pc[Main] \in InLines
      BY <2>1, NoRunTape
    <3>2. \/ UNCHANGED <<prognum, tpos, arg>>
          \/ /\ Instr(0).th \in Threads /\ Resting(Instr(0).th)
             /\ Handing(Instr(0).th, Instr(0).tape, TapeReq(0, ip[0], current[0]))
      BY <2>1, <3>1, RunTapeFacts
    <3>3. CASE UNCHANGED <<prognum, tpos, arg>>
      BY <3>3, <1>s
    <3>4. CASE /\ Instr(0).th \in Threads /\ Resting(Instr(0).th)
               /\ Handing(Instr(0).th, Instr(0).tape, TapeReq(0, ip[0], current[0]))
      <4>1. t # Instr(0).th => prognum'[t] = prognum[t] /\ tpos'[t] = tpos[t] /\ arg'[t] = arg[t]
        BY <3>4, <1>t DEF Handing, TypeOK
      <4> QED
        BY <4>1, <3>4, <1>r
    <3> QED
      BY <3>2, <3>3, <3>4
  <2>2. CASE ~ExecRunTape(u)
    <3>1. Alone(u) /\ AloneStep(u)
      BY <1>2, <2>2, AloneSteps
    <3>2. CASE t # u
      BY <3>1, <3>2 DEF Alone
    <3>3. CASE t = u
      <4>1. pc[t] = "seek" => tpos'[t] = tpos[t] /\ arg'[t] = arg[t]
        BY <3>1, <3>3 DEF Alone
      <4>2. \/ prognum'[t] = prognum[t]
            \/ prognum'[t] = Idle /\ program'[t] = prognum[t]
        BY <3>1, <3>3 DEF AloneStep, BeginsT, AwaitsT, TakesT, SeeksT, UsesT, AwaitsJoinT,
           JoinsT, ThrowsT, EndsT, ReportsT, StopsT, Keeps
      <4> QED
        BY <4>1, <4>2
    <3> QED
      BY <3>2, <3>3
  <2> QED
    BY <2>1, <2>2
<1>3. ASSUME NEW u \in Threads, SpuriousWakeup(u) PROVE FALSE
  BY <1>3 DEF SpuriousWakeup
<1>4. ASSUME NEW p \in Procs, Unwind(p) PROVE UNCHANGED <<prognum, tpos, arg>>
  BY <1>4 DEF Unwind, Purge, Abort, info
<1>5. CASE UNCHANGED vars
  <2>1. UNCHANGED <<prognum, tpos, arg>>
    BY <1>5 DEF vars, info
  <2> QED
    BY <2>1, <1>s
<1> QED
  BY <1>s, <1>1, <1>2, <1>3, <1>4, <1>5 DEF Next, Step

(* A worker that has taken a tape: main is in the lines, and the request is  *)
(* still the one handed over.                                                *)
LEMMA TakenUndisturbed ==
    ASSUME TypeInv, Inv, TInv, NEW t \in Threads, pc[t] \in {"seek", "exec"}
    PROVE  pc[Main] \in InLines /\ req[t] = current[t]
<1> USE ProcFacts
<1>1. pc[Main] \notin Starting
  BY DEF Inv, StartInv, Before, Waiting
<1>2. pc[Main] \notin Stopping
  BY DEF TInv, StoppingOK, Waiting, Ended
<1>3. pc[Main] \in InLines
  BY <1>1, <1>2 DEF TypeInv, TypeOK, MainPoints, Starting, Stopping, InLines, InLine
<1> QED
  BY <1>3 DEF TInv, WorkerOK, Busy

(* A worker never goes further than one instruction past its tape, and only *)
(* waits at a JOIN_TAPE.                                                    *)
IpInv ==
    \A t \in Threads :
        /\ pc[t] = "exec" => ip[t] <= Len(Code[program[t]]) + 1
        /\ pc[t] = "joinwait" => ip[t] <= Len(Code[program[t]]) /\ Instr(t).op = "join"

LEMMA IpInvStep == TypeInv /\ IpInv /\ [Next]_vars => IpInv'
<1> SUFFICES ASSUME TypeInv, IpInv, [Next]_vars PROVE IpInv'
  OBVIOUS
<1> USE ProcFacts
<1>s. ASSUME \A t \in Threads :
                pc'[t] = pc[t] /\ ip'[t] = ip[t] /\ program'[t] = program[t]
      PROVE  IpInv'
  BY <1>s DEF IpInv, Instr
<1>1. CASE MainStep
  <2>1. \A t \in Threads : pc[t] \notin {"exec", "joinwait"} => pc'[t] \notin {"exec", "joinwait"}
    BY <1>1 DEF MainStep, CreateThread, AwaitReady, RetryReady, ThreadReady, FetchLine,
       MainRunTape, IncreasePos, MainJoinWait, MainJoined, EndLine, KillThread,
       ReleaseThread, PthreadJoin, SeekAndPrune, LoopOrLeave, GoTo, TypeInv, TypeOK
  <2>2. \A t \in Threads : pc'[t] = pc[t] \/ pc'[t] = "setup"
    BY <1>1 DEF MainStep, CreateThread, AwaitReady, RetryReady, ThreadReady, FetchLine,
       MainRunTape, IncreasePos, MainJoinWait, MainJoined, EndLine, KillThread,
       ReleaseThread, PthreadJoin, SeekAndPrune, LoopOrLeave, GoTo, TypeInv, TypeOK
  <2>3. UNCHANGED <<ip, program>>
    BY <1>1 DEF MainStep, CreateThread, AwaitReady, RetryReady, ThreadReady, FetchLine,
       MainRunTape, IncreasePos, MainJoinWait, MainJoined, EndLine, KillThread,
       ReleaseThread, PthreadJoin, SeekAndPrune, workVars
  <2> QED
    BY <2>2, <2>3 DEF IpInv, Instr
<1>2. ASSUME NEW t \in Threads, WorkerStep(t) PROVE IpInv'
  <2>0. /\ pc[t] \in {"exec", "joinwait"} =>
              /\ program[t] \in Tapes /\ ip[t] \in Nat
              /\ Len(Code[program[t]]) \in Nat
        /\ pc[t] = "seek" => Len(Code[program[t]]) \in Nat
    <3>1. \A n \in Tapes : Len(Code[n]) \in Nat
      BY CodeAssumption
    <3>2. pc[t] = "seek" => program[t] \in Tapes
      BY DEF TypeInv, ControlInv
    <3> QED
      BY <3>1, <3>2, ProgramFacts
  <2>1. ASSUME NEW u \in Threads \ {t}
        PROVE  pc'[u] = pc[u] /\ ip'[u] = ip[u] /\ program'[u] = program[u]
    <3>1. CASE ExecRunTape(t)
      BY <3>1 DEF ExecRunTape, GoTo, NextInstr, TypeInv, TypeOK
    <3>2. CASE ~ExecRunTape(t)
      BY <1>2, <3>2, AloneSteps DEF Alone
    <3> QED
      BY <3>1, <3>2
  <2>2. /\ pc'[t] = "exec" => ip'[t] <= Len(Code[program'[t]]) + 1
        /\ pc'[t] = "joinwait" =>
              ip'[t] <= Len(Code[program'[t]]) /\ Code[program'[t]][ip'[t]].op = "join"
    <3>1. CASE ExecRunTape(t)
      <4>1. /\ pc[t] = "exec" /\ ip[t] <= Len(Code[program[t]]) /\ program' = program
            /\ (GoTo(t, "catch") /\ ip' = ip) \/ (pc' = pc /\ NextInstr(t))
        BY <3>1 DEF ExecRunTape, AtInstr
      <4> QED
        BY SMTT(20), <4>1, <2>0 DEF GoTo, NextInstr, TypeInv, TypeOK
    <3>2. CASE ~ExecRunTape(t)
      <4>1. AloneStep(t)
        BY <1>2, <3>2, AloneSteps
      <4>2. \/ pc'[t] \notin {"exec", "joinwait"}
            \/ BeginsT(t) \/ SeeksT(t) \/ UsesT(t) \/ AwaitsJoinT(t) \/ JoinsT(t) \/ TakesT(t)
        BY <4>1 DEF AloneStep, AwaitsT, ThrowsT, EndsT, ReportsT, StopsT, Ended
      <4>3. CASE BeginsT(t) \/ TakesT(t)
        <5>1. pc'[t] \notin {"exec", "joinwait"}
          BY <1>2, <4>3 DEF BeginsT, TakesT, Before, WorkerStep, SetupDone, AnnounceReady,
             AwaitProgram, TakeProgram, ResetAndSeek, UseData, ExecRunTape, ExecJoinWait,
             ExecJoined, ExecCrash, EndProgram, FinishProgram, AwaitRelease, ExitThread,
             AtInstr, JoinReturns, GoTo, TypeInv, TypeOK
        <5> QED
          BY <5>1
      <4>4. CASE SeeksT(t)
        BY <4>4, <2>0 DEF SeeksT, Keeps
      <4>5. CASE UsesT(t)
        BY <4>5, <2>0 DEF UsesT, AtInstr, Keeps
      <4>6. CASE AwaitsJoinT(t)
        BY <4>6, <2>0 DEF AwaitsJoinT, AtInstr, Keeps, Instr
      <4>7. CASE JoinsT(t)
        <5>1. ip[t] <= Len(Code[program[t]]) /\ pc[t] \in {"exec", "joinwait"}
          BY <4>7 DEF JoinsT, AtInstr, JoinReturns, IpInv
        <5> QED
          BY <4>7, <5>1, <2>0 DEF JoinsT, Keeps
      <4> QED
        BY <4>2, <4>3, <4>4, <4>5, <4>6, <4>7
    <3> QED
      BY <3>1, <3>2
  <2> QED
    BY <2>1, <2>2 DEF IpInv, Instr
<1>3. ASSUME NEW t \in Threads, SpuriousWakeup(t) PROVE IpInv'
  BY <1>3, <1>s DEF SpuriousWakeup, workVars
<1>4. ASSUME NEW p \in Procs, Unwind(p) PROVE IpInv'
  BY <1>4 DEF Unwind, Purge, Abort, GoTo, workVars, TypeInv, TypeOK, IpInv, Instr
<1>5. CASE UNCHANGED vars
  BY <1>5, <1>s DEF vars, workVars
<1> QED
  BY <1>1, <1>2, <1>3, <1>4, <1>5 DEF Next, Step

(* Unless a wait returns without a signal, no tape handed to a worker is     *)
(* overwritten before the worker takes it, by main, by a tape that starts    *)
(* others as the compiler writes it, or by the stop signal at the end.       *)
THEOREM TapesNotOverwritten ==
    ASSUME CompiledTapes, ~SpuriousWakeups
    PROVE  Spec => NoTapeOverwritten
<1>1. TypeInv /\ Inv /\ TInv /\ [Next]_vars =>
        [\A t \in Threads :
           prognum[t] \in Tapes /\ prognum'[t] # prognum[t] =>
              prognum'[t] = Idle /\ program'[t] = prognum[t]]_vars
  BY TapeSteps
<1> QED
  BY <1>1, TapesInvariant, PTL DEF Spec, NoTapeOverwritten

(* ... and the argument and the position that the worker reads after it has  *)
(* released the mutex are still those of the tape it took.                   *)
THEOREM ParametersKept ==
    ASSUME CompiledTapes, ~SpuriousWakeups
    PROVE  Spec => ParametersStable
<1>1. TypeInv /\ Inv /\ TInv /\ [Next]_vars =>
        [\A t \in Threads : pc[t] = "seek" =>
           req[t] = current[t] /\ tpos'[t] = tpos[t] /\ arg'[t] = arg[t]]_vars
  BY TapeSteps, TakenUndisturbed
<1> QED
  BY <1>1, TapesInvariant, PTL DEF Spec, ParametersStable

(* ... and a tape that has executed JOIN_TAPE finds every tape that it       *)
(* started on that thread before finished.                                   *)
THEOREM StartedTapesJoined ==
    ASSUME CompiledTapes, ~SpuriousWakeups
    PROVE  Spec => []TapesJoined
<1>0. Init => IpInv
  BY ProcFacts DEF Init, IpInv
<1>1. ASSUME TypeInv, Inv, TInv, IpInv PROVE TapesJoined
  <2> SUFFICES ASSUME NEW t \in Threads, pc[t] = "exec",
                      NEW k \in 1 .. ip[t] - 1, Code[program[t]][k].op = "join",
                      NEW j \in 1 .. k - 1, Starts(program[t], j, Code[program[t]][k].th)
               PROVE  TapeReq(t, j, current[t]) \in completed
    BY DEF TapesJoined
  <2>1. pc[Main] \in InLines
    BY <1>1, TakenUndisturbed
  <2>2. WorkerOK(t) /\ JoinedOK
    BY <1>1, <2>1 DEF TInv
  <2>3. k \in DOMAIN Code[program[t]]
    <3>1. /\ program[t] \in Tapes /\ ip[t] \in Nat /\ Len(Code[program[t]]) \in Nat
          /\ ip[t] <= Len(Code[program[t]]) + 1
      BY <1>1, ProgramFacts DEF IpInv
    <3>2. k \in Nat /\ k >= 1 /\ k <= Len(Code[program[t]])
      BY <3>1
    <3> QED
      BY <3>1, <3>2, InstrFacts
  <2>4. t = 0
    BY <2>2, <2>3 DEF WorkerOK, Starter, Busy
  <2> QED
    BY <2>2, <2>4 DEF JoinedOK
<1> QED
  BY <1>0, <1>1, IpInvStep, TapesInvariant, PTL DEF Spec

-----------------------------------------------------------------------------
(* The requests: a worker that no RUN_TAPE targets is only given its entry  *)
(* of the current line.                                                     *)
RequestOf(t, r) ==
    IF Target(t)
    THEN \E j, q : r = TapeReq(0, j, q)
    ELSE exec \in DOMAIN Schedule /\ t < Len(Schedule[exec]) /\ r = LineReq(exec, t)
RequestOK(t) ==
    /\ prognum[t] \in Tapes => RequestOf(t, req[t])
    /\ pc[t] \in Busy => RequestOf(t, current[t])
RequestInv == pc[Main] \in InLines => \A t \in Threads : RequestOK(t)

LEMMA RequestKept ==
    ASSUME NEW t \in Threads, RequestOK(t), exec' = exec,
           prognum'[t] \in Tapes => prognum[t] \in Tapes /\ req'[t] = req[t],
           \/ pc'[t] \in Busy => pc[t] \in Busy /\ current'[t] = current[t]
           \/ prognum[t] \in Tapes /\ current'[t] = req[t]
    PROVE  RequestOK(t)'
BY DEF RequestOK, RequestOf, LineReq, TapeReq

LEMMA RequestGiven ==
    ASSUME TypeInv, NEW th \in Threads, NEW n, NEW r, Handing(th, n, r), RequestOf(th, r),
           \A t \in Threads : RequestOK(t), exec' = exec, current' = current,
           \A t \in Threads : pc'[t] \in Busy => pc[t] \in Busy
    PROVE  \A t \in Threads : RequestOK(t)'
<1> SUFFICES ASSUME NEW t \in Threads PROVE RequestOK(t)'
  OBVIOUS
<1>1. /\ req'[th] = r
      /\ t # th => prognum'[t] = prognum[t] /\ req'[t] = req[t]
  BY DEF Handing, TypeInv, TypeOK, ControlInv
<1>2. CASE t # th
  BY <1>1, <1>2, RequestKept
<1>3. CASE t = th
  <2>1. RequestOf(t, req[t])' <=> RequestOf(t, r)
    BY <1>1, <1>3 DEF RequestOf, LineReq, TapeReq
  <2>2. pc'[t] \in Busy => RequestOf(t, current[t])'
    BY DEF RequestOK, RequestOf, LineReq, TapeReq
  <2> QED
    BY <1>3, <2>1, <2>2 DEF RequestOK
<1> QED
  BY <1>2, <1>3

LEMMA RequestStep ==
    ASSUME TypeInv, Inv, TInv, RequestInv, CompiledTapes, ~SpuriousWakeups, [Next]_vars
    PROVE  RequestInv'
<1> USE ProcFacts
<1>t. TypeOK
  BY DEF TypeInv
<1> SUFFICES ASSUME pc'[Main] \in InLines, NEW t \in Threads
             PROVE  RequestOK(t)'
  BY DEF RequestInv
<1>1. CASE MainStep
  <2>1. CASE pc[Main] \in Starting
    <3>1. pc[Main] = "sync" /\ pc'[Main] = "fetch" /\ ThreadReady
      BY <1>1, <2>1, <1>t DEF MainStep, CreateThread, AwaitReady, RetryReady, ThreadReady,
         FetchLine, MainRunTape, IncreasePos, MainJoinWait, MainJoined, EndLine, KillThread,
         ReleaseThread, PthreadJoin, SeekAndPrune, JoinReturns, LoopOrLeave, GoTo, TypeOK,
         Starting, InLines, InLine
    <3>2. /\ prognum' = prognum /\ pc'[t] = pc[t]
      BY <3>1, <1>t DEF ThreadReady, info, LoopOrLeave, GoTo, TypeOK
    <3>3. prognum[t] = Idle /\ pc[t] \notin Busy
      BY <2>1 DEF Inv, StartInv, Before, Waiting, Busy
    <3> QED
      BY <3>2, <3>3, TapesAssumption DEF RequestOK, Idle
  <2>2. CASE pc[Main] \notin Starting
    <3>1. pc[Main] \in InLines /\ ~KillThread
      BY <1>1, <2>2, <1>t DEF MainStep, CreateThread, AwaitReady, RetryReady, ThreadReady,
         FetchLine, MainRunTape, IncreasePos, MainJoinWait, MainJoined, EndLine, KillThread,
         ReleaseThread, PthreadJoin, SeekAndPrune, JoinReturns, LoopOrLeave, GoTo, TypeOK,
         Starting, InLines, InLine
    <3>2. \A u \in Threads : RequestOK(u)
      BY <3>1 DEF RequestInv
    <3>3. CASE MainRunTape
      <4>1. PICK ii : ii = i
        OBVIOUS
      <4>2. PICK n : n = Entry.tape
        OBVIOUS
      <4>3. PICK r : r = LineReq(exec, i)
        OBVIOUS
      <4>4. /\ ii \in Threads /\ Handing(ii, n, r) /\ current' = current
            /\ \A u \in Threads : pc'[u] = pc[u]
        BY <3>3, <4>1, <4>2, <4>3, MainRunTapeFacts DEF Handing, SignalServer
      <4>5. exec' = exec
        BY <3>3 DEF MainRunTape
      <4>6. RequestOf(ii, r)
        <5>1. ~Target(i) /\ exec \in DOMAIN Schedule /\ i < Len(Schedule[exec])
          BY <3>3, MainRunTapeFacts DEF TypeInv, ControlInv
        <5> QED
          BY <5>1, <4>1, <4>3 DEF RequestOf
      <4> QED
        BY <3>2, <4>4, <4>5, <4>6, RequestGiven
    <3>4. CASE EndLine
      <4>1. /\ pc[Main] = "lineend" /\ prognum' = prognum /\ req' = req /\ current' = current
            /\ pc'[t] = pc[t]
        BY <3>4, <1>t DEF EndLine, GoTo, TypeOK, info, ghosts
      <4>2. CASE Target(t)
        BY <3>2, <4>1, <4>2 DEF RequestOK, RequestOf, TapeReq
      <4>3. CASE ~Target(t)
        <5>1. Resting(t)
          BY <4>1, <4>3 DEF Inv, EntryInv, JoinInv, Launched, Pending, Running, Finished,
             Resting, InLine
        <5> QED
          BY <4>1, <5>1, TapesAssumption DEF RequestOK, Resting, Waiting, Busy, Idle
      <4> QED
        BY <4>2, <4>3
    <3>5. CASE ~MainRunTape /\ ~EndLine
      <4>1. pc'[t] = pc[t] /\ UNCHANGED <<prognum, req, current, exec>>
        BY <1>1, <2>2, <3>1, <3>5, <1>t DEF MainStep, CreateThread, AwaitReady, RetryReady, ThreadReady,
         FetchLine, IncreasePos, MainJoinWait, MainJoined, KillThread,
         ReleaseThread, PthreadJoin, SeekAndPrune, JoinReturns, LoopOrLeave, GoTo, TypeOK,
         Starting, InLines, InLine, info, ghosts, mainVars
      <4> QED
        BY <3>2, <4>1, RequestKept
    <3> QED
      BY <3>3, <3>4, <3>5
  <2> QED
    BY <2>1, <2>2
<1>2. ASSUME NEW u \in Threads, WorkerStep(u) PROVE RequestOK(t)'
  <2>1. exec' = exec /\ pc[Main] \in InLines
    BY <1>2, WorkerSteps DEF WorkerFrame
  <2>2. \A w \in Threads : RequestOK(w) /\ WorkerOK(w)
    BY <2>1 DEF RequestInv, TInv
  <2>3. CASE ExecRunTape(u)
    <3>1. /\ u = 0 /\ UNCHANGED <<clientWaiters, program, current, completed>>
          /\ \A w \in Threads : pc'[w] \in Busy => pc[w] \in Busy
      BY <2>1, <2>3, RunTapeFacts DEF Busy
    <3>2. CASE UNCHANGED <<prognum, finished, req, serverWaiters, tpos, arg>>
      BY <2>1, <2>2, <3>1, <3>2, RequestKept
    <3>3. CASE /\ Instr(0).th \in Threads /\ Target(Instr(0).th)
               /\ Handing(Instr(0).th, Instr(0).tape, TapeReq(0, ip[0], current[0]))
      <4>1. PICK th : th = Instr(0).th
        OBVIOUS
      <4>2. PICK n : n = Instr(0).tape
        OBVIOUS
      <4>3. PICK r : r = TapeReq(0, ip[0], current[0])
        OBVIOUS
      <4>4. th \in Threads /\ Handing(th, n, r)
        BY <3>3, <4>1, <4>2, <4>3 DEF Handing, SignalServer
      <4>5. RequestOf(th, r)
        BY <3>3, <4>1, <4>3 DEF RequestOf
      <4> QED
        BY <2>1, <2>2, <3>1, <4>4, <4>5, RequestGiven
    <3> QED
      BY <2>1, <2>3, <3>2, <3>3, RunTapeFacts
  <2>4. CASE ~ExecRunTape(u)
    <3>1. Alone(u) /\ AloneStep(u)
      BY <1>2, <2>4, AloneSteps
    <3>2. CASE t # u
      BY <2>1, <2>2, <3>1, <3>2, RequestKept DEF Alone
    <3>3. CASE t = u
      <4>1. req'[t] = req[t]
        BY <3>1, <3>3 DEF Alone
      <4>2. CASE TakesT(t)
        <5>1. prognum[t] \in Tapes
          BY <2>2, <4>2 DEF TakesT, WorkerOK
        <5>2. prognum'[t] \notin Tapes /\ current'[t] = req[t]
          BY <4>2, TapesAssumption DEF TakesT, Idle
        <5> QED
          BY <2>1, <2>2, <5>1, <5>2, RequestKept
      <4>3. CASE ~TakesT(t)
        <5>0. WorkerOK(t)
          BY <2>2
        <5>1. Keeps(t) /\ (pc'[t] \in Busy => pc[t] \in Busy)
          BY <5>0, <3>1, <3>3, <4>3 DEF WorkerOK, AloneStep, BeginsT, AwaitsT, SeeksT, UsesT,
             AwaitsJoinT, JoinsT, ThrowsT, EndsT, ReportsT, StopsT, AtInstr, JoinReturns,
             Busy, Waiting, Before, Ended
        <5> QED
          BY <2>1, <2>2, <4>1, <5>1, RequestKept DEF Keeps
      <4> QED
        BY <4>2, <4>3
    <3> QED
      BY <3>2, <3>3
  <2> QED
    BY <2>3, <2>4
<1>3. ASSUME NEW u \in Threads, SpuriousWakeup(u) PROVE FALSE
  BY <1>3 DEF SpuriousWakeup
<1>4. ASSUME NEW p \in Procs, Unwind(p) PROVE RequestOK(t)'
  <2>1. /\ pc[Main] \in InLines /\ UNCHANGED <<prognum, req, current, exec>>
        /\ pc'[t] \in Busy => pc[t] \in Busy
    BY <1>4, <1>t DEF Unwind, Purge, Abort, GoTo, info, ghosts, mainVars, TypeOK, Busy,
       InLines, InLine
  <2>2. RequestOK(t)
    BY <2>1 DEF RequestInv
  <2> QED
    BY <2>1, <2>2, RequestKept
<1>5. CASE UNCHANGED vars
  <2>1. pc' = pc /\ UNCHANGED <<prognum, req, current, exec>>
    BY <1>5 DEF vars, info, ghosts, mainVars
  <2>2. RequestOK(t)
    BY <2>1 DEF RequestInv
  <2> QED
    BY <2>1, <2>2, RequestKept
<1> QED
  BY <1>1, <1>2, <1>3, <1>4, <1>5 DEF Next, Step

-----------------------------------------------------------------------------
(* Machine::run executes the lines as ForkJoin says.                        *)

LEMMA DoneSame ==
    ASSUME UNCHANGED <<exec, completed>>
    PROVE  UNCHANGED <<exec, LineEntriesDone>>
BY DEF LineEntriesDone, LineReq

LEMMA ReportIsExecute ==
    ASSUME exec' = exec, NEW t \in Threads, NEW r, RequestOf(t, r),
           completed' = completed \cup {r}
    PROVE  FJ!Execute \/ UNCHANGED <<exec, LineEntriesDone>>
<1> USE ProcFacts
<1>1. CASE Target(t)
  <2>1. PICK j, q : r = TapeReq(0, j, q)
    BY <1>1 DEF RequestOf
  <2>2. \A l, u : LineReq(l, u) # r
    BY <2>1 DEF LineReq, TapeReq
  <2>3. LineEntriesDone' = LineEntriesDone
    BY <2>2 DEF LineEntriesDone, LineReq
  <2> QED
    BY <2>3
<1>2. CASE ~Target(t)
  <2>1. exec \in DOMAIN Schedule /\ t < Len(Schedule[exec]) /\ r = LineReq(exec, t)
    BY <1>2 DEF RequestOf
  <2>2. exec \in Nat /\ exec >= 1 /\ exec <= Len(Schedule) /\ Len(Schedule) \in Nat
        /\ Len(Schedule[exec]) \in Nat
    BY <2>1, LineFacts, ScheduleAssumption
  <2>3. \A e \in (1 .. Len(Schedule)) \X Threads :
           LineReq(e[1], e[2]) = r <=> e = <<exec, t>>
    BY <2>1 DEF LineReq
  <2>4. <<exec, t>> \in (1 .. Len(Schedule)) \X Threads
    BY <2>2
  <2>5. LineEntriesDone' = LineEntriesDone \cup {<<exec, t>>}
    <3>1. LineEntriesDone' = {e \in (1 .. Len(Schedule)) \X Threads :
                                 LineReq(e[1], e[2]) \in completed \cup {r}}
      BY DEF LineEntriesDone, LineReq
    <3> QED
      BY <3>1, <2>3, <2>4 DEF LineEntriesDone
  <2>6. <<exec, t>> \in FJ!Entries(exec)
    BY <2>1, <2>2 DEF FJ!Entries
  <2>7. CASE <<exec, t>> \in LineEntriesDone
    BY <2>5, <2>7
  <2>8. CASE <<exec, t>> \notin LineEntriesDone
    BY <2>2, <2>5, <2>6, <2>8 DEF FJ!Execute
  <2> QED
    BY <2>7, <2>8
<1> QED
  BY <1>1, <1>2

LEMMA EndLineIsNextLine ==
    ASSUME TypeInv, Inv, EndLine
    PROVE  FJ!NextLine
<1> USE ProcFacts
<1>1. /\ pc[Main] = "lineend" /\ exec \in DOMAIN Schedule /\ exec' = exec + 1
      /\ completed' = completed
  BY DEF EndLine, TypeInv, ControlInv, ghosts
<1>2. /\ exec \in Nat /\ exec >= 1 /\ exec <= Len(Schedule) /\ Len(Schedule) \in Nat
      /\ exec \in 1 .. Len(Schedule)
  BY <1>1, LineFacts, ScheduleAssumption
<1>3. \A t \in 0 .. Len(Schedule[exec]) - 1 : t \in Threads /\ LineReq(exec, t) \in completed
  BY <1>1, EntryFacts DEF Inv, JoinInv, LinesJoined
<1>4. FJ!Entries(exec) \subseteq LineEntriesDone
  BY <1>2, <1>3 DEF FJ!Entries, LineEntriesDone
<1>5. LineEntriesDone' = LineEntriesDone
  BY <1>1 DEF LineEntriesDone, LineReq
<1> QED
  BY <1>1, <1>2, <1>4, <1>5 DEF FJ!NextLine

LEMMA StepsImplement ==
    ASSUME TypeInv, Inv, TInv, RequestInv, CompiledTapes, ~SpuriousWakeups, [Next]_vars
    PROVE  [FJ!Execute \/ FJ!NextLine]_(FJ!fjvars)
<1> USE ProcFacts DEF FJ!fjvars
<1>1. CASE MainStep
  <2>1. CASE EndLine
    BY <2>1, EndLineIsNextLine
  <2>2. CASE ~EndLine
    <3>1. UNCHANGED <<exec, completed>>
      BY <1>1, <2>2 DEF MainStep, CreateThread, AwaitReady, RetryReady, ThreadReady,
         FetchLine, MainRunTape, IncreasePos, MainJoinWait, MainJoined, KillThread,
         ReleaseThread, PthreadJoin, SeekAndPrune, ghosts, mainVars
    <3> QED
      BY <3>1, DoneSame
  <2> QED
    BY <2>1, <2>2
<1>2. ASSUME NEW t \in Threads, WorkerStep(t) PROVE [FJ!Execute \/ FJ!NextLine]_(FJ!fjvars)
  <2>0. exec' = exec
    BY <1>2, WorkerSteps DEF WorkerFrame
  <2>1. CASE FinishProgram(t)
    <3>1. pc[t] = "finish" /\ completed' = completed \cup {current[t]}
      BY <2>1 DEF FinishProgram
    <3>2. pc[Main] \notin Starting
      BY <3>1 DEF Inv, StartInv, Before, Waiting
    <3>3. pc[Main] \notin Stopping
      BY <3>1 DEF TInv, StoppingOK, Waiting, Ended
    <3>4. pc[Main] \in InLines
      BY <3>2, <3>3 DEF TypeInv, TypeOK, MainPoints, Starting, Stopping, InLines, InLine
    <3>5. PICK r : r = current[t]
      OBVIOUS
    <3>6. RequestOf(t, r)
      BY <3>1, <3>4, <3>5 DEF RequestInv, RequestOK, Busy
    <3> QED
      BY <2>0, <3>1, <3>5, <3>6, ReportIsExecute
  <2>2. CASE ~FinishProgram(t)
    <3>1. completed' = completed
      BY <1>2, <2>2 DEF WorkerStep, SetupDone, AnnounceReady, AwaitProgram, TakeProgram,
         ResetAndSeek, UseData, ExecRunTape, ExecJoinWait, ExecJoined, ExecCrash, EndProgram,
         AwaitRelease, ExitThread, ghosts
    <3> QED
      BY <2>0, <3>1, DoneSame
  <2> QED
    BY <2>1, <2>2
<1>3. ASSUME NEW t \in Threads, SpuriousWakeup(t) PROVE FALSE
  BY <1>3 DEF SpuriousWakeup
<1>4. ASSUME NEW p \in Procs, Unwind(p) PROVE UNCHANGED <<exec, completed>>
  BY <1>4 DEF Unwind, Purge, Abort, ghosts, mainVars
<1>5. CASE UNCHANGED vars
  <2>1. UNCHANGED <<exec, completed>>
    BY <1>5 DEF vars, ghosts, mainVars
  <2> QED
    BY <2>1, DoneSame
<1> QED
  BY <1>1, <1>2, <1>3, <1>4, <1>5, DoneSame DEF Next, Step

(* Machine::run implements ForkJoin, step by step: a worker's report that an *)
(* entry of the schedule is finished executes that entry, the end of a line  *)
(* in main goes on to the next line once every entry of the line has been    *)
(* executed, and no other step changes either.                               *)
THEOREM MachineForksAndJoins ==
    ASSUME CompiledTapes, ~SpuriousWakeups
    PROVE  Spec => FJ!FJSteps
<1>1. Init => FJ!Start
  BY DEF Init, FJ!Start, LineEntriesDone
<1>2. Init => RequestInv
  BY ProcFacts DEF Init, RequestInv, InLines, InLine
<1>3. /\ TypeInv /\ Inv /\ TInv /\ RequestInv /\ [Next]_vars => RequestInv'
      /\ TypeInv /\ Inv /\ TInv /\ RequestInv /\ [Next]_vars =>
             [FJ!Execute \/ FJ!NextLine]_(FJ!fjvars)
  BY RequestStep, StepsImplement
<1> QED
  BY <1>1, <1>2, <1>3, TapesInvariant, PTL DEF Spec, FJ!FJSteps
=============================================================================
