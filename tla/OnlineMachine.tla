--------------------------- MODULE OnlineMachine ---------------------------
(***************************************************************************)
(* The online phase of one party: Machine (Processor/Machine.cpp) runs the *)
(* lines of a schedule on a fixed pool of worker threads                   *)
(* (Processor/Online-Thread.cpp), and a tape may itself start and join     *)
(* tapes on other threads (RUN_TAPE and JOIN_TAPE of                       *)
(* Processor/Instruction.cpp).  The main thread and the workers hand tapes *)
(* over through one mutex and two condition variables per worker; the      *)
(* positions in the preprocessed data are handed over with them.           *)
(*                                                                         *)
(* A critical section that no wait interrupts is one action.  A thread     *)
(* blocked in pthread_cond_wait is a member of the condition variable's    *)
(* waiting set; a signal takes one thread out of it.                       *)
(***************************************************************************)
EXTENDS Integers, Sequences, FiniteSets, Functions, SequencesExt

CONSTANTS
    NThreads,       \* number of worker threads, first number of the schedule file
    Tapes,          \* the loaded programs
    Schedule,       \* lines of the schedule: Seq(Seq([tape, arg]))
    Code,           \* [Tapes -> Seq(instruction)], see Instruction below
    UnknownUsage,   \* the tapes whose use of preprocessed data is not known
    SpuriousWakeups \* may pthread_cond_wait return without a signal?

Threads == 0 .. NThreads - 1
Main == -1                       \* the thread that runs Machine::run
Procs == {Main} \cup Threads
Idle == -2                       \* prognum: nothing to run
Stop == -1                       \* prognum: terminate

(* Instructions of a tape; the fields an operation does not have are 0.     *)
Instructions == [op : {"use", "run", "join", "crash"},
                 th : Nat, tape : Nat, arg : Nat, n : Nat]
Instruction(o, th, t, a, n) == [op |-> o, th |-> th, tape |-> t, arg |-> a, n |-> n]
Use(n) == Instruction("use", 0, 0, 0, n)              \* consume n items
RunOn(th, t, a) == Instruction("run", th, t, a, 0)    \* RUN_TAPE
Join(th) == Instruction("join", th, 0, 0, 0)          \* JOIN_TAPE
Crash == Instruction("crash", 0, 0, 0, 0)

ASSUME ThreadsAssumption == NThreads \in Nat \ {0}
ASSUME TapesAssumption == Tapes \subseteq Nat
ASSUME ScheduleAssumption ==
    /\ Schedule \in Seq(Seq([tape : Tapes, arg : Nat]))
    /\ \A l \in DOMAIN Schedule : Len(Schedule[l]) \in 1 .. NThreads
ASSUME CodeAssumption ==
    /\ Code \in [Tapes -> Seq(Instructions)]
    /\ \A n \in Tapes : \A k \in DOMAIN Code[n] :
          Code[n][k].op = "join" => Code[n][k].th \in Threads
ASSUME UnknownAssumption == UnknownUsage \subseteq Tapes
ASSUME SpuriousAssumption == SpuriousWakeups \in BOOLEAN

(***************************************************************************)
(* The usage written into a tape by the compiler: its own and that of the  *)
(* tapes it starts (Compiler/program.py, run_tape appends the child's      *)
(* requirement tree to the parent's).                                      *)
(***************************************************************************)
SumTo(w) == LET s[k \in 0 .. Len(w)] == IF k = 0 THEN 0 ELSE s[k - 1] + w[k] IN s
Total(w) == SumTo(w)[Len(w)]

Uses(n) == [k \in 1 .. Len(Code[n]) |-> IF Code[n][k].op = "use" THEN Code[n][k].n ELSE 0]
UsedBy(n) == Total(Uses(n))

OfflineDataUsed(n) ==
    Total([k \in 1 .. Len(Code[n]) |->
              IF Code[n][k].op = "run" THEN UsedBy(Code[n][k].tape) ELSE Uses(n)[k]])

ASSUME UsageAssumption ==
    \A n \in Tapes : UsedBy(n) \in Nat /\ OfflineDataUsed(n) \in Nat

NoDelta == 0

VARIABLES
    prognum, arg, tpos, finished, ready,  \* thread_info, one per worker
    held,           \* [Threads -> BOOLEAN] t_mutex held by the constructor
    clientWaiters,  \* [Threads -> SUBSET Procs] blocked on client_ready
    serverWaiters,  \* [Threads -> SUBSET Procs] blocked on server_ready
    pos,            \* Machine::pos, next unassigned preprocessed item
    usageUnknown,   \* Machine::usage_unknown
    exec, i,        \* line being run, thread index of the loop main is in
    delta,          \* what run_tape returned to main
    fileStart,      \* items the final prune() has removed from the files
    pc,             \* [Procs -> control point]
    program, ip, datapos,   \* of each worker: tape, instruction, DataF.usage
    purged, aborted,        \* purge_preprocessing() ran, process terminated
    req, current,   \* ghosts: the request last handed to a worker, the one it runs
    completed,      \* ghost: requests whose worker reported finished
    consumed        \* ghost: <<item, request>> for every item read

info == <<prognum, arg, tpos, finished, ready>>
sync == <<held, clientWaiters, serverWaiters>>
mainVars == <<pos, usageUnknown, exec, i, delta, fileStart>>
workVars == <<program, ip, datapos>>
failVars == <<purged, aborted>>
ghosts == <<req, current, completed, consumed>>
vars == <<info, sync, mainVars, pc, workVars, failVars, ghosts>>

None == <<"none">>
LineReq(l, t) == <<"line", l, t>>      \* entry t of line l
TapeReq(t, k, r) == <<"tape", t, k, r>>   \* instruction k of the tape of request r

numt == IF exec <= Len(Schedule) THEN Len(Schedule[exec]) ELSE 0

-----------------------------------------------------------------------------
(* Condition variables and mutexes.                                        *)

GoTo(p, l) == pc' = [pc EXCEPT ![p] = l]

Signal(waiters, t) ==
    IF waiters[t] = {}
    THEN waiters' = waiters
    ELSE \E p \in waiters[t] : waiters' = [waiters EXCEPT ![t] = @ \ {p}]

SignalClient(t) == Signal(clientWaiters, t)
SignalServer(t) == Signal(serverWaiters, t)
WaitClient(p, t) == clientWaiters' = [clientWaiters EXCEPT ![t] = @ \cup {p}]
WaitServer(p, t) == serverWaiters' = [serverWaiters EXCEPT ![t] = @ \cup {p}]

(***************************************************************************)
(* POSIX allows a wait to return although nobody signalled.                *)
(***************************************************************************)
SpuriousWakeup(t) ==
    /\ SpuriousWakeups
    /\ \/ \E p \in clientWaiters[t] :
            /\ clientWaiters' = [clientWaiters EXCEPT ![t] = @ \ {p}]
            /\ UNCHANGED serverWaiters
       \/ \E p \in serverWaiters[t] :
            /\ serverWaiters' = [serverWaiters EXCEPT ![t] = @ \ {p}]
            /\ UNCHANGED clientWaiters
    /\ UNCHANGED <<info, held, mainVars, pc, workVars, failVars, ghosts>>

-----------------------------------------------------------------------------
(* Machine::Machine: start the workers holding every mutex, then wait for  *)
(* each to say that it is ready.                                           *)

Init ==
    /\ prognum = [t \in Threads |-> Idle]
    /\ arg = [t \in Threads |-> 0]
    /\ tpos = [t \in Threads |-> 0]
    /\ finished = [t \in Threads |-> TRUE]
    /\ ready = [t \in Threads |-> FALSE]
    /\ held = [t \in Threads |-> FALSE]
    /\ clientWaiters = [t \in Threads |-> {}]
    /\ serverWaiters = [t \in Threads |-> {}]
    /\ pos = 0 /\ usageUnknown = FALSE
    /\ exec = 1 /\ i = 0 /\ delta = NoDelta /\ fileStart = 0
    /\ pc = [p \in Procs |-> IF p = Main THEN "create" ELSE "none"]
    /\ program = [t \in Threads |-> Idle]
    /\ ip = [t \in Threads |-> 1]
    /\ datapos = [t \in Threads |-> 0]
    /\ purged = FALSE /\ aborted = FALSE
    /\ req = [t \in Threads |-> None]
    /\ current = [t \in Threads |-> None]
    /\ completed = {} /\ consumed = {}

(* Slip: the loop runs once too often.                                      *)
LoopOrLeavePast(n, again, leave) ==
    IF i + 1 <= n THEN i' = i + 1 /\ GoTo(Main, again)
                  ELSE i' = 0 /\ GoTo(Main, leave)

(* Main goes on with the next index of a loop over 0 .. n-1, or leaves it. *)
LoopOrLeave(n, again, leave) ==
    IF i + 1 < n THEN i' = i + 1 /\ GoTo(Main, again)
                 ELSE i' = 0 /\ GoTo(Main, leave)

CreateThread ==
    /\ pc[Main] = "create"
    /\ held' = [held EXCEPT ![i] = TRUE]
    /\ IF i + 1 < NThreads
       THEN i' = i + 1 /\ pc' = [pc EXCEPT ![i] = "setup"]
       ELSE i' = 0 /\ pc' = [pc EXCEPT ![i] = "setup", ![Main] = "sync"]
    /\ UNCHANGED <<info, clientWaiters, serverWaiters, pos, usageUnknown, exec,
                   delta, fileStart, workVars, failVars, ghosts>>

AwaitReady ==
    /\ pc[Main] = "sync" /\ ~ready[i]
    /\ held' = [held EXCEPT ![i] = FALSE]
    /\ WaitClient(Main, i)
    /\ GoTo(Main, "syncwait")
    /\ UNCHANGED <<info, serverWaiters, mainVars, workVars, failVars, ghosts>>

RetryReady ==
    /\ pc[Main] = "syncwait" /\ Main \notin clientWaiters[i]
    /\ held' = [held EXCEPT ![i] = TRUE]
    /\ GoTo(Main, "sync")
    /\ UNCHANGED <<info, clientWaiters, serverWaiters, mainVars, workVars,
                   failVars, ghosts>>

ThreadReady ==
    /\ pc[Main] = "sync" /\ ready[i]
    /\ held' = [held EXCEPT ![i] = FALSE]
    /\ LoopOrLeave(NThreads, "sync", "fetch")
    /\ UNCHANGED <<info, clientWaiters, serverWaiters, pos, usageUnknown, exec,
                   delta, fileStart, workVars, failVars, ghosts>>

-----------------------------------------------------------------------------
(* Machine::run_tape and Machine::join_tape, by the main thread or by a    *)
(* worker that executes the instruction.                                   *)

(* Slip: finished is not reset.                                             *)
HandOverKeepsFinished(t, n, a, r) ==
    /\ prognum' = [prognum EXCEPT ![t] = n]
    /\ arg' = [arg EXCEPT ![t] = a]
    /\ tpos' = [tpos EXCEPT ![t] = pos]
    /\ req' = [req EXCEPT ![t] = r]
    /\ SignalServer(t)
    /\ UNCHANGED finished

(* The critical section of run_tape: position p is what is read of the     *)
(* unprotected Machine::pos.                                               *)
HandOver(t, n, a, r) ==
    /\ prognum' = [prognum EXCEPT ![t] = n]
    /\ arg' = [arg EXCEPT ![t] = a]
    /\ tpos' = [tpos EXCEPT ![t] = pos]
    /\ finished' = [finished EXCEPT ![t] = FALSE]
    /\ req' = [req EXCEPT ![t] = r]
    /\ SignalServer(t)

InvalidCall(t, n) == t \notin Threads \/ n \notin Tapes

Entry == Schedule[exec][i + 1]

FetchLine ==
    /\ pc[Main] = "fetch"
    /\ i' = 0
    /\ \/ numt = 0 /\ GoTo(Main, "kill")
       \/ numt # 0 /\ GoTo(Main, "run")
    /\ UNCHANGED <<info, sync, pos, usageUnknown, exec, delta, fileStart,
                   workVars, failVars, ghosts>>

MainRunTape ==
    /\ pc[Main] = "run"
    /\ HandOver(i, Entry.tape, Entry.arg, LineReq(exec, i))
    /\ IF Entry.tape \notin UnknownUsage
       THEN /\ delta' = OfflineDataUsed(Entry.tape)
            /\ GoTo(Main, "increase")
            /\ UNCHANGED usageUnknown
       ELSE IF numt > 1
       THEN GoTo(Main, "catch") /\ UNCHANGED <<delta, usageUnknown>>
       ELSE /\ usageUnknown' = TRUE
            /\ delta' = NoDelta
            /\ GoTo(Main, "increase")
    /\ UNCHANGED <<ready, held, clientWaiters, pos, exec, i, fileStart,
                   workVars, failVars, current, completed, consumed>>

IncreasedTwice == pos + 2 * delta       \* slip: added twice
Increased == pos + delta                \* DataPositions::increase

IncreasePos ==
    /\ pc[Main] = "increase"
    /\ pos' = Increased
    /\ LoopOrLeave(numt, "run", "join")
    /\ UNCHANGED <<info, sync, usageUnknown, exec, delta, fileStart, workVars,
                   failVars, ghosts>>

(* join_tape(t) by p: return, or wait once for client_ready.               *)
JoinReturns(p, t) == pc[p] = "joinwait" /\ p \notin clientWaiters[t]

MainJoinWait ==
    /\ pc[Main] = "join" /\ ~finished[i]
    /\ WaitClient(Main, i)
    /\ GoTo(Main, "joinwait")
    /\ UNCHANGED <<info, held, serverWaiters, mainVars, workVars, failVars, ghosts>>

MainJoined ==
    /\ \/ pc[Main] = "join" /\ finished[i]
       \/ JoinReturns(Main, i)
    /\ LoopOrLeave(numt, "join", "lineend")
    /\ UNCHANGED <<info, sync, pos, usageUnknown, exec, delta, fileStart,
                   workVars, failVars, ghosts>>

LineEndPosStale == pos                  \* slip: the worker's position is ignored
LineEndPos == IF usageUnknown THEN tpos[0] ELSE pos

EndLine ==
    /\ pc[Main] = "lineend"
    /\ pos' = LineEndPos
    /\ usageUnknown' = FALSE
    /\ exec' = exec + 1
    /\ GoTo(Main, "fetch")
    /\ UNCHANGED <<info, sync, i, delta, fileStart, workVars, failVars, ghosts>>

-----------------------------------------------------------------------------
(* The end of Machine::run: stop every worker, collect them one by one,    *)
(* and discard the preprocessed data in front of pos.                      *)

KillThread ==
    /\ pc[Main] = "kill"
    /\ prognum' = [prognum EXCEPT ![i] = Stop]
    /\ ready' = [ready EXCEPT ![i] = FALSE]
    /\ SignalServer(i)
    /\ LoopOrLeave(NThreads, "kill", "release")
    /\ UNCHANGED <<arg, tpos, finished, held, clientWaiters, pos, usageUnknown,
                   exec, delta, fileStart, workVars, failVars, ghosts>>

(* Slip: the worker is not told.                                            *)
ReleaseSilently ==
    /\ pc[Main] = "release"
    /\ ready' = [ready EXCEPT ![i] = TRUE]
    /\ GoTo(Main, "pthreadjoin")
    /\ UNCHANGED <<prognum, arg, tpos, finished, sync, mainVars, workVars,
                   failVars, ghosts>>

ReleaseThread ==
    /\ pc[Main] = "release"
    /\ ready' = [ready EXCEPT ![i] = TRUE]
    /\ SignalServer(i)
    /\ GoTo(Main, "pthreadjoin")
    /\ UNCHANGED <<prognum, arg, tpos, finished, held, clientWaiters, mainVars,
                   workVars, failVars, ghosts>>

PthreadJoin ==
    /\ pc[Main] = "pthreadjoin" /\ pc[i] = "exited"
    /\ LoopOrLeave(NThreads, "release", "prune")
    /\ UNCHANGED <<info, sync, pos, usageUnknown, exec, delta, fileStart,
                   workVars, failVars, ghosts>>

SeekAndPrune ==
    /\ pc[Main] = "prune"
    /\ fileStart' = pos
    /\ GoTo(Main, "done")
    /\ UNCHANGED <<info, sync, pos, usageUnknown, exec, i, delta, workVars,
                   failVars, ghosts>>

-----------------------------------------------------------------------------
(* Sub_Main_Func, the worker.                                              *)

SetupDone(t) ==                       \* Player, Data_Files, MAC checks, Processor
    /\ pc[t] = "setup"
    /\ GoTo(t, "announce")
    /\ UNCHANGED <<info, sync, mainVars, workVars, failVars, ghosts>>

AnnounceReady(t) ==
    /\ pc[t] = "announce" /\ ~held[t]
    /\ ready' = [ready EXCEPT ![t] = TRUE]
    /\ SignalClient(t)
    /\ GoTo(t, "check")
    /\ UNCHANGED <<prognum, arg, tpos, finished, held, serverWaiters, mainVars,
                   workVars, failVars, ghosts>>

AwaitProgram(t) ==
    /\ pc[t] = "check" /\ ~held[t] /\ prognum[t] = Idle
    /\ WaitServer(t, t)
    /\ GoTo(t, "progwait")
    /\ UNCHANGED <<info, held, clientWaiters, mainVars, workVars, failVars, ghosts>>

(* After the wait prognum is not looked at again: if it is still Idle, the *)
(* worker indexes progs with it.  That is undefined; here it goes nowhere. *)
TakeProgram(t) ==
    /\ \/ pc[t] = "check" /\ ~held[t] /\ prognum[t] # Idle
       \/ pc[t] = "progwait" /\ t \notin serverWaiters[t]
    /\ program' = [program EXCEPT ![t] = prognum[t]]
    /\ prognum' = [prognum EXCEPT ![t] = Idle]
    /\ current' = [current EXCEPT ![t] = req[t]]
    /\ GoTo(t, CASE prognum[t] = Stop -> "final"
                 [] prognum[t] = Idle -> "undefined"
                 [] OTHER -> "seek")
    /\ UNCHANGED <<arg, tpos, finished, ready, sync, mainVars, ip, datapos,
                   failVars, req, completed, consumed>>

(* Proc.reset and DataF.seekg read arg and pos without the mutex.          *)
ResetAndSeek(t) ==
    /\ pc[t] = "seek"
    /\ ip' = [ip EXCEPT ![t] = 1]
    /\ datapos' = [datapos EXCEPT ![t] = tpos[t]]
    /\ GoTo(t, "exec")
    /\ UNCHANGED <<info, sync, mainVars, program, failVars, ghosts>>

Instr(t) == Code[program[t]][ip[t]]
AtInstr(t, op) ==
    /\ pc[t] = "exec" /\ ip[t] <= Len(Code[program[t]])
    /\ Instr(t).op = op
NextInstr(t) == ip' = [ip EXCEPT ![t] = @ + 1]

UseData(t) ==                          \* Data_Files::get_* of any kind
    /\ AtInstr(t, "use")
    /\ consumed' = consumed \cup
         {<<k, current[t]>> : k \in datapos[t] .. datapos[t] + Instr(t).n - 1}
    /\ datapos' = [datapos EXCEPT ![t] = @ + Instr(t).n]
    /\ NextInstr(t)
    /\ UNCHANGED <<info, sync, mainVars, pc, program, failVars, req, current,
                   completed>>

(* RUN_TAPE: run_tape with line_number -1, then DataF.skip of the result.  *)
ExecRunTape(t) ==
    /\ AtInstr(t, "run")
    /\ LET c == Instr(t) IN
       IF InvalidCall(c.th, c.tape)
       THEN /\ GoTo(t, "catch")
            /\ UNCHANGED <<info, serverWaiters, ip, datapos, req>>
       ELSE /\ HandOver(c.th, c.tape, c.arg, TapeReq(t, ip[t], current[t]))
            /\ IF c.tape \in UnknownUsage
               THEN GoTo(t, "catch") /\ UNCHANGED <<ip, datapos>>
               ELSE /\ datapos' = [datapos EXCEPT ![t] = @ + OfflineDataUsed(c.tape)]
                    /\ NextInstr(t)
                    /\ UNCHANGED pc
            /\ UNCHANGED ready
    /\ UNCHANGED <<held, clientWaiters, mainVars, program, failVars, current,
                   completed, consumed>>

ExecJoinWait(t) ==
    /\ AtInstr(t, "join") /\ ~finished[Instr(t).th]
    /\ WaitClient(t, Instr(t).th)
    /\ GoTo(t, "joinwait")
    /\ UNCHANGED <<info, held, serverWaiters, mainVars, workVars, failVars, ghosts>>

ExecJoined(t) ==
    /\ \/ AtInstr(t, "join") /\ finished[Instr(t).th]
       \/ JoinReturns(t, Instr(t).th)
    /\ NextInstr(t)
    /\ GoTo(t, "exec")
    /\ UNCHANGED <<info, sync, mainVars, program, datapos, failVars, ghosts>>

ExecCrash(t) ==
    /\ AtInstr(t, "crash")
    /\ GoTo(t, "catch")
    /\ UNCHANGED <<info, sync, mainVars, workVars, failVars, ghosts>>

(* The end of Program::execute, and the position reported to main.         *)
EndProgram(t) ==
    /\ pc[t] = "exec" /\ ip[t] > Len(Code[program[t]])
    /\ tpos' = IF program[t] \in UnknownUsage
               THEN [tpos EXCEPT ![t] = datapos[t]] ELSE tpos
    /\ GoTo(t, "finish")
    /\ UNCHANGED <<prognum, arg, finished, ready, sync, mainVars, workVars,
                   failVars, ghosts>>

(* MAC check, broadcast check, then finished under the mutex.              *)
FinishProgram(t) ==
    /\ pc[t] = "finish"
    /\ finished' = [finished EXCEPT ![t] = TRUE]
    /\ SignalClient(t)
    /\ completed' = completed \cup {current[t]}
    /\ GoTo(t, "check")
    /\ UNCHANGED <<prognum, arg, tpos, ready, held, serverWaiters, mainVars,
                   workVars, failVars, req, current, consumed>>

AwaitRelease(t) ==
    /\ pc[t] = "final" /\ ~ready[t]
    /\ WaitServer(t, t)
    /\ GoTo(t, "finalwait")
    /\ UNCHANGED <<info, held, clientWaiters, mainVars, workVars, failVars, ghosts>>

ExitThread(t) ==
    /\ \/ pc[t] = "final" /\ ready[t]
       \/ pc[t] = "finalwait" /\ t \notin serverWaiters[t]
    /\ GoTo(t, "exited")
    /\ UNCHANGED <<info, sync, mainVars, workVars, failVars, ghosts>>

-----------------------------------------------------------------------------
(* An exception in main or in a worker: purge the preprocessed data, throw *)
(* on, which terminates the process; the other threads run meanwhile.      *)

PurgeSkipped(p) ==                      \* slip: the exception is thrown on at once
    /\ pc[p] = "catch"
    /\ GoTo(p, "rethrow")
    /\ UNCHANGED <<info, sync, mainVars, workVars, failVars, ghosts>>

Purge(p) ==
    /\ pc[p] = "catch"
    /\ purged' = TRUE
    /\ GoTo(p, "rethrow")
    /\ UNCHANGED <<info, sync, mainVars, workVars, aborted, ghosts>>

Abort(p) ==
    /\ pc[p] = "rethrow"
    /\ aborted' = TRUE
    /\ UNCHANGED <<info, sync, mainVars, pc, workVars, purged, ghosts>>

-----------------------------------------------------------------------------
MainStep ==
    \/ CreateThread \/ AwaitReady \/ RetryReady \/ ThreadReady
    \/ FetchLine \/ MainRunTape \/ IncreasePos \/ MainJoinWait \/ MainJoined
    \/ EndLine \/ KillThread \/ ReleaseThread \/ PthreadJoin \/ SeekAndPrune

WorkerStep(t) ==
    \/ SetupDone(t) \/ AnnounceReady(t) \/ AwaitProgram(t) \/ TakeProgram(t)
    \/ ResetAndSeek(t) \/ UseData(t) \/ ExecRunTape(t) \/ ExecJoinWait(t)
    \/ ExecJoined(t) \/ ExecCrash(t) \/ EndProgram(t) \/ FinishProgram(t)
    \/ AwaitRelease(t) \/ ExitThread(t)

Unwind(p) == Purge(p) \/ Abort(p)

Step ==
    \/ MainStep
    \/ \E t \in Threads : WorkerStep(t) \/ SpuriousWakeup(t)
    \/ \E p \in Procs : Unwind(p)

Terminated == aborted \/ pc[Main] = "done"

Next ==
    \/ ~aborted /\ Step
    \/ Terminated /\ UNCHANGED vars

(* The operating system runs every thread that can run.                    *)
Fairness ==
    /\ WF_vars(~aborted /\ MainStep)
    /\ \A t \in Threads : WF_vars(~aborted /\ WorkerStep(t))
    /\ \A p \in Procs : WF_vars(~aborted /\ Unwind(p))

Spec == Init /\ [][Next]_vars
FairSpec == Spec /\ Fairness

-----------------------------------------------------------------------------
MainPoints == {"create", "sync", "syncwait", "fetch", "run", "increase", "join",
               "joinwait", "lineend", "kill", "release", "pthreadjoin", "prune",
               "done", "catch", "rethrow"}
WorkerPoints == {"none", "setup", "announce", "check", "progwait", "seek", "exec",
                 "joinwait", "finish", "final", "finalwait", "exited", "undefined",
                 "catch", "rethrow"}

(* Types; the program a worker runs is a loaded one unless a wait returned  *)
(* without a signal.                                                        *)
TypeOK ==
    /\ prognum \in [Threads -> Tapes \cup {Idle, Stop}]
    /\ arg \in [Threads -> Nat]
    /\ tpos \in [Threads -> Nat]
    /\ finished \in [Threads -> BOOLEAN]
    /\ ready \in [Threads -> BOOLEAN]
    /\ held \in [Threads -> BOOLEAN]
    /\ clientWaiters \in [Threads -> SUBSET Procs]
    /\ serverWaiters \in [Threads -> SUBSET Procs]
    /\ pos \in Nat /\ usageUnknown \in BOOLEAN
    /\ exec \in Nat /\ i \in Threads /\ delta \in Nat /\ fileStart \in Nat
    /\ pc \in [Procs -> MainPoints \cup WorkerPoints]
    /\ pc[Main] \in MainPoints /\ \A t \in Threads : pc[t] \in WorkerPoints
    /\ program \in [Threads -> Tapes \cup {Idle, Stop}]
    /\ ip \in [Threads -> Nat]
    /\ datapos \in [Threads -> Nat]
    /\ purged \in BOOLEAN /\ aborted \in BOOLEAN

(* "Make sure all terminate before we continue" (Machine::run): when main   *)
(* has left the joins of a line, every tape of that line, and of every      *)
(* earlier line, has reported that it finished.                             *)
LinesJoined ==
    \A l \in DOMAIN Schedule :
        l < exec \/ (l = exec /\ pc[Main] = "lineend") =>
            \A t \in 0 .. Len(Schedule[l]) - 1 : LineReq(l, t) \in completed

(* A tape that has executed JOIN_TAPE finds the tape it last started on     *)
(* that thread finished.                                                    *)
Starts(n, k, th) == Code[n][k].op = "run" /\ Code[n][k].th = th
TapesJoined ==
    \A t \in Threads : pc[t] = "exec" =>
        \A k \in 1 .. ip[t] - 1 : Code[program[t]][k].op = "join" =>
            \A j \in 1 .. k - 1 :
                Starts(program[t], j, Code[program[t]][k].th) =>
                    TapeReq(t, j, current[t]) \in completed

(* A tape handed to a worker is only ever taken by that worker: neither the *)
(* next run_tape nor the final kill signal overwrites it.                   *)
NoTapeOverwritten ==
    [][\A t \in Threads :
          prognum[t] \in Tapes /\ prognum'[t] # prognum[t] =>
             prognum'[t] = Idle /\ program'[t] = prognum[t]]_vars

(* The argument and the position, which the worker reads without the mutex, *)
(* are still those of the tape it took.                                     *)
ParametersStable ==
    [][\A t \in Threads : pc[t] = "seek" =>
          req[t] = current[t] /\ tpos'[t] = tpos[t] /\ arg'[t] = arg[t]]_vars

(* No preprocessed item is given to two tapes.                              *)
NoItemUsedTwice ==
    \A c, d \in consumed : c[1] = d[1] => c[2] = d[2]

(* When the machine is done, the files have lost every item that was used   *)
(* and no other: main's position is the sum of what the tapes read.         *)
UsedItemsDiscarded ==
    pc[Main] = "done" => {c[1] : c \in consumed} = 0 .. fileStart - 1

(* Every schedule comes to its end: no signal is lost between main, the     *)
(* workers and the tapes that join other tapes, unless a thread throws.     *)
MachineFinishes == <>(pc[Main] = "done" \/ \E p \in Procs : pc[p] = "catch")

(* An exception in any thread ends the process with the data purged.        *)
ExceptionEndsProcess ==
    (\E p \in Procs : pc[p] = "catch") ~> (aborted /\ purged)

(* Machine::run implements ForkJoin.                                        *)
LineEntriesDone ==
    {e \in (1 .. Len(Schedule)) \X Threads : LineReq(e[1], e[2]) \in completed}
FJ == INSTANCE ForkJoin WITH line <- exec, done <- LineEntriesDone
ForkJoinSpec == FJ!FJSpec
=============================================================================
