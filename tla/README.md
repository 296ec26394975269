# A TLA+ model of fact-spdz

This directory holds TLA+ specifications of the program in `src/`: an
implementation of the SPDZ multi-party computation protocol with a compiler
(Python, `src/Compiler`), an online virtual machine (`src/Player-Online.cpp`,
`src/Processor`), the offline (preprocessing) phases (`src/spdz2-offline.cpp`,
`src/FHEOffline`, `src/FHE`, `src/OT`), and the networking and tools under them.
The specifications describe what the code does, TLC checks them on small
instances, and TLAPS proves some of the results for every instance.

Contents

1. The system: components, state, interaction
2. How the models are built
3. The modules and how they correspond to the code
4. The runs: what each checks, its bounds, its fairness
5. What is proved
6. What disagrees with the code's own words
7. What is not modelled, and the plan

## 1. The system

| component | state | operations | talks to |
|---|---|---|---|
| Online machine (`Processor/Machine`, `Processor/Online-Thread`) | per worker: `prognum`, `finished`, `ready`, `arg`, `pos`, two condition variables; `Machine::pos`, `usage_unknown` | start, `run_tape`, `join_tape`, schedule loop, kill, prune, purge | workers through `thread_info`, preprocessed data through `Data_Files` |
| Preprocessed data (`Processor/Data_Files`, `Processor/Buffer`) | file position, buffer of 101 tuples, `DataPositions usage` | `get`, `fill_buffer`, `seekg`, `skip`, `prune`, `purge` | files under `Player-Data`; one object per worker |
| Player (`Networking/Player`) | one TCP socket per party, broadcast hash | `send_to`, `receive_player`, `Broadcast_Receive`, `pass_around`, `Check_Broadcast` | the other parties |
| Startup (`Networking/Server`, `Networking/ServerSocket`, `Networking/sockets`) | name table, `clients`, `used`, accept thread | handshake with the name server, `get_connection_socket` | all parties |
| Queued I/O (`Tools/WaitQueue`, `Networking/Sender`, `Networking/Receiver`, `Auth/Summer`) | queue, `running` | `push`, `pop`, `stop`, worker loops | `TreeSum`, `Parallel_MAC_Check` |
| Opening and MAC check (`Auth/MAC_Check`) | queue of opened values, `popen_cnt`, `base_player` | `POpen_Begin/End`, `Check`, `CheckIfNeeded` | `Player` |
| Commit and open (`Auth/Subroutines`, `Tools/Commit`) | commitments, openings | `Commit`, `Open`, `Create_Challenge` | `Player` |
| Processor (`Processor/Processor`, `Processor/Input`, `Processor/PrivateOutput`, `Processor/Memory`, `Processor/Instruction`) | registers, PC, memory, sent/pending openings, queues of masks | every instruction | all of the above |
| External clients (`Processor/ExternalClients`, `Networking/STS`) | sockets and keys per client | `get_client_connection`, `connect_to_client`, sends | `ServerSocket` |
| Offline machine (`spdz2-offline.cpp`, `Tools/OfflineMachineBase`, `FHEOffline/SimpleMachine`) | list of generators, `stop_requested`, timers | generator threads, agreement to stop | `Player`, producers |
| Producers and sacrificing (`FHEOffline/Producer`, `Sacrificing`, `EncCommit`, `SimpleEncCommit`, `Reshare`, `DistDecrypt`, `DistKeyGen`) | current batch, index in it | `run`, `get`, `sacrifice`, `ncheck`, commit and open | `Player`, FHE |
| Fields (`Math`) | elements in Montgomery form, words of binary fields | arithmetic, conversions | everybody |
| FHE (`FHE`, `FHEOffline/DistKeyGen`, `DistDecrypt`) | ring elements in two representations and up to two levels, keys, ciphertexts, plaintexts | transforms, encryption, products, decryption, keys made together | producers |
| Oblivious transfer (`OT`) | matrices, per pair threads | base OT, extension, correlation check, triple generation | `Player` |
| Compiler (`Compiler`) | tapes, blocks, memory allocator, register allocator, dependency graph, libraries of protocols | compilation | byte code files |
| Set-up tools (`Fake-Offline.cpp`, `Scripts`, `client-setup.cpp`, ...) | files | generation of test data | files |

Interaction.  The compiler writes a *schedule* (lines of tapes) and byte code.
`Player-Online` loads it, starts one worker per thread number and executes the
schedule line by line; the workers of the same number of all parties are
connected by their own sockets, execute the same tape, open shared values
through `MAC_Check`, and consume preprocessed data from files which the offline
phase wrote in the same order for every party.

What makes the behaviour hard: hand-overs between threads with hand-written
condition-variable code; many parties which must issue matching sends and
receives in matching order over FIFO streams; caches (buffers, positions, counts)
which must agree across parties and threads; batches with limits; files that are
read, pruned and purged; and a compiler that decides statically which thread,
which memory and which register is free.

Per component, what makes it correct:

| component | properties |
|---|---|
| Online machine | lines run one after the other, every entry once; no hand-over lost or overwritten; parameters stay those of the tape taken; no item given to two tapes; discarded = used; every schedule ends; an exception purges and ends |
| Preprocessed data | no item twice, in any mixture of threads, tapes, runs; tuples whole; the buffers are where `usage` says; failing leaves nothing used behind; failing only if data is short |
| Player | a broadcast returns what each party gave to the same call; the check notices differing values and nothing else; ring exchanges pass on whole data from a buffer that is overwritten meanwhile; all calls return |
| Startup | the two ends of a connection serve the same thread and Player; nobody starts before all have reported; ids unique; all get ready or all end |
| Opening and MAC check | an opening is the sum of every share once, for any nesting; all parties check at the same calls; honest parties never fail |
| Input | an input read is the input of the matching start, whatever is opened in between |
| Processor | the parties' registers, shares and MACs stand for what the instructions mean, each party at its own pace; outputs reach whom they are for; the compiler's expansions of secret products and squares agree with the products of what they open |
| Compiler: tapes, merging, allocation | with every set of options an optimised tape does what was written and takes no more data than it declares |
| Compiler: protocols and numbers | comparisons, shifts, roundings and quotients of secret numbers equal those of the numbers, for every mask |
| Compiler: oblivious memories | an access finds what the last one of its index left there |
| Compiler: sorts, heaps, graphs, matchings | lists are sorted and permuted, distances and matchings are those of the definition |
| Fields | every representation computes what the field does |
| FHE | a decryption is the sum or product of the plaintexts, for keys of one party or of all |
| Queued I/O, parallel check (planned) | every pushed item is popped once and in order; `stop` ends every worker; results equal those of the serial check |
| Offline machine (planned) | all parties stop after the same batch; no generator thread is left behind; totals agree |

## 2. How the models are built

* One module per component; a definition has the name it has in the code where
  TLA+ allows it. The module's header says what is abstracted.
* A step is what the code does between two points where another actor can
  interfere: a critical section that no wait interrupts, one call of `send` or
  `recv`, one turn of a loop. `pthread_cond_wait` is two steps (join the set of
  waiters; go on once a signal has taken one out), and whether the code tests
  with `if` or `while` decides where it goes on.
* Reads without a lock are steps of their own (`ResetAndSeek`, `IncreasePos`).
* TCP connections are FIFO sequences. Where the capacity of a connection could
  matter it is modelled (`Broadcast`: a send may block until its message is
  read; `Exchange`: until at most `Capacity` units are unread). `Opening` relies
  on the code's own remark that the system takes what is sent.
* Hashes and commitments are injective: the model keeps what was hashed. Shares
  are named by who made them, sums are bags of shares, so that a share that is
  missing or added twice is seen.
* Variables that the code does not have are marked "ghost" where they are
  declared and occur in no guard, except that `checks` of Opening also numbers
  the seeds, so that the seed of one check is not taken for that of another.
* Bounds that the code does not have are constants marked "bound".
* What the code computes without a partner is modelled by operators on values. A
  behaviour of `MCAlgorithms` is one call: the initial states are the functions
  with their inputs, the step puts what the code's own steps make of the inputs
  in `got`, and the properties compare it with what the function stands for,
  defined independently (a product modulo a prime, a sorted list, the length of
  a shortest path). Random numbers are inputs.
* Shared memory between parties is never assumed: `Processor` has a state per
  party, and a secret value is the sum of what the parties hold.
* An operator whose comment says "slip" is a plausible error in the definition
  it precedes. No specification uses it. With the slip in place of the
  definition the property it was written for is violated: this shows that the
  property depends on that part of the code.

## 3. The modules and how they correspond to the code

**OnlineMachine** (`Processor/Machine.cpp`, `Processor/Online-Thread.cpp`,
`RUN_TAPE`, `JOIN_TAPE`, `CRASH` of `Processor/Instruction.cpp`). Variables:
the fields of `thread_info` (`prognum`, `arg`, `tpos` for `pos`, `finished`,
`ready`), its two condition variables (`clientWaiters`, `serverWaiters`), the
mutexes held over the constructor (`held`), `Machine::pos` and `usage_unknown`,
locals of `Machine::run` (`exec`, `i`, `delta`) and of the workers (`program`,
`ip`, `datapos`), a control point per thread (`pc`).

| actions | code |
|---|---|
| `CreateThread`, `AwaitReady`, `RetryReady`, `ThreadReady` | `Machine::Machine` |
| `FetchLine`, `MainRunTape`, `IncreasePos`, `MainJoinWait`, `MainJoined`, `EndLine` | the schedule loop of `Machine::run`, with `run_tape` (`HandOver`) and `join_tape` |
| `KillThread`, `ReleaseThread`, `PthreadJoin`, `SeekAndPrune` | the end of `Machine::run` |
| `SetupDone`, `AnnounceReady`, `AwaitProgram`, `TakeProgram`, `ResetAndSeek`, `EndProgram`, `FinishProgram`, `AwaitRelease`, `ExitThread` | `Sub_Main_Func` |
| `UseData`, `ExecRunTape`, `ExecJoinWait`, `ExecJoined`, `ExecCrash` | `Program::execute` |
| `Purge`, `Abort` | the handlers of `Main_Func` and `Player-Online` |

A tape is a sequence of the instructions that matter here: use preprocessed
items (all kinds in one count; DataFiles has the kinds), start a tape, join a
thread, throw. A worker that takes a program after a wait that returned early
would index `progs[-2]`; the model sends it to the control point "undefined".

**ForkJoin** is what `Machine::run` promises: lines in order, each entry of a
line once, in any order. `OnlineMachine!ForkJoinSpec` states that OnlineMachine
implements it with `line <- exec` and `done <-` the entries that have reported.

**DataFiles** (`Processor/Data_Files.cpp`, `Processor/Buffer.cpp`). `buf` is a
`BufferBase` per thread and stream of data, `usage` is `Data_Files::usage`,
`lengths` is `tuple_lengths`, `pos` is `Machine::pos`, `present` and `start`
describe the files. `Get` are the getters of the fixed kinds, `GetExtended` is
the `PREP` instruction, `Skip` what a tape does after it has started another,
`EndOfRun` seek and prune, `ThreadDies` purge, `NextRun` a new process.
`Seek`, `Fill`, `Input` are the functions of Buffer, with `int` products
(`AsInt`). The synchronisation of OnlineMachine is reduced to what decides which
position a tape gets.

**Broadcast** (`Player::Broadcast_Receive`, `Player::Check_Broadcast`). A call
is two loops over the parties; `half` and `i` are where a party is, `chan` the
connections, `o` the vector of streams, `ctx` the running hash. Parties in
`Inconsistent` may show each receiver another value.

**Exchange** (`octetStream::exchange`, `Player::pass_around`,
`Player::exchange`). `data` is the buffer that is sent from and received into,
`sent`, `received`, `len`, `newLen` the counters of the loop.

**Opening** (`Auth/MAC_Check.h`, `Auth/MAC_Check.cpp`, `Processor/Input.cpp`).
`values` is what a party is summing, `sums` is `sum_players`, `macs`, `vals`,
`popenCnt` are the members of `MAC_Check`. `SumUp` is a turn of
`TreeSum::start`, the `Spread...` actions are the broadcast tree, `End...`
`POpen_End`, the rest `Check` and the messages of inputs. `direct` chooses
`Direct_MAC_Check`, whose checks have their own connections. What is called is
the constant `Ops`, the same for all parties because they execute one tape;
`Ledger` is when it makes checks due, `CallsInOrder` and `ChecksApart` say which
tapes the properties of what is opened are proved for.

**Startup** (`Networking/Server.cpp`, `Networking/ServerSocket.cpp`,
`Networking/Player.cpp`, `Networking/sockets.cpp`). `serving` is the loop of
`Server::start`, `stage` the main thread of a party in `Names`, `worker` a
worker thread in `Player::setup_sockets`; `clients` and `used` are those of
`ServerSocket`, whose thread is the action `Accept`. A connect goes into the
`backlog` as soon as the other side listens; the accept thread reads an id from
one connection after the other. `GivesUp` is every way in which waiting ends
after a minute; the exception ends the process, which closes its listening
socket.

**Processor** (`Processor/Processor`, `Instruction`, `Input`, `PrivateOutput`,
`Memory`, `Program`). A state has one record per party: registers of both
fields, clear and shared, integers, memory, `PC`, the values under way between
the two halves of an opening, masks queued for private outputs, what has been
read of each kind of preprocessed data, files of shares, and public input.
`Execute` is `Instruction::execute` for one instruction of one party, split by
groups of opcodes; a vector instruction runs its lanes in the code's order. The
opened value is there for a party as soon as all have started the opening
(Opening has the messages). **Emulator** has the same instructions as
`Compiler/instructions.py` gives them: the `execute` methods, which run a
program in the clear, and the docstrings where there is none. It is the
abstract specification of Processor.

**Optimizer**, **Compiled** (`Compiler/program.py`,
`Compiler/allocator.py`, `Compiler/graph.py`, loops and branches of
`Compiler/library.py`). Optimizer writes a tape statement by statement (blocks,
scopes, the tree of requirements that counts preprocessed data), and has
`Tape.optimize`: `dependency_graph` with all its kinds of edges,
`longest_paths_merge`, `eliminate_dead_code`, the topological sort, the jumps,
and the two register allocators. In Compiled a variable holds the statements
written; every state is optimised with every set of options in the menu, and run
beside the tape as it was written by a machine whose values are terms.

**Fields**, **FieldCalls** (`Math`). `Zp_Data` has limbs, their width a
field of the record so that small numbers have several; Montgomery products
limb by limb; `gf2n_short` and `gf2n_long` as sets of positions with the code's
shift tables and reductions; square roots, roots of unity, conversions.

**Comparison**, **NumberTypes**, **ProtocolCalls**
(`Compiler/comparison.py`, `floatingpoint.py`, `types.py`, divisions of
`library.py`). The protocols on the values that the registers hold, in all their
variants (rounds logarithmic or constant), with the random bits as arguments;
`sfloat` and `sfix` on top.

**Networks** (`Compiler/permutation.py`, sorts of `library.py`):
odd-even merge sort and its variants spread over loops, chunks and threads,
bitonic sort, permutation by networks. **DataStructures** (`dijkstra.py`,
`gs.py`, slices of `oram.py`): the heap with its second memory of places,
shortest paths, stable matching, slices of binary elements. **DataCalls** calls
both.

**RandomAccess** is what an oblivious memory promises. **ObliviousRAM**
(`oram.py`, `path_oram.py`) has the memories as values: linear and trivial ones,
the tree with its path, eviction and index (possibly another tree), the packed
index, the tree with a stash. **OramAccesses** does accesses one after the other
with every leaf and bucket, and `FindsWhatWasLeft` states that it implements
RandomAccess: the value of an index is found by looking at all places where the
memory could keep it.

**Transforms** (`FHE/Ring`, `PPData`'s and `FFT_Data`'s set-up, `FFT.cpp`,
`CRT`): cyclotomic rings, roots, the transforms for powers of two, for twice an
odd order, and Bluestein's. **RingElements** (`Ring_Element`): an element as
coefficients or as values. **Encryption** (`Rq_Element`, `FHE_Keys`,
`Ciphertext`, `DistKeyGen`, `DistDecrypt`): elements modulo one or two primes,
scaling, keys, encryption, products with switching, decryption by one party or
by all, keys made together in two rounds. **Plaintexts** (`Plaintext.cpp`): slots
and polynomials. **CipherCalls** calls them.

**Calls** has the variables of a call, MCAlgorithms joins all groups of calls,
**Lists** has sequences whose values are worked out once (the only RECURSIVE
operators of the project are in modules that no theorem reaches).

## 4. The runs: what each checks, its bounds, its fairness

| run | distinct states | shows |
|---|---|---|
| `online_static` | 700 | types; joined lines, no item twice, discarded = used, no tape overwritten, termination, refinement of ForkJoin, for lines of one and two threads and a tape of unknown usage |
| `online_dynamic` | 25,629 | tapes that start and join tapes, and every kind of exception: joined tapes, stable parameters, exceptions end the process with the data purged |
| `datafiles` | 1,040,960 | two threads, one fixed kind, one tag, known and unknown usage, two runs of the program, running out |
| `broadcast` | 26,610 | three parties, one inconsistent, two broadcasts with a check, another with a check |
| `exchange` | 9,214 | three parties around the ring, twice, lengths 0, 1 and 5 |
| `opening` | 23,290 | four parties; inputs before, between and after openings, openings in order and nested, checks asked for and checks made because of `POPEN_MAX`, with and without direct communication |
| `startup` | 160,894 | three parties, two Players each, any of them giving up at any time |
| `processor` | 10,491 | two parties, programs with every instruction, all pairs of inputs of two choices: registers, shares, MACs and outputs are those of the emulation; deadlock is checked |
| `compiler` | 16,796 | programs from menus of statements, with all the options that a menu allows |
| `oram` | 6,134 | three accesses to each of eleven memories |
| `algorithms` | 24,557 | all calls of all functions |
| `compiler_stores` (violated) | | section 6 |

Why the bounds are enough for what they are to show:

* OnlineMachine: a lost or overwritten hand-over needs one worker and two
  consecutive tapes on it; interference between workers needs two. The static
  schedule has a line of two, a line of one with unknown usage, and a line of
  two. The dynamic one re-uses a thread after its join, as the compiler does.
* DataFiles: `BufferSize` is 4 and tuples have 3 items, or 1 and 2: like the 101
  places of the code and tuples of 2 and 3 items, tuples straddle the end of a
  buffer. The files hold so few tuples that both runs can run short. `IntModulus`
  is large enough for no product to overflow. The two threads are symmetric.
* Broadcast: three parties are the smallest number in which a party is between
  others (it receives and sends in each half); two epochs show that the digest
  is reset; whoever is inconsistent may choose two values per receiver.
* Exchange: the length 5 against a chunk of 2 has three chunks with a remainder;
  0 and 1 make the buffer grow and shrink; `Capacity` is exactly a chunk, the
  least that the code relies on; with offset 2 of 3 the ring goes downwards.
* Opening: four parties with trees of fan 2 give two levels up and down, parties
  that only forward, and leaves. `POPEN_MAX` is 6 so that three openings
  pass it.
* Startup: three parties so that one connects, one is connected to, and one does
  both; a second base so that connections of different Players overlap. The
  bases are those of the code, 0 and `mc_base_id(1, 0)`.
* Processor: two parties, as the shares of a third add nothing to who adds a
  constant; P = 11 and degree 4 so that all residues and words are small;
  vectors of two; inputs of two values for each of the parties; the programs
  between them use every opcode of the model. The MAC key is one pair of shares.
* Compiled: five menus (communication, memory, vectors, limited numbers of
  registers or openings, control), programs of four or five statements: two
  openings with a dependency between them, a store between two loads, a branch in
  a loop. `MaxSteps` ends a program that loops; none reaches it.
* MCAlgorithms: a limb of 2 to 4 bits gives moduli of one to three limbs; binary
  fields of the degrees 4, 8, 28 (short) and 40 (the one with two middle terms
  far apart); comparisons and roundings of all numbers of 2 and 3 bits with
  masks at both ends and between, modulo a prime with room for `Kappa` = 2;
  networks on all 0/1 lists of eight (the zero-one principle); heaps of five
  values with one lowered and one put in again; connected graphs of four
  vertices with weights 0, 1 and 3; preferences of three; rings of the orders 3,
  4, 5, 6, 8, 9, 15 and 16 with primes from 5 to 3361 for the transforms, m = 4
  with plaintexts modulo 5 and m = 3 with 73 for encryption, two parties,
  noise from seven small polynomials and masks at both ends of their bound.
  The high part of every mask has its top bit set: the failures that the code
  accepts with probability 2^-kappa are left out.
* OramAccesses: three accesses to two indices are the least with a write, an
  access that moves the entry, and a read; trees have one to three levels, one
  has an index that is a tree; leaves are all, or for the deepest tree the two in
  `DeepLeaves`; buckets have two to four places, so that they overflow.

Fairness. OnlineMachine, Exchange, Opening and Startup: each thread is weakly
fair on its steps together, which is what an operating system's scheduler gives
to threads that can run; nothing is assumed about which waiter a signal wakes.
`Broadcast`: a party is weakly fair, except that a send which waits for its
message to be read needs not return before that, so termination is shown for
connections that buffer nothing. `Startup`: giving up is *not* fair in `Spec`:
`StartupEnds` says that somebody gives up or everybody gets ready, and, under
the further assumption that whoever waits in vain gives up in the end, that
all come to rest. DataFiles, Processor, Compiled, MCAlgorithms and
OramAccesses have no liveness property. DataFiles stops when its runs are used
up, a call, a compilation or a sequence of accesses when it is done
(`CHECK_DEADLOCK FALSE`); all other runs check for deadlock, with a step that
stutters for the end of the program: Processor so shows that no party waits for
an opening that the others never start.

## 5. What is proved

Each theorem is of the form `Spec => []P`, for every value of the constants that
satisfies the assumptions named. Where `P` is not inductive, the inductive invariant
is a conjunction of named parts, and the proof that it is kept
has one step per action. TLC has checked each of them as an invariant of the run
of its module.

### The online machine

`OnlineMachine_proofs`, for every number of threads, schedule, and set of tapes:

* `TypeCorrect`: `Spec => []TypeOK`. The invariant `TypeInv` adds to the types
  which program and which line the control points imply.
* `LinesAreJoined`: `Spec => []LinesJoined`, assuming no spurious wakeups and
  `SchedulesApart`: no thread that runs entries of the schedule is the target of
  a `RUN_TAPE`. The compiler sees to the latter: it numbers the threads of
  `run_tape` from 1 on and refuses programs that have these and several
  entries in a schedule (`Compiler/program.py:77-81,147-160`). `LinesJoined` is
  not inductive: that a worker is finished when main joins it depends on where
  the worker stands. The inductive invariant `IInv` says that while main is in
  a line each worker of it is pending, running or finished with the request of
  that very line (`EntryInv`), that workers have passed their announcement
  (`StartInv`), that who waits is still in the set of waiters unless what it
  waits for has happened (`WaitInv`; this is what `if` instead of `while` needs,
  and what spurious wakeups destroy), and which workers main has joined
  (`JoinInv`).

The second part is for tapes that start and join others as the compiler writes them. `CompiledTapes` says it: only the tape on thread 0 starts others, on other
threads (`Program.run_tape` refuses recursive spawning and numbers the threads from
1, `Compiler/program.py:147-160`); a thread is started again only after it was
joined and joined only after it was started (`free_threads`, and `map_reduce` in
`Compiler/library.py:913-935`); all are joined at the end of the tape. There must be
no spurious wakeups.

* `TapesNotOverwritten`: `Spec => NoTapeOverwritten`, and `ParametersKept`:
  `Spec => ParametersStable`, two action properties: nobody hands a worker a second
  tape before it has taken the first, and nobody changes what the worker reads
  outside the mutex.
* `StartedTapesJoined`: `Spec => []TapesJoined`.
* `MachineForksAndJoins`: `Spec => FJ!FJSteps`, the safety part of the refinement: the
  initial states of OnlineMachine are initial states of ForkJoin, and every step
  executes an entry of the line, goes to the next line when all are executed, or
  changes neither. Fairness of ForkJoin is left to TLC (`ForkJoinSpec`).

The invariant `TInv` follows each tape started by thread 0 through its life
(`StartedOK`: handed over, taken, or reported), in terms of `Open`, the starts before
an instruction that are not joined before it.

`OnlineItems_proofs`, under `ItemsAssumptions`: `CompiledTapes`, no spurious wakeups,
started tapes are loaded, and `StartedUseNothing`: the tapes that *tapes* start read no
preprocessed data. The last is no convenience: `RUN_TAPE` hands out `Machine::pos`,
which only the schedule loop advances, and two started tapes that read data read the
same items (section 6). The theorems hold for all programs of which this is true,
which includes every program whose only threads are those of its schedule.

* `ItemsUsedByOneTape`: `Spec => []NoItemUsedTwice`.
* `UsedAreDiscarded`: `Spec => []UsedItemsDiscarded`.

The invariant `ItemInv` lays the items of a line side by side: entry `t` has the items
from `Low(t)` up to `High(t)`, no two entries overlap (`Apart`), together they fill
what lies between the beginning of the line and `Machine::pos` (`Covered`), a worker
has read those up to where its tape is (`ReaderOK`), and a tape of unknown usage is
the only one of its line (`UnknownAlone`). The sums of what a tape uses are folds over
sequences of any length; `Recursion_proofs` has the induction.

### Preprocessed data

`DataFiles_proofs`, for every number of threads, set of kinds and tags, tuple lengths,
size of the files and of a buffer, requirements of the tapes and number of runs, also
with threads that throw because data is short. Assumption: `PositionsFit`,
no offset that `seekg` computes reaches half of `IntModulus`. The code does not check
it; with a modulus too small `FailsOnlyWhenShort` is false (section 6).

* `ItemsReadOnce`: `Spec => []ItemsUsedOnce`.
* `UsedIsCutOff`: `Spec => []UsedItemsDiscarded`.
* `OnlyWholeTuples`: `Spec => []TuplesAreWhole`.
* `EnoughDataSuffices`: `Spec => []FailsOnlyWhenShort`.

The invariant `DataInv` counts in tuples. `BufferIn`: how far a buffer has come in its
file (what the stream has read, less what is left in the buffer) is the number of
tuples used times their length, whether the buffer is fresh, sought, half read or
used up; for a tag this number is that of the tuples read since its length became
known. `Windows` and `Apart`: a running tape has the tuples from its usage on, as many
as its budget, and no other has any of them. `TakenOK`: what has been read lies before
the next position to be given out, or before a tape of unknown usage that runs alone,
and outside all windows; at the end of a process, in front of what was cut off.
`CutOK` bounds what is cut off by what was given to tapes, `ReachOK` every position by
the tapes started; the first gives `FailsOnlyWhenShort`, the second lets
`PositionsFit` apply. `MaxTapes`, a bound of the model, occurs in `PositionsFit` only as
the number of tapes in a run.

### Parties and messages

`Broadcast_proofs`, for every number of players, every sequence of calls, whatever
the connections buffer, and any set of inconsistent players:

* `BroadcastAgreement`: a broadcast returns what each consistent player gave to this
  call (`BroadcastsAgree`).
* `ChecksFindDifferences`: `Spec => []CheckedVectorsAgree`: who has passed a check has
  got the same vectors as everybody else in all broadcasts before it, and a check
  throws only because vectors differ. Inconsistent players choose what they
  broadcast to each receiver; hashes are injective and everybody sends its own.
* `HonestChecksPass`: among consistent players `Check_Broadcast` never throws.
* `StreamsStayShort`: no connection holds two unread messages.
* `PlayersInStep`: nobody is more than one call ahead of another.

All follow from one inductive invariant `Inv`. The last call for which a player
has sent to another, and got from another, is a function of its position in the
loops (`SentTo`, `GotFrom`, over `Control`); a connection is empty if the two agree
and holds exactly the one message of that call otherwise (`Streams`); what has been
received is what may be sent in the call (`Received`), the running hash is that of the
vectors delivered since the last check (`Digests`), and who is past a check agrees
with everybody on the vectors before it (`Agreed`); `Contents` has the types.

`Opening_proofs`, for every number of parties, base player, fan of the trees, `PopenMax`
and tape (with openings nested in any way that ends what it begins), with trees or
without, and whatever the messages say:

* `CheckedAlike`: `Spec => []ChecksAgree`. Nobody announces a check: each party decides
  by the lengths of its own `macs` and `vals`, which differ between parties, as a leaf
  of the tree stores its values at `POpen_End` and the others at `POpen_Begin`. The
  invariant `PartiesOK` says that the decision is nevertheless a function of the call:
  `Ledger`, a recursive function over the calls, has the calls that check and how
  many values they have covered; `macs`, which all extend in `POpen_Begin`, holds exactly
  those begun and not covered, `vals` of an inner party the same, `vals` of a leaf those
  ended and not covered, which is never more, so that the longer of the two decides
  alike; and `popenCnt` counts those ended and not covered. Inside a call (`InTree`,
  `InCheck`, `Checked`) the three move one after the other, and the invariant says by
  how much. A party that throws stops where it is.

The other three are for tapes with `CallsInOrder`: an opening has values, inputs are
those of players, an input is stopped after it was started, and no opening is under
way while one is started and not stopped. They hold with `Direct_MAC_Check`, and
with the trees if `ChecksApart`: no check is due while an opening or an input is
under way. Both are about `Ops` alone. A tape whose openings do not overlap and whose
inputs are stopped before the next opening or check has them: the compiler lets
openings overlap with `--continous` only, and writes the start and the stop of an
input one behind the other (`types.py:983`), though it may order other instructions
between them. Openings may overlap as long as fewer than `POPEN_MAX` values
wait. Both are needed: with an opening between a start and a stop,
or eight values opened before the first four are returned and a `PopenMax` of 6, TLC
finds a wrong sum or an honest party that throws (section 6). `Direct_MAC_Check` has
connections of its own for checks and needs no `ChecksApart`. `MCOpening` assumes the
two, so that TLC evaluates them for the tape of the run.

* `OpensTheSum`: `Spec => [](direct \/ ChecksApart => OpenedIsTheSum)`: what
  `POpen_End` returns is the sum of every party's share of the opening it ends, each
  once.
* `HonestNeverFail`: the same for `NobodyFails`: no commitment is found wrong, no
  difference is found in a check, and no party runs out of stored values.
* `InputsReach`: the same for `InputsArrive`: an input is that of the matching call.

None of the three is inductive, as each depends on what is in the streams, which
depends on how far all parties are. The invariant `Sound` has two parts.

* `StreamsFlow`. `Script` numbers all that one party sends another over the whole
  tape: shares or partial sums, results, inputs, seeds and commitments. How many of
  these a party has sent, and how many it has read, are functions of the call, the
  stage and the level of the tree that it has come to (`Sent`, `Read`); a stream
  holds exactly those between. With the trees a leaf leaves the result in the stream
  from `POpen_Begin` to `POpen_End` (`Kept`), so that the results of openings that
  are not ended lie behind each other there. That the head of a stream is what
  its receiver expects is a matter of counting calls (the lemmas before `Streams`).
* `PartiesHold`. After i turns of `TreeSum::start`, `Level[i]` parties are left and
  `Rep[i]` says which of them has the share of each party; a sum on the way up is
  `Part(k, i, r)`, the bag of the shares of those (`Summed`). A turn adds up bags that
  have nothing in common, each party sends in one turn only, and the last has all
  shares: this is arithmetic of `SumPlayers` and of remainders, for any
  `OpeningSum`. Each party but the base player has one parent on the way down, for
  any `MaxBroadcast`. What is stored in `macs` and `vals` is, opening by opening and
  from the last check on, the values of that opening (`Blocks`), so that
  `POpen_End` takes the right ones and values and MACs belong together in a check.

The proof has a lemma for each action (the names end in `Sound`), which follows from what
the party finds at the head of the streams it reads, how far its own streams
move, and what becomes of its blocks.

`Exchange_proofs`, for every number of players, offset, number of calls, lengths,
size of a chunk and capacity of the streams:

* `PassesOn`: `Spec => []DataPassedOn`. `DataPassedOn` speaks of whole calls and is
  far from inductive. All that a player ever sends is numbered by places
  `<<round, k>>`, the length of a round for `k = 0` and its unit `k` otherwise. The
  unread units of a stream are exactly those from the place where the receiver is
  to the place where the sender is (`Between`, `Along`), with no bound on how many
  rounds lie between them; the buffer holds the rest of the old data and the
  beginning of the new (`Whole`, `Parts`); and both go forward by whole chunks, so
  that what is received only goes where it has been sent from (`Turns`). That the
  owners of the data move around the ring is the arithmetic of `Ring`.

`Startup_proofs`, for every number of parties, threads and Players of a thread,
with parties that give up at any time:

* `AllStartTogether`: `Spec => []StartTogether`. What is in `clients` of the name
  server has announced itself (`AcceptInv`), and how far the name server is in
  its loops says who has reported and sent a name (`ServerInv`).
* `ConnectionsPaired`: `Spec => []PlayersPaired`, assuming `BasesApart`: the bases of
  a thread's Players are at least `NThreads * ThreadStep` apart and there are at most
  `ThreadStep` pairs of parties. It implies that the ids at a server differ
  (`IdsDiffer`). `mc_base_id` leaves 24 and 16 bits, enough for 256 threads and 256
  parties; the code does not check it. The invariant `WorkInv` says of each thread
  which connections it has made and got (`Made`, `Got`), which of the two is in
  each socket (`SocketOf`), and that only the ids of those it got are used
  (`UsedFor`).

### Checked by TLC only

* All liveness (`MachineFinishes`, `ExceptionEndsProcess`, `CallsFinish`,
  `CallsReturn`, `StartupEnds`, the fairness of ForkJoin): the prover does not
  handle fairness and `ENABLED`.
* Processor, Compiled, OramAccesses and MCAlgorithms: their states hold values that
  recursive operators compute. `Recursion_proofs` proves induction over the numbers
  for a set, and that a recursive function on an interval is what its definition
  says; sums in OnlineMachine and the delivery of a tuple in DataFiles use it.
  Recursion over sequences, sets and trees of the libraries is out of its reach.

The modules of the protocols between threads and parties reach no recursive
operator, so that they remain open to proofs of safety.

## 6. What disagrees with the code's own words

`compiler_stores` is a run in which TLC shows the behaviour: the dependency
graph orders a store after the loads before it and a load after the stores
before it, but two stores to one word with nothing between them are not ordered
(`Compiler/allocator.py:473`), and the sort by rounds of openings can exchange
them. The default promises to "preserve order of memory instructions"
(`compile.py:46-48`). The run `compiler` has the same menus without a second
store to a word that has not been read since.

Seen while modelling, without a run.

Machine and networking:

* `join_tape` (`Machine.cpp:195`) and the worker (`Online-Thread.cpp:89`) wait
  once, with `if`. POSIX allows a wait to return early; main then goes on while a
  tape of the line runs, against `Machine.cpp:230`. `SpuriousWakeups = TRUE` in
  MCOnlineMachine_static.cfg shows it.
* `run_tape` hands out `Machine::pos`, which only the schedule loop advances: two
  tapes started by one tape read the same items, against `README.md:19`.
* A buffer of a tag is set up with the length read before the map has it, 0 for
  the first use in a process (`Data_Files.cpp:203,224`); every later `seekg` goes
  to the beginning of the file, and items are read again.
* `pos * tuple_length` is an `int` product (`Buffer.cpp:27`), which wraps for
  files of 2 GB and more. An `IntModulus` of 16 shows it.
* `POpen_End` makes a check as soon as `POPEN_MAX` values wait, while the result
  of another opening is under way on the same connection (`MAC_Check.cpp:112`);
  honest parties then throw. Openings overlap with `--continous`.
* Purging leaves the files of `PREP` data in place. A party that waits for GO
  from a name server that has ended reads nothing forever (`Player.cpp:108`).
  Both exceptions of `get_connection_socket` leave `data_signal` locked, as the
  one for an inconsistent size leaves `tuple_lengths_lock`
  (`Data_Files.cpp:213`). All `Summer`s of a parallel check use the one stream
  `MC.oss`; with several levels of them a thread asks for Players with the same
  id base twice.
* External clients: two listening ports both number their clients from 0;
  `INITSECURESOCKET` uses `r[i]`. `STARTINPUT` and `STOPINPUT` around an opening
  mix the messages.
* `get_max_reg` misses LDTN, ACCEPTCLIENTCONNECTION, CONNECTIPV4, PUBINPUT, PREP
  and parts of READFILESHARE and GBITCOM; the opcodes of base.gf2n for `modc` and
  `modci` are those of GMULBITC and GMULBITM; `gshlc`, `gshrc` and
  `gprotectmemint` are not parsed.
* `InverseProducer::get` skips slots that are zero and throws when none is left.

Compiler:

* `-C` puts inputs between STARTOPEN and STOPOPEN despite its comment; the
  register of an exit condition from an outer scope is not kept by `alloc_loop`;
  the aggregator of `range_loop` rounds down; dead code elimination drops the side
  effects of POPINT and INPUTMASK; `-m` with a gap left by `-D` raises a
  TypeError; inputs of one player in the two fields are reordered; RAND,
  `print_mem`, `starg`, `ldarg` and `inputmask` are not ordered;
  `max_parallel_open` makes chunks whose second STARTINPUT comes before the first
  STOPINPUT, and with both fields a STARTOPEN before the previous STOPOPEN. The
  menus leave these out.
* `permutation.iter_waksman` never compiles (`permutation.py:255` reads an
  undefined `inwards`), so that `shuffle`, `shuffle_entries`, `sort_zeroes` and
  `TreeORAM.batch_init` cannot run; `batch_init` also takes the bit-reversed leaf;
  that of PackedIndexStructure shifts by a tuple; `merge` pads with
  `len(b) - len(b)`; PathORAM with buckets of 3 uses 2 places; `util.cond_swap`
  swaps the other way round for a constant condition; overflow drops entries
  silently unless asked to crash; reading a PackedIndexStructure with one entry
  per block over a memory that is no list raises a TypeError.
* `dijkstra` on an unconnected graph pops vertex 0 from the empty heap; HeapQ
  holds one entry less than its levels say; `ExtInt.inf` can become 2.
* `sfloat` compares exponents with plen bits (`types.py:2085,2102,2203`), wrong if
  they differ by 2^(plen-1) or more; `SDiv` fits `sfloat.__div__` only with three
  rounds; `library.Norm` calls `PreOR` without `kappa`, and `AppRcr` so calls
  `TruncPr`, a TypeError in the constant-round variants; `PreORC` of more than
  `max_k` bits with m = 1 returns one of them; `KMulC` of one factor reads an
  unwritten register; the oblivious `Trunc` is wrong for m >= l; divisions by
  clear numbers do no round for k <= 7.
* `shlc` of the emulation differs from the machine where bits leave the limbs.

Arithmetic:

* `operator&` and `operator|` of `Math/Integer.h` return the exclusive or;
  `Mont_Mult` loses a carry for moduli of three or more limbs extremely close
  to a power of two; `int_to_modp` wraps for x < -p; `mul_by_bit` of gf2n_long
  goes lane by lane.
* A product of a plaintext and a ciphertext of level 0 throws `level_mismatch`
  with two primes (`Ciphertext.cpp:124-128`). Sums of plaintexts subtract the
  modulus only if greater, and leave p for 0; `+=` does not reduce, so that
  `equals` may fail. `to_vec_bigint` may return negative values, which
  `infinity_norm` takes as small. `sample_Hwt` shares one sign among eight draws.
  `HNF` does not end for a row without pivot, the unused `solve` of Matrix throws
  for n > 1, and `set_sec` throws if B is 0.

## 7. What is not modelled, and the plan

Not to be modelled: hashes, random generators and the cryptography of `STS`;
the bit matrices and base transfers of `OT` and the proofs of knowledge of
`FHEOffline`, which are statements about distributions; programs that only read
or write test files; samples. Not modelled in modelled parts: in `FHE`
characteristic 2 (`P2Data`, `QGroup`, `Matrix`, the factoring of `NTL-Subs`),
`PPData`, the noise bounds, input and output; in Opening the second MAC check of a
thread (`Online-Thread.cpp:125`, one per field, with the same connections); in the
machine the instructions of clients and printing; in the compiler memory blocks,
threads and schedules, functions with arguments, byte code, and the mathematical
functions outside the files above; trees set up with contents, blocks of one or
three slices (`oram.py:103`), matchings in which people rank fewer than all
(`gs.py:184,225`), `SDiv` of floats.

Small differences, which no property here tells apart:

* a purge that throws counts as made, as `purge_preprocessing` catches it
  (`Online-Thread.cpp:200`): `purged` says that it was tried;
* a purged file stays missing where `prune` would leave an empty one
  (`Buffer.cpp:57`): a tape that reads it fails either way, only its seek does not;
* the exceptions for too few stored values in `EndDirect` (`MAC_Check.cpp:96`) and
  for a message that is too short in `SumUp` (`MAC_Check.h:231`) cannot happen to
  parties that follow one tape, and are left out;
* `shares[player]`, which a second start of an input overwrites (`Input.cpp:37`), is
  in Processor; Opening has the messages only;
* INPUT at the end of `cin` goes on with what was in `x`, and a MODC or DIVINT by
  zero ends the process with a signal: in Processor the thread dies, and `cin`
  and the private input are one stream.

A party that dies alone in the middle of a computation is not modelled: the code
then reads 0 bytes in a loop (`sockets.h:72`) and promises nothing. The
benchmarking mode `INSECURE` is left out.

Plan, in this order:

1. **ParallelCheck**: `WaitQueue`, `Sender`, `Receiver`, `ThreadPlayer`, the
   `Summer` threads and `Parallel_MAC_Check`, on top of Opening's trees;
   properties: results in order, rotation of the base player agrees, `stop` ends
   every thread. Abstract specification: the serial opening.
2. **Offline**: `OfflineMachineBase`, the generator threads of `SimpleMachine`
   and the parties' agreement to stop; the batching of producers and
   sacrificing (`ncheck`); the hand-over of the OT triple generator; the messages
   of `DistKeyGen`.
3. **ExternalClients**: the client sockets that threads share;
   `AnonymousServerSocket` and `TwoPartyPlayer` for Startup.
4. **Compiler**: memory blocks, threads and schedules, functions.
5. **Proofs**, by priority: what the operators of Fields return for a prime of one
   limb; Exchange and Startup with a party that ends early; that Opening, with a
   component ParallelCheck, implements one step that opens the sum.
