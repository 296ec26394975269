----------------------------- MODULE DataFiles -----------------------------
(***************************************************************************)
(* The preprocessed data of one party (Processor/Data_Files.cpp and        *)
(* Processor/Buffer.cpp): files of items that every worker thread reads    *)
(* through its own buffers, starting at the position the machine gives to  *)
(* its tape; at the end of a run what was used is cut off the files        *)
(* (prune), or the files are removed (purge) if something went wrong.      *)
(*                                                                         *)
(* A stream is a kind of data of one field: a fixed kind such as triples   *)
(* and bits, or a tag named by a PREP instruction.  A tuple of a stream is *)
(* a number of items (shares).  A file is known by the number of items cut *)
(* off its front and by its original length, an item by its place in the   *)
(* original file.  A file position counts items.                           *)
(*                                                                         *)
(* Machine and the threads are reduced to what decides the positions:      *)
(* OnlineMachine has their synchronisation.                                *)
(***************************************************************************)
EXTENDS Integers, Sequences, FiniteSets, SequencesExt

CONSTANTS
    Threads,
    Kinds,        \* streams of the fixed kinds
    Tags,         \* streams of PREP instructions
    Sizes,        \* [Streams -> the sizes tuples are read in]
    Items,        \* [Streams -> items in the file at the beginning]
    BufferSize,   \* BUFFER_SIZE
    IntModulus,   \* 2^32: int is -IntModulus/2 .. IntModulus/2 - 1
    Needs,        \* bound: what a tape may use, of [Streams -> Nat]
    MaxTapes,     \* bound: tapes of a run
    MaxRuns       \* bound: runs of the program

Streams == Kinds \cup Tags

ASSUME StreamsAssumption == Kinds \cap Tags = {}
ASSUME SizesAssumption ==
    /\ Sizes \in [Streams -> SUBSET (Nat \ {0})]
    /\ \A s \in Kinds : \E n \in Sizes[s] : Sizes[s] = {n}
ASSUME ItemsAssumption == Items \in [Streams -> Nat]
ASSUME BoundsAssumption ==
    /\ Needs \subseteq [Streams -> Nat] /\ [s \in Streams |-> 0] \notin Needs
    /\ {BufferSize, IntModulus, MaxTapes, MaxRuns} \subseteq Nat \ {0}
    /\ IntModulus % 2 = 0

TupleSize(s) == CHOOSE n \in Sizes[s] : TRUE      \* tuple_size[dtype]

VARIABLES
    present,    \* [Streams -> BOOLEAN] the file exists
    start,      \* [Streams -> Nat] items prune() has cut off the file
    lengths,    \* tuple_lengths: [Tags -> Nat], 0 for a tag not in the map
    locked,     \* tuple_lengths_lock is held by a thread that threw
    buf,        \* [Threads -> [Streams -> buffer]]
    usage,      \* [Threads -> [Streams -> Nat]] Data_Files::usage
    mode,       \* [Threads -> {"idle", "known", "unknown"}] the tape it runs
    threw,      \* [Threads -> BOOLEAN] an exception left the tape
    budget,     \* [Threads -> [Streams -> Nat]] tuples the tape may still read
    pos,        \* [Streams -> Nat] Machine::pos
    process,    \* "running" or "over"
    tapes, runs,
    taken,      \* ghost: [Streams -> SUBSET Nat] items that were read
    again,      \* ghost: [Streams -> SUBSET Nat] items that were read twice
    given,      \* ghost: [Streams -> Nat] tuples given to tapes, in all runs
    got         \* ghost: [Threads -> places in its file of the last tuple read]

files == <<present, start>>
shared == <<lengths, locked>>
bounds == <<tapes, runs>>
ghosts == <<taken, again, given, got>>
vars == <<files, shared, buf, usage, mode, threw, budget, pos, process, bounds, ghosts>>

(* A buffer: is_up(), tuple_length, next, the position of its file, the    *)
(* item in its first place; out and failed are the result of a call.       *)
NoBuffer == [up |-> FALSE, length |-> -1, next |-> BufferSize, tell |-> 0,
             block |-> 0, out |-> <<>>, failed |-> FALSE]
SetUp(length) == [NoBuffer EXCEPT !.up = TRUE, !.length = length]
NewBuffers ==
    [s \in Streams |-> IF s \in Kinds THEN SetUp(TupleSize(s)) ELSE NoBuffer]

Zero == [s \in Streams |-> 0]

Init ==
    /\ present = [s \in Streams |-> TRUE]
    /\ start = Zero
    /\ lengths = [s \in Tags |-> 0]
    /\ locked = FALSE
    /\ buf = [t \in Threads |-> NewBuffers]
    /\ usage = [t \in Threads |-> Zero]
    /\ mode = [t \in Threads |-> "idle"]
    /\ threw = [t \in Threads |-> FALSE]
    /\ budget = [t \in Threads |-> Zero]
    /\ pos = Zero
    /\ process = "running"
    /\ tapes = 0 /\ runs = 1
    /\ taken = [s \in Streams |-> {}]
    /\ again = [s \in Streams |-> {}]
    /\ given = Zero
    /\ got = [t \in Threads |-> <<>>]

-----------------------------------------------------------------------------
(* Buffer.                                                                 *)

(* int arithmetic, as compiled: it wraps around.                           *)
AsInt(x) == ((x + IntModulus \div 2) % IntModulus) - IntModulus \div 2

SeekKeeps(s, p, b) ==                        \* slip: the buffer is kept
    LET offset == AsInt(p * b.length)
    IN  IF (offset < 0 \/ ~present[s]) /\ p # 0
        THEN [b EXCEPT !.failed = TRUE]
        ELSE [b EXCEPT !.tell = offset]

(* BufferBase::seekg: a position beyond the end is no error for a file.    *)
Seek(s, p, b) ==
    LET offset == AsInt(p * b.length)
    IN  IF (offset < 0 \/ ~present[s]) /\ p # 0
        THEN [b EXCEPT !.failed = TRUE]
        ELSE [b EXCEPT !.tell = offset, !.next = BufferSize]

(* fill_buffer reads BUFFER_SIZE items or throws: at the end of the file   *)
(* try_rewind throws, and read fails if there is no file.                  *)
Short(s, b) == ~present[s] \/ b.tell + BufferSize > Items[s] - start[s]
Fill(s, b) ==
    IF Short(s, b) THEN [b EXCEPT !.failed = TRUE]
    ELSE [b EXCEPT !.block = start[s] + b.tell, !.tell = @ + BufferSize, !.next = 0]

Deliver(b) == [b EXCEPT !.out = Append(@, b.block + b.next), !.next = @ + 1]

InputTwiceAtEnd(s, b) ==                     \* slip: filled one item early
    IF b.next >= BufferSize - 1 THEN Deliver(Fill(s, b)) ELSE Deliver(b)

Input(s, b) ==
    IF b.failed THEN b
    ELSE IF b.next # BufferSize THEN Deliver(b)
    ELSE IF Short(s, b) THEN Fill(s, b)
    ELSE Deliver(Fill(s, b))

Inputs(s, b, n) ==
    LET after[k \in 0 .. n] ==
            IF k = 0 THEN [b EXCEPT !.out = <<>>] ELSE Input(s, after[k - 1])
    IN  after[n]

-----------------------------------------------------------------------------
(* Data_Files.                                                             *)

(* setup_extended: the length a new buffer gets was read from the map      *)
(* before the map was written.  With tuple_size 0, as seekg calls it, the  *)
(* map is left as it is.                                                   *)
Inconsistent(s, size) == lengths[s] > 0 /\ size > 0 /\ size # lengths[s]
LengthsAfter(s, size) == IF lengths[s] > 0 THEN lengths[s] ELSE size
SetupExtended(s, b) == IF b.up THEN b ELSE SetUp(lengths[s])

(* seekg: the tags it knows are those of the positions it is given.        *)
SeekAll(bs, p) ==
    [s \in Streams |->
        IF s \in Kinds THEN Seek(s, p[s], bs[s])
        ELSE IF p[s] > 0 THEN Seek(s, p[s], SetupExtended(s, bs[s]))
        ELSE bs[s]]

Fails(bs) == \E s \in Streams : bs[s].failed
UsesTags(p) == \E s \in Tags : p[s] > 0

(* Data_Files::seekg by thread t, for a tape or for skip.                  *)
SeekTo(t, p) ==
    /\ UsesTags(p) => ~locked
    /\ LET bs == SeekAll(buf[t], p) IN
       /\ buf' = [buf EXCEPT ![t] = bs]
       /\ threw' = [threw EXCEPT ![t] = Fails(bs)]
       /\ usage' = IF Fails(bs) THEN usage ELSE [usage EXCEPT ![t] = p]

Add(p, q) == [s \in Streams |-> p[s] + q[s]]        \* DataPositions::increase
Sub(p, q) == [s \in Streams |-> p[s] - q[s]]

-----------------------------------------------------------------------------
(* Machine hands tapes to threads.                                         *)

Alive == process = "running" /\ tapes < MaxTapes

(* A tape that declares what it uses: the next one starts after it.        *)
RunTape(t, need) ==
    /\ Alive /\ mode[t] = "idle" /\ \A u \in Threads : mode[u] # "unknown"
    /\ SeekTo(t, pos)
    /\ mode' = [mode EXCEPT ![t] = "known"]
    /\ budget' = [budget EXCEPT ![t] = need]
    /\ pos' = Add(pos, need)
    /\ given' = Add(given, need)
    /\ tapes' = tapes + 1
    /\ UNCHANGED <<files, shared, process, runs, taken, again, got>>

(* A tape whose use is not known runs alone.                               *)
RunUnknown(t, need) ==
    /\ Alive /\ \A u \in Threads : mode[u] = "idle"
    /\ SeekTo(t, pos)
    /\ mode' = [mode EXCEPT ![t] = "unknown"]
    /\ budget' = [budget EXCEPT ![t] = need]
    /\ tapes' = tapes + 1
    /\ UNCHANGED <<files, shared, pos, process, runs, ghosts>>

Running(t) == process = "running" /\ mode[t] # "idle" /\ ~threw[t]

(* What the call returned, or that it threw.                               *)
Returned(t, s, b, n, vector) ==
    /\ buf' = [buf EXCEPT ![t][s] = [b EXCEPT !.out = <<>>]]
    /\ threw' = [threw EXCEPT ![t] = b.failed]
    /\ IF b.failed THEN UNCHANGED <<taken, again, got>>
       ELSE /\ again' = [again EXCEPT ![s] = @ \cup (taken[s] \cap ToSet(b.out))]
            /\ taken' = [taken EXCEPT ![s] = @ \cup ToSet(b.out)]
            /\ got' = [got EXCEPT ![t] =
                  [k \in 1 .. n |-> b.out[n * (vector - 1) + k] - start[s]]]

(* get_three, get_two, get_one and get_input.                              *)
Get(t, s) ==
    /\ Running(t) /\ budget[t][s] > 0
    /\ budget' = [budget EXCEPT ![t][s] = @ - 1]
    /\ usage' = [usage EXCEPT ![t][s] = @ + 1]
    /\ LET n == TupleSize(s) IN Returned(t, s, Inputs(s, buf[t][s], n), n, 1)
    /\ UNCHANGED <<files, shared, mode, pos, process, bounds, given>>

(* PREP: vector_size tuples of n items each.                               *)
GetExtended(t, s, n, vector) ==
    /\ Running(t) /\ budget[t][s] >= vector /\ ~locked
    /\ budget' = [budget EXCEPT ![t][s] = @ - vector]
    /\ usage' = [usage EXCEPT ![t][s] = @ + vector]
    /\ IF Inconsistent(s, n)
       THEN /\ locked' = TRUE
            /\ threw' = [threw EXCEPT ![t] = TRUE]
            /\ UNCHANGED <<lengths, buf, taken, again, got>>
       ELSE /\ lengths' = [lengths EXCEPT ![s] = LengthsAfter(s, n)]
            /\ Returned(t, s, Inputs(s, SetupExtended(s, buf[t][s]), n * vector), n, vector)
            /\ UNCHANGED locked
    /\ UNCHANGED <<files, mode, pos, process, bounds, given>>

(* RUN_TAPE in a tape: it skips what the tape it has started uses.         *)
Skip(t, s) ==
    /\ Running(t) /\ budget[t][s] > 0
    /\ SeekTo(t, [usage[t] EXCEPT ![s] = @ + 1])
    /\ budget' = [budget EXCEPT ![t][s] = @ - 1]
    /\ UNCHANGED <<files, shared, mode, pos, process, bounds, ghosts>>

FinishAdds(t) ==                             \* slip: usage taken for an increase
    /\ Running(t)
    /\ mode' = [mode EXCEPT ![t] = "idle"]
    /\ IF mode[t] = "unknown"
       THEN pos' = Add(pos, usage[t]) /\ given' = Add(given, Sub(usage[t], pos))
       ELSE UNCHANGED <<pos, given>>
    /\ UNCHANGED <<files, shared, buf, usage, threw, budget, process, bounds, taken, again, got>>

(* The end of a tape; a tape of unknown use reports its positions.         *)
Finish(t) ==
    /\ Running(t)
    /\ mode' = [mode EXCEPT ![t] = "idle"]
    /\ IF mode[t] = "unknown"
       THEN pos' = usage[t] /\ given' = Add(given, Sub(usage[t], pos))
       ELSE UNCHANGED <<pos, given>>
    /\ UNCHANGED <<files, shared, buf, usage, threw, budget, process, bounds, taken, again, got>>

-----------------------------------------------------------------------------
(* The end of a run.                                                       *)

(* purge_preprocessing: a new Data_Files removes the files it opens, and   *)
(* it opens no tag.                                                        *)
Purge == present' = [s \in Streams |-> present[s] /\ s \notin Kinds]

(* Main_Func's handler; rethrowing ends the process.                       *)
ThreadDies(t) ==
    /\ process = "running" /\ threw[t]
    /\ Purge
    /\ process' = "over"
    /\ UNCHANGED <<start, shared, buf, usage, mode, threw, budget, pos, bounds, ghosts>>

MinOf(a, b) == IF a < b THEN a ELSE b

(* BufferBase::prune copies what is behind the position.                   *)
Pruned(s, b) ==
    IF b.up /\ present[s] THEN MinOf(start[s] + b.tell, Items[s]) ELSE start[s]

PruneUnsought ==                             \* slip: prune without seekg
    /\ process = "running" /\ \A t \in Threads : mode[t] = "idle"
    /\ start' = [s \in Streams |-> Pruned(s, NewBuffers[s])]
    /\ process' = "over"
    /\ UNCHANGED <<present, shared, buf, usage, mode, threw, budget, pos, bounds, ghosts>>

(* Machine::run: a new Data_Files is moved to pos and prunes its files;    *)
(* the handler of Player-Online purges if that throws.                     *)
EndOfRun ==
    /\ process = "running" /\ \A t \in Threads : mode[t] = "idle"
    /\ LET bs == SeekAll(NewBuffers, pos) IN
       IF Fails(bs) THEN Purge /\ UNCHANGED start
       ELSE start' = [s \in Streams |-> Pruned(s, bs[s])] /\ UNCHANGED present
    /\ process' = "over"
    /\ UNCHANGED <<shared, buf, usage, mode, threw, budget, pos, bounds, ghosts>>

(* The program is run again, in a new process.                             *)
NextRun ==
    /\ process = "over" /\ runs < MaxRuns
    /\ runs' = runs + 1 /\ tapes' = 0
    /\ process' = "running"
    /\ lengths' = [s \in Tags |-> 0] /\ locked' = FALSE
    /\ buf' = [t \in Threads |-> NewBuffers]
    /\ usage' = [t \in Threads |-> Zero]
    /\ mode' = [t \in Threads |-> "idle"]
    /\ threw' = [t \in Threads |-> FALSE]
    /\ budget' = [t \in Threads |-> Zero]
    /\ pos' = Zero
    /\ got' = [t \in Threads |-> <<>>]
    /\ UNCHANGED <<files, taken, again, given>>

Next ==
    \/ \E t \in Threads :
          \/ \E need \in Needs : RunTape(t, need) \/ RunUnknown(t, need)
          \/ \E s \in Kinds : Get(t, s)
          \/ \E s \in Tags : \E n \in Sizes[s], v \in 1 .. budget[t][s] : GetExtended(t, s, n, v)
          \/ \E s \in Streams : Skip(t, s)
          \/ Finish(t) \/ ThreadDies(t)
    \/ EndOfRun
    \/ NextRun

Spec == Init /\ [][Next]_vars

-----------------------------------------------------------------------------
(* A tuple is a tuple of the file, in its order, even where it is cut in   *)
(* two by the end of a buffer, which no tuple size divides.                *)
TuplesAreWhole ==
    \A t \in Threads : LET g == got[t] IN
        g # <<>> => g[1] % Len(g) = 0 /\ \A k \in DOMAIN g : g[k] = g[1] + k - 1

(* The next item a tape reads is the first of the tuple its usage counts   *)
(* to: what usage reports to the machine and what skip starts from is the  *)
(* place the buffers are at.                                               *)
Upcoming(s, b) == IF b.next = BufferSize THEN start[s] + b.tell ELSE b.block + b.next
BuffersFollowUsage ==
    \A t \in Threads, s \in Kinds :
        Running(t) => Upcoming(s, buf[t][s]) = start[s] + usage[t][s] * TupleSize(s)

(* No item of the fixed kinds is read twice, by no two tapes, threads or   *)
(* runs: the positions given to tapes, seekg, the buffers and prune agree. *)
ItemsUsedOnce ==
    /\ \A s \in Kinds : again[s] = {}
    /\ BuffersFollowUsage

(* When the process is over no file of a fixed kind still has an item that *)
(* was read, also if the process ended by an exception.                    *)
UsedItemsDiscarded ==
    process = "over" =>
        \A s \in Kinds : present[s] => \A x \in taken[s] : x < start[s]

(* A thread throws only if two sizes were asked of a tag, or if data is    *)
(* short: a file, gone or not, has less than a buffer beyond what tapes    *)
(* were given.                                                             *)
FailsOnlyWhenShort ==
    \A t \in Threads : threw[t] =>
        \/ locked
        \/ \E s \in Streams : \E n \in Sizes[s], need \in Needs :
              ~present[s] \/ Items[s] < (given[s] + need[s]) * n + BufferSize
=============================================================================
