--------------------------- MODULE CircularBuffer ---------------------------
(***************************************************************************)
(* The trace buffer of the tracing runtime (SlimmerRuntime.cpp): a ring of *)
(* blocks that every thread of the traced program appends events to under  *)
(* one spin lock, a compressor thread and a dumper thread that move full   *)
(* blocks to the trace file, four semaphores per block that hand the block *)
(* on, and the close protocol that exit() or a signal handler runs.        *)
(*                                                                         *)
(* An event is its thread and a sequence number; how many bytes it takes   *)
(* is chosen from EventSizes.  The bytes of a block are the sequence of    *)
(* the events stored since its offset was reset: what an earlier lap left  *)
(* behind them is overwritten with placeholders before the block is        *)
(* handed on.                                                              *)
(***************************************************************************)
EXTENDS Naturals, Sequences

CONSTANTS
    Threads,     \* the threads of the traced program
    NoThread,    \* no thread is closing the buffer
    BlockCnt,    \* COMPRESS_BLOCK_CNT
    BlockSize,   \* COMPRESS_BLOCK_SIZE
    EventSizes,  \* the sizes an event can have; 1 is the size of EndEvent
    MaxEvents,   \* bound: the events one thread records
    Signals      \* whether a fatal signal may interrupt a record function

ASSUME NoThreadAssumption == NoThread \notin Threads
ASSUME BlockAssumption == BlockCnt \in Nat \ {0} /\ BlockSize \in Nat \ {0}
ASSUME SizeAssumption == EventSizes \subseteq 1 .. BlockSize
ASSUME BoundAssumption == MaxEvents \in Nat /\ Signals \in BOOLEAN

VARIABLES
    append_lock,       \* the spin lock taken by StartAppend
    cur_block,         \* the block that is being written
    offset,            \* the bytes of it that are taken
    buffer,            \* block -> the events stored in it
    compressed,        \* block -> the events its compressed copy holds
    empty_buffer, filled_buffer, empty_compressed, filled_compressed,
    compress_done, dump_done,
    inited,
    pc, length, sent,  \* per thread: where it is, the size it asked for,
                       \* how many events it has recorded
    closer, cpc,       \* the thread in CloseBufferFile and where it is
    ci, cst,           \* the loop index and the place of CompressTrace
    di, dst,           \* the same for DumpCompressed
    log,               \* history: the events in the order of their appends
    file               \* the events in the trace file

lockVars == <<append_lock, cur_block, offset>>
semVars == <<empty_buffer, filled_buffer, empty_compressed, filled_compressed>>
threadVars == <<pc, length, sent>>
closeVars == <<closer, cpc, compress_done, dump_done, inited>>
workerVars == <<ci, cst, di, dst>>
vars == <<lockVars, buffer, compressed, semVars, threadVars, closeVars,
          workerVars, log, file>>

Blocks == 0 .. BlockCnt - 1
Event == [tid : Threads, n : 0 .. MaxEvents]
EndEvent(t) == [tid |-> t, n |-> 0]

(* ++i with the wrap of the three loops over the ring. *)
Succ(b) == IF b + 1 = BlockCnt THEN 0 ELSE b + 1

wait(sem, b) == sem[b] > 0 /\ sem' = [sem EXCEPT ![b] = @ - 1]
signal(sem, b) == sem' = [sem EXCEPT ![b] = @ + 1]

(* Mutation of EmptyAtInit: every block starts free, the first one too. *)
AllEmptyAtInit == [b \in Blocks |-> 1]

(* empty_buffer[i].init(i != 0): the appenders start with block 0. *)
EmptyAtInit == [b \in Blocks |-> IF b = 0 THEN 0 ELSE 1]

(* The state CircularBuffer::Init leaves: block 0 belongs to the appenders *)
(* and both workers have been created but have not run yet.                *)
Init ==
    /\ append_lock = FALSE /\ cur_block = 0 /\ offset = 0
    /\ buffer = [b \in Blocks |-> <<>>]
    /\ compressed = [b \in Blocks |-> <<>>]
    /\ empty_buffer = EmptyAtInit
    /\ filled_buffer = [b \in Blocks |-> 0]
    /\ empty_compressed = [b \in Blocks |-> 1]
    /\ filled_compressed = [b \in Blocks |-> 0]
    /\ compress_done = FALSE /\ dump_done = FALSE /\ inited = TRUE
    /\ pc = [t \in Threads |-> "run"]
    /\ length = [t \in Threads |-> 1]
    /\ sent = [t \in Threads |-> 0]
    /\ closer = NoThread /\ cpc = "none"
    /\ ci = 0 /\ cst = "test" /\ di = 0 /\ dst = "test"
    /\ log = <<>> /\ file = <<>>

-----------------------------------------------------------------------------
(* StartAppend, shared by the record functions and CloseBufferFile: take   *)
(* the lock, and either take len bytes of the current block or hand the    *)
(* block to the compressor and go on to wait for the next one.             *)

(* Mutation of Fits: one byte too many. *)
FitsOffByOne(len) == offset + len <= BlockSize + 1

Fits(len) == offset + len <= BlockSize

(* Mutation of TakeBytes: the lock is not waited for. *)
TakeBytesUnlocked(len) ==
    /\ append_lock' = TRUE
    /\ Fits(len)
    /\ offset' = offset + len
    /\ UNCHANGED <<cur_block, semVars>>

TakeBytes(len) ==
    /\ ~append_lock /\ append_lock' = TRUE
    /\ Fits(len)
    /\ offset' = offset + len
    /\ UNCHANGED <<cur_block, semVars>>

HandOver(len) ==
    /\ ~append_lock /\ append_lock' = TRUE
    /\ ~Fits(len)
    /\ signal(filled_buffer, cur_block)
    /\ cur_block' = Succ(cur_block)
    /\ UNCHANGED <<offset, empty_buffer, empty_compressed, filled_compressed>>

(* Mutation of TakeBlock: no placeholders hide the events of the last lap. *)
TakeBlockStale(len) ==
    /\ wait(empty_buffer, cur_block)
    /\ offset' = len
    /\ UNCHANGED <<append_lock, cur_block, buffer, filled_buffer,
                   empty_compressed, filled_compressed>>

(* Mutation of TakeBlock: the block is not waited for. *)
TakeBlockNoWait(len) ==
    /\ offset' = len
    /\ buffer' = [buffer EXCEPT ![cur_block] = <<>>]
    /\ UNCHANGED <<append_lock, cur_block, semVars>>

(* The wait for the next block ends; its old content is forgotten. *)
TakeBlock(len) ==
    /\ wait(empty_buffer, cur_block)
    /\ offset' = len
    /\ buffer' = [buffer EXCEPT ![cur_block] = <<>>]
    /\ UNCHANGED <<append_lock, cur_block, filled_buffer, empty_compressed,
                   filled_compressed>>

(* The fields of the event are stored and the lock is released. *)
Store(e) ==
    /\ buffer' = [buffer EXCEPT ![cur_block] = Append(@, e)]
    /\ log' = Append(log, e)
    /\ append_lock' = FALSE
    /\ UNCHANGED <<cur_block, offset>>

-----------------------------------------------------------------------------
(* The record functions, called by thread t.                               *)
(*                                                                         *)
(* Nothing stops the other threads while the buffer is closed: they go on  *)
(* recording behind EndEvent.  CloseBufferFile then gives the block they   *)
(* write to the compressor without taking the lock, and frees all blocks.  *)
(* A record function that is being executed at that moment, or starts      *)
(* afterwards, is a data race and undefined; the model says that it comes  *)
(* to this (CloseRaces) and ends, or has the threads stop recording.       *)

Ended == cpc \notin {"none", "lock", "wait", "end"}
GivenAway == cpc \in {"join_compress", "join_dump", "closed"}
Running(t) == closer # t /\ ~GivenAway /\ cpc # "raced"
InAppend == {t \in Threads : pc[t] # "run"}

RecordFits(t, len) ==
    /\ Running(t) /\ pc[t] = "run" /\ sent[t] < MaxEvents
    /\ TakeBytes(len)
    /\ pc' = [pc EXCEPT ![t] = "write"]
    /\ length' = [length EXCEPT ![t] = len]
    /\ UNCHANGED <<buffer, compressed, sent, closeVars, workerVars, log, file>>

RecordFull(t, len) ==
    /\ Running(t) /\ pc[t] = "run" /\ sent[t] < MaxEvents
    /\ HandOver(len)
    /\ pc' = [pc EXCEPT ![t] = "wait"]
    /\ length' = [length EXCEPT ![t] = len]
    /\ UNCHANGED <<buffer, compressed, sent, closeVars, workerVars, log, file>>

NextBlock(t) ==
    /\ Running(t) /\ pc[t] = "wait"
    /\ TakeBlock(length[t])
    /\ pc' = [pc EXCEPT ![t] = "write"]
    /\ UNCHANGED <<compressed, length, sent, closeVars, workerVars, log, file>>

EndRecord(t) ==
    /\ Running(t) /\ pc[t] = "write"
    /\ Store([tid |-> t, n |-> sent[t] + 1])
    /\ sent' = [sent EXCEPT ![t] = @ + 1]
    /\ pc' = [pc EXCEPT ![t] = "run"]
    /\ UNCHANGED <<compressed, semVars, length, closeVars, workerVars, file>>

-----------------------------------------------------------------------------
(* CloseBufferFile.  It runs on the thread that calls exit(), or on top of *)
(* whatever the thread that a fatal signal hits was doing.                 *)

EnterClose(t) ==
    /\ closer = NoThread /\ inited
    /\ closer' = t /\ cpc' = "lock"
    /\ UNCHANGED <<lockVars, buffer, compressed, semVars, threadVars,
                   compress_done, dump_done, inited, workerVars, log, file>>

Exit(t) == pc[t] = "run" /\ EnterClose(t)
Signal(t) == Signals /\ pc[t] # "run" /\ EnterClose(t)

CloseStep(from, to) ==
    /\ cpc = from /\ cpc' = to
    /\ UNCHANGED <<closer, threadVars, workerVars, compressed, file>>

CloseFits ==
    /\ CloseStep("lock", "end")
    /\ TakeBytes(1)
    /\ UNCHANGED <<buffer, compress_done, dump_done, inited, log>>

CloseFull ==
    /\ CloseStep("lock", "wait")
    /\ HandOver(1)
    /\ UNCHANGED <<buffer, compress_done, dump_done, inited, log>>

CloseNextBlock ==
    /\ CloseStep("wait", "end")
    /\ TakeBlock(1)
    /\ UNCHANGED <<compress_done, dump_done, inited, log>>

CloseStore ==
    /\ CloseStep("end", "flag_compress")
    /\ Store(EndEvent(closer))
    /\ UNCHANGED <<semVars, compress_done, dump_done, inited>>

CloseFlagCompress ==
    /\ CloseStep("flag_compress", "flag_dump")
    /\ compress_done' = TRUE
    /\ UNCHANGED <<lockVars, buffer, semVars, dump_done, inited, log>>

CloseFlagDump ==
    /\ CloseStep("flag_dump", "signal")
    /\ dump_done' = TRUE
    /\ UNCHANGED <<lockVars, buffer, semVars, compress_done, inited, log>>

(* Mutation of CloseSignal: the block after the last one is signalled. *)
CloseSignalNext ==
    /\ CloseStep("signal", "join_compress") /\ InAppend = {}
    /\ signal(filled_buffer, Succ(cur_block))
    /\ UNCHANGED <<lockVars, buffer, empty_buffer, empty_compressed,
                   filled_compressed, compress_done, dump_done, inited, log>>

CloseSignal ==
    /\ CloseStep("signal", "join_compress") /\ InAppend = {}
    /\ signal(filled_buffer, cur_block)
    /\ UNCHANGED <<lockVars, buffer, empty_buffer, empty_compressed,
                   filled_compressed, compress_done, dump_done, inited, log>>

(* The current block is given away while a record function uses it. *)
CloseRaces ==
    /\ CloseStep("signal", "raced") /\ InAppend # {}
    /\ UNCHANGED <<lockVars, buffer, semVars, compress_done, dump_done, inited, log>>

CloseJoinCompress ==
    /\ CloseStep("join_compress", "join_dump")
    /\ cst = "halted"
    /\ UNCHANGED <<lockVars, buffer, semVars, compress_done, dump_done, inited,
                   log>>

CloseJoinDump ==
    /\ CloseStep("join_dump", "closed")
    /\ dst = "halted"
    /\ inited' = FALSE
    /\ append_lock' = FALSE
    /\ UNCHANGED <<cur_block, offset, buffer, semVars, compress_done, dump_done,
                   log>>

-----------------------------------------------------------------------------
(* CompressTrace.  The two tests of compress_done around a lap of the ring *)
(* are one: nothing happens between them and both stop the thread.         *)

appendVars == <<lockVars, buffer, threadVars, closeVars, log>>

CompressTest ==
    /\ cst = "test"
    /\ cst' = IF compress_done THEN "halted" ELSE "filled"
    /\ UNCHANGED <<appendVars, compressed, semVars, ci, di, dst, file>>

CompressWaitFilled ==
    /\ cst = "filled" /\ cst' = "empty"
    /\ wait(filled_buffer, ci)
    /\ UNCHANGED <<appendVars, compressed, empty_buffer, empty_compressed,
                   filled_compressed, ci, di, dst, file>>

CompressWaitEmpty ==
    /\ cst = "empty" /\ cst' = "lz4"
    /\ wait(empty_compressed, ci)
    /\ UNCHANGED <<appendVars, compressed, empty_buffer, filled_buffer,
                   filled_compressed, ci, di, dst, file>>

CompressBlock ==
    /\ cst = "lz4" /\ cst' = "signal_filled"
    /\ compressed' = [compressed EXCEPT ![ci] = buffer[ci]]
    /\ UNCHANGED <<appendVars, semVars, ci, di, dst, file>>

CompressSignalFilled ==
    /\ cst = "signal_filled" /\ cst' = "signal_empty"
    /\ signal(filled_compressed, ci)
    /\ UNCHANGED <<appendVars, compressed, empty_buffer, filled_buffer,
                   empty_compressed, ci, di, dst, file>>

(* Mutation of CompressSignalEmpty: the block is not given back. *)
CompressKeepsBlock ==
    /\ cst = "signal_empty" /\ cst' = "test"
    /\ ci' = Succ(ci)
    /\ UNCHANGED <<appendVars, compressed, semVars, di, dst, file>>

CompressSignalEmpty ==
    /\ cst = "signal_empty" /\ cst' = "test"
    /\ signal(empty_buffer, ci)
    /\ ci' = Succ(ci)
    /\ UNCHANGED <<appendVars, compressed, filled_buffer, empty_compressed,
                   filled_compressed, di, dst, file>>

-----------------------------------------------------------------------------
(* DumpCompressed, with the fwrite loop of Dump as one step. *)

DumpTest ==
    /\ dst = "test"
    /\ dst' = IF dump_done THEN "halted" ELSE "filled"
    /\ UNCHANGED <<appendVars, compressed, semVars, ci, cst, di, file>>

DumpWaitFilled ==
    /\ dst = "filled" /\ dst' = "dump"
    /\ wait(filled_compressed, di)
    /\ UNCHANGED <<appendVars, compressed, empty_buffer, filled_buffer,
                   empty_compressed, ci, cst, di, file>>

Dump ==
    /\ dst = "dump" /\ dst' = "signal"
    /\ file' = file \o compressed[di]
    /\ UNCHANGED <<appendVars, compressed, semVars, ci, cst, di>>

(* Mutation of DumpSignalEmpty: the compressed copy is not given back. *)
DumpKeepsCopy ==
    /\ dst = "signal" /\ dst' = "test"
    /\ di' = Succ(di)
    /\ UNCHANGED <<appendVars, compressed, semVars, ci, cst, file>>

DumpSignalEmpty ==
    /\ dst = "signal" /\ dst' = "test"
    /\ signal(empty_compressed, di)
    /\ di' = Succ(di)
    /\ UNCHANGED <<appendVars, compressed, empty_buffer, filled_buffer,
                   filled_compressed, ci, cst, file>>

-----------------------------------------------------------------------------
CompressTrace ==
    \/ CompressTest \/ CompressWaitFilled \/ CompressWaitEmpty
    \/ CompressBlock \/ CompressSignalFilled \/ CompressSignalEmpty

DumpCompressed ==
    DumpTest \/ DumpWaitFilled \/ Dump \/ DumpSignalEmpty

Close ==
    \/ CloseFits \/ CloseFull \/ CloseNextBlock \/ CloseStore
    \/ CloseFlagCompress \/ CloseFlagDump \/ CloseSignal \/ CloseRaces
    \/ CloseJoinCompress \/ CloseJoinDump

Record(t) ==
    \/ \E len \in EventSizes : RecordFits(t, len) \/ RecordFull(t, len)
    \/ NextBlock(t)
    \/ EndRecord(t)

Next ==
    \/ \E t \in Threads : Record(t) \/ Exit(t) \/ Signal(t)
    \/ Close
    \/ CompressTrace
    \/ DumpCompressed

Spec == Init /\ [][Next]_vars

(* The operating system runs every thread that can run.  Nothing makes a   *)
(* thread of the program record an event, exit or receive a signal.        *)
Fairness ==
    /\ \A t \in Threads : WF_vars(NextBlock(t)) /\ WF_vars(EndRecord(t))
    /\ WF_vars(Close)
    /\ WF_vars(CompressTrace)
    /\ WF_vars(DumpCompressed)

FairSpec == Spec /\ Fairness

-----------------------------------------------------------------------------
(* Properties *)

ThreadPlaces == {"run", "wait", "write"}
ClosePlaces == {"none", "lock", "wait", "end", "flag_compress", "flag_dump",
                "signal", "join_compress", "join_dump", "closed", "raced"}
CompressPlaces == {"test", "filled", "empty", "lz4", "signal_filled",
                   "signal_empty", "halted"}
DumpPlaces == {"test", "filled", "dump", "signal", "halted"}

(* Every variable keeps its type.  A semaphore never counts above one, so  *)
(* it hands over a block and does not accumulate.                          *)
TypeOK ==
    /\ append_lock \in BOOLEAN /\ cur_block \in Blocks
    /\ offset \in 0 .. BlockSize
    /\ buffer \in [Blocks -> Seq(Event)]
    /\ compressed \in [Blocks -> Seq(Event)]
    /\ empty_buffer \in [Blocks -> {0, 1}]
    /\ filled_buffer \in [Blocks -> {0, 1}]
    /\ empty_compressed \in [Blocks -> {0, 1}]
    /\ filled_compressed \in [Blocks -> {0, 1}]
    /\ compress_done \in BOOLEAN /\ dump_done \in BOOLEAN /\ inited \in BOOLEAN
    /\ pc \in [Threads -> ThreadPlaces]
    /\ length \in [Threads -> 1 .. BlockSize]
    /\ sent \in [Threads -> 0 .. MaxEvents]
    /\ closer \in Threads \cup {NoThread} /\ cpc \in ClosePlaces
    /\ ci \in Blocks /\ cst \in CompressPlaces
    /\ di \in Blocks /\ dst \in DumpPlaces
    /\ log \in Seq(Event) /\ file \in Seq(Event)

(* The place inside CloseBufferFile or a record function that the holder   *)
(* of the lock is at.                                                      *)
Writing == cpc = "end" \/ \E t \in Threads : pc[t] = "write"
Waiting == cpc = "wait" \/ \E t \in Threads : pc[t] = "wait"

(* The four places a block can be: free, full, with the compressor, or     *)
(* with the appenders, who give the last one away when the buffer closes.  *)
CompressorHas(b) ==
    ci = b /\ cst \in {"empty", "lz4", "signal_filled", "signal_empty"}
AppendersHave(b) == cur_block = b /\ ~Waiting /\ ~GivenAway

(* The same for the compressed copy of a block. *)
CompressorFills(b) == ci = b /\ cst \in {"lz4", "signal_filled"}
DumperHas(b) == di = b /\ dst \in {"dump", "signal"}

One(P) == IF P THEN 1 ELSE 0

(* Each block, and each compressed copy, is at exactly one place at any    *)
(* time: the semaphores never duplicate nor drop a block, in any           *)
(* interleaving of the appending threads, both workers and the close       *)
(* (StartAppend, CompressTrace, DumpCompressed, CloseBufferFile).          *)
OnePlace ==
    \A b \in Blocks :
        /\ empty_buffer[b] + filled_buffer[b] + One(CompressorHas(b))
              + One(AppendersHave(b)) = 1
        /\ empty_compressed[b] + filled_compressed[b] + One(CompressorFills(b))
              + One(DumperHas(b)) = 1

(* The compressor never reads a block that a record function is storing    *)
(* into, and the dumper never reads a compressed copy that LZ4 is writing: *)
(* neither is protected by the spin lock.  It holds behind EndEvent too,   *)
(* as long as no thread is recording when CloseBufferFile gives the        *)
(* current block away (CloseRaces), or does so afterwards.                 *)
NoDataRace ==
    /\ ~(Writing /\ CompressorHas(cur_block))
    /\ ~(cst = "lz4" /\ dst = "dump" /\ ci = di)

(* One thread at a time is between StartAppend and EndAppend, and the lock *)
(* is held while it is, also when a signal handler is closing the buffer.  *)
LockHolder ==
    /\ \A t, u \in InAppend : t = u
    /\ (InAppend # {} \/ cpc \in {"wait", "end"}) => append_lock
    /\ ~(InAppend # {} /\ cpc \in {"wait", "end"})

(* The file is at any time a prefix of the log: blocks arrive whole, once  *)
(* and in the order they were filled, whatever the workers' timing is.     *)
Trace == INSTANCE TraceLog WITH appended <- log, written <- file
ImplementsTraceLog == Trace!LogSpec

Elems(s) == {s[i] : i \in DOMAIN s}

(* An event in a block handed to the compressor reaches the file unless    *)
(* the close starts: the workers neither stop nor block one another.       *)
FullBlockReachesFile ==
    \A e \in Event :
        (\E b \in Blocks : filled_buffer[b] = 1 /\ e \in Elems(buffer[b]))
            ~> (e \in Elems(file) \/ compress_done)

(* A thread that holds the lock gets its block and releases the lock, as   *)
(* long as no signal handler replaces it and the close does not catch up   *)
(* with it: waiting for a free block in StartAppend cannot block the       *)
(* traced program for ever.                                                *)
AppendReturns ==
    \A t \in Threads :
        pc[t] # "run" ~> (pc[t] = "run" \/ closer = t \/ cpc = "raced")

(* Both workers wait for the block that holds EndEvent, and the dumper is  *)
(* not a whole lap behind.                                                 *)
CaughtUp ==
    /\ cst = "filled" /\ ci = cur_block
    /\ dst = "filled" /\ di = cur_block /\ filled_compressed[di] = 0

(* Another thread has begun to record, or has recorded, behind EndEvent. *)
RecordedLate == Ended /\ (InAppend # {} \/ log[Len(log)].n # 0)

(* When both workers have caught up before CloseBufferFile sets its flags, *)
(* and no other thread records from then on, the close returns and the     *)
(* file holds every event.                                                 *)
CaughtUpClose ==
    (cpc = "flag_compress" /\ CaughtUp)
        ~> ((cpc = "closed" /\ file = log) \/ RecordedLate)

(* "Flush all the buffered log into the file, and then close the file."    *)
(* (the comment on CloseBufferFile).                                       *)
CloseFlushes == cpc = "closed" => file = log

(* The close ends: finish() is registered with atexit to "make sure that   *)
(* we flush the entry/value buffer on exit".                               *)
CloseReturns == cpc = "signal" ~> cpc = "closed"

(* The handlers are registered "for flushing the tracing data to file"     *)
(* (recordInit): a signal leads to EndEvent in the buffer.                 *)
HandlerFlushes == (cpc = "lock" /\ pc[closer] # "run") ~> Ended
=============================================================================
