------------------------ MODULE CircularBufferProofs ------------------------
(***************************************************************************)
(* Proofs about CircularBuffer, for any threads, any number and size of    *)
(* blocks, any sizes of events, with and without fatal signals.  The first *)
(* part is about locks, blocks and types, the second about the file: it is *)
(* a prefix of the log, so that CircularBuffer implements TraceLog.        *)
(***************************************************************************)
EXTENDS CircularBuffer, SequenceLemmas, SequenceTheorems

(* The types, with semaphores that may count to any number: that they stay *)
(* at zero or one is a consequence of OnePlace and not of the guards.      *)
Types ==
    /\ append_lock \in BOOLEAN /\ cur_block \in Blocks
    /\ offset \in 0 .. BlockSize
    /\ buffer \in [Blocks -> Seq(Event)]
    /\ compressed \in [Blocks -> Seq(Event)]
    /\ empty_buffer \in [Blocks -> Nat]
    /\ filled_buffer \in [Blocks -> Nat]
    /\ empty_compressed \in [Blocks -> Nat]
    /\ filled_compressed \in [Blocks -> Nat]
    /\ compress_done \in BOOLEAN /\ dump_done \in BOOLEAN /\ inited \in BOOLEAN
    /\ pc \in [Threads -> ThreadPlaces]
    /\ length \in [Threads -> 1 .. BlockSize]
    /\ sent \in [Threads -> 0 .. MaxEvents]
    /\ closer \in Threads \cup {NoThread} /\ cpc \in ClosePlaces
    /\ ci \in Blocks /\ cst \in CompressPlaces
    /\ di \in Blocks /\ dst \in DumpPlaces
    /\ log \in Seq(Event) /\ file \in Seq(Event)

(* What connects the places of the threads: a thread inside a record       *)
(* function has an event left to record, CloseBufferFile runs on a thread, *)
(* and once the current block is given away no thread is inside a record   *)
(* function.                                                               *)
Places ==
    /\ \A t \in Threads : pc[t] # "run" => sent[t] < MaxEvents
    /\ cpc = "none" <=> closer = NoThread
    /\ GivenAway => InAppend = {}

IInv == Types /\ Places /\ LockHolder /\ OnePlace

-----------------------------------------------------------------------------
(* The next block of the ring is a block (StartAppend wraps cur_block). *)
LEMMA SuccType == ASSUME NEW b \in Blocks PROVE Succ(b) \in Blocks
  BY BlockAssumption DEF Succ, Blocks

(* signal and wait, applied to the semaphores of the ring. *)
LEMMA SignalType ==
  ASSUME NEW f \in [Blocks -> Nat], NEW b \in Blocks
  PROVE  [f EXCEPT ![b] = @ + 1] \in [Blocks -> Nat]
OBVIOUS

(* A wait that returns finds a positive count and leaves a natural one. *)
LEMMA WaitType ==
  ASSUME NEW f \in [Blocks -> Nat], NEW b \in Blocks, f[b] > 0
  PROVE  [f EXCEPT ![b] = @ - 1] \in [Blocks -> Nat]
OBVIOUS

(* Assigning one element of a function, and appending to one sequence. *)
LEMMA ExceptType ==
  ASSUME NEW S, NEW T, NEW f \in [S -> T], NEW s \in S, NEW v \in T
  PROVE  [f EXCEPT ![s] = v] \in [S -> T]
OBVIOUS

(* Storing an event in a block leaves sequences of events in the ring. *)
LEMMA StoreType ==
  ASSUME NEW f \in [Blocks -> Seq(Event)], NEW b \in Blocks, NEW e \in Event
  PROVE  [f EXCEPT ![b] = Append(@, e)] \in [Blocks -> Seq(Event)]
OBVIOUS

(* Dumping a compressed copy leaves a sequence of events in the file. *)
LEMMA ConcatType ==
  ASSUME NEW s \in Seq(Event), NEW r \in Seq(Event)
  PROVE  s \o r \in Seq(Event)
OBVIOUS

(* Storing an event leaves a sequence of events in the log. *)
LEMMA AppendType ==
  ASSUME NEW s \in Seq(Event), NEW e \in Event
  PROVE  Append(s, e) \in Seq(Event)
OBVIOUS

(* A block whose offset is reset holds a sequence of events. *)
LEMMA EmptyType == <<>> \in Seq(Event)
OBVIOUS

(* The sizes of events, and the bytes TakeBytes takes. *)
LEMMA SizeType ==
  /\ EventSizes \subseteq 1 .. BlockSize
  /\ 1 \in 1 .. BlockSize
  /\ 1 .. BlockSize \subseteq 0 .. BlockSize
BY SizeAssumption, BlockAssumption

(* A block never has more bytes taken than it has (StartAppend). *)
LEMMA FitsType ==
  ASSUME offset \in 0 .. BlockSize, NEW len \in 1 .. BlockSize, Fits(len)
  PROVE  offset + len \in 0 .. BlockSize
BY BlockAssumption DEF Fits

(* Counting an event that was left to record stays within the bound. *)
LEMMA SentType ==
  ASSUME NEW n \in 0 .. MaxEvents, n < MaxEvents
  PROVE  n + 1 \in 0 .. MaxEvents
BY BoundAssumption

(* CircularBuffer::Init establishes the inductive invariant. *)
LEMMA InitIInv == Init => IInv
<1> SUFFICES ASSUME Init PROVE IInv
  OBVIOUS
<1> USE DEF Init
<1>1. Types
  <2>1. /\ 0 \in Blocks /\ 0 \in 0 .. BlockSize /\ 1 \in 1 .. BlockSize
        /\ 0 \in 0 .. MaxEvents
    BY BlockAssumption, BoundAssumption DEF Blocks
  <2>2. <<>> \in Seq(Event)
    BY EmptyType
  <2> QED
    BY <2>1, <2>2
    DEF Types, EmptyAtInit, ThreadPlaces, ClosePlaces, CompressPlaces, DumpPlaces
<1>2. Places
  BY DEF Places, GivenAway
<1>3. LockHolder
  BY DEF LockHolder, InAppend
<1>4. OnePlace
  BY DEF OnePlace, EmptyAtInit, CompressorHas, AppendersHave, CompressorFills,
         DumperHas, Waiting, GivenAway, One
<1> QED
  BY <1>1, <1>2, <1>3, <1>4 DEF IInv

-----------------------------------------------------------------------------
(* Types is preserved: first by Store, which ends every append. *)
LEMMA StoreTypes ==
  ASSUME Types, NEW e \in Event, Store(e)
  PROVE  /\ buffer' \in [Blocks -> Seq(Event)]
         /\ log' \in Seq(Event)
         /\ append_lock' \in BOOLEAN
         /\ cur_block' = cur_block /\ offset' = offset
BY StoreType, AppendType DEF Types, Store

(* The record functions preserve the types and places. *)
LEMMA RecordTypes ==
  ASSUME Types, Places, NEW t \in Threads, Record(t)
  PROVE  Types'
<1> USE SuccType, SignalType, WaitType, ExceptType
    DEF Types, closeVars, workerVars, semVars, ThreadPlaces
<1>1. ASSUME NEW len \in EventSizes, RecordFits(t, len) PROVE Types'
  BY <1>1, SizeType, FitsType DEF RecordFits, TakeBytes
<1>2. ASSUME NEW len \in EventSizes, RecordFull(t, len) PROVE Types'
  BY <1>2, SizeType DEF RecordFull, HandOver, signal
<1>3. CASE NextBlock(t)
  BY <1>3, SizeType, EmptyType DEF NextBlock, TakeBlock, wait
<1>4. CASE EndRecord(t)
  <2>1. sent[t] + 1 \in 0 .. MaxEvents
    BY <1>4, SentType DEF EndRecord, Places
  <2>2. [tid |-> t, n |-> sent[t] + 1] \in Event
    BY <2>1 DEF Event
  <2>3. sent' \in [Threads -> 0 .. MaxEvents]
    BY <1>4, <2>1 DEF EndRecord
  <2>4. /\ buffer' \in [Blocks -> Seq(Event)]
        /\ log' \in Seq(Event)
        /\ append_lock' \in BOOLEAN
        /\ cur_block' = cur_block /\ offset' = offset
    BY <1>4, <2>2, StoreTypes DEF EndRecord
  <2> QED
    BY <1>4, <2>3, <2>4 DEF EndRecord
<1> QED
  BY <1>1, <1>2, <1>3, <1>4 DEF Record

(* CloseBufferFile preserves the types and places. *)
LEMMA CloseTypes ==
  ASSUME Types, Places, Close
  PROVE  Types'
<1> USE SuccType, SignalType, WaitType, ExceptType
    DEF Types, threadVars, workerVars, semVars, lockVars, ClosePlaces, CloseStep
<1>1. CASE CloseFits
  BY <1>1, SizeType, FitsType DEF CloseFits, TakeBytes
<1>2. CASE CloseFull
  BY <1>2 DEF CloseFull, HandOver, signal
<1>3. CASE CloseNextBlock
  BY <1>3, SizeType, EmptyType DEF CloseNextBlock, TakeBlock, wait
<1>4. CASE CloseStore
  <2>1. EndEvent(closer) \in Event
    BY <1>4, BoundAssumption DEF CloseStore, Places, EndEvent, Event
  <2> QED
    BY <1>4, <2>1, StoreType, AppendType DEF CloseStore, Store
<1>5. CASE CloseFlagCompress \/ CloseFlagDump \/ CloseRaces \/ CloseJoinCompress \/ CloseJoinDump
  BY <1>5 DEF CloseFlagCompress, CloseFlagDump, CloseRaces, CloseJoinCompress, CloseJoinDump
<1>6. CASE CloseSignal
  BY <1>6 DEF CloseSignal, signal
<1> QED
  BY <1>1, <1>2, <1>3, <1>4, <1>5, <1>6 DEF Close

(* CompressTrace and DumpCompressed preserve the types and places. *)
LEMMA WorkerTypes ==
  ASSUME Types, CompressTrace \/ DumpCompressed
  PROVE  Types'
<1> USE SuccType, SignalType, WaitType, ExceptType
    DEF Types, appendVars, lockVars, threadVars, closeVars, semVars,
        CompressPlaces, DumpPlaces, wait, signal
<1>1. CASE CompressTest \/ CompressBlock
  BY <1>1 DEF CompressTest, CompressBlock
<1>2. CASE CompressWaitFilled
  BY <1>2 DEF CompressWaitFilled
<1>3. CASE CompressWaitEmpty
  BY <1>3 DEF CompressWaitEmpty
<1>4. CASE CompressSignalFilled
  BY <1>4 DEF CompressSignalFilled
<1>5. CASE CompressSignalEmpty
  BY <1>5 DEF CompressSignalEmpty
<1>6. CASE DumpTest
  BY <1>6 DEF DumpTest
<1>7. CASE DumpWaitFilled
  BY <1>7 DEF DumpWaitFilled
<1>8. CASE Dump
  BY <1>8, ConcatType DEF Dump
<1>9. CASE DumpSignalEmpty
  BY <1>9 DEF DumpSignalEmpty
<1> QED
  BY <1>1, <1>2, <1>3, <1>4, <1>5, <1>6, <1>7, <1>8, <1>9
  DEF CompressTrace, DumpCompressed

(* Entering CloseBufferFile, by exit or signal, preserves them too. *)
LEMMA EnterTypes ==
  ASSUME Types, NEW t \in Threads, Exit(t) \/ Signal(t)
  PROVE  Types'
BY DEF Types, Exit, Signal, EnterClose, lockVars, semVars, threadVars,
       workerVars, ClosePlaces

-----------------------------------------------------------------------------
(* Places and LockHolder are preserved: first by the record functions. *)
LEMMA RecordLock ==
  ASSUME Types, Places, LockHolder, NEW t \in Threads, Record(t)
  PROVE  Places' /\ LockHolder'
<1> USE DEF Running, GivenAway, closeVars
<1>1. ASSUME NEW len \in EventSizes, RecordFits(t, len) \/ RecordFull(t, len)
      PROVE  Places' /\ LockHolder'
  <2>1. InAppend = {} /\ cpc \notin {"wait", "end"} /\ append_lock'
    BY <1>1 DEF RecordFits, RecordFull, TakeBytes, HandOver, LockHolder
  <2>2. InAppend' = {t} /\ sent[t] < MaxEvents
    BY <1>1, <2>1 DEF RecordFits, RecordFull, InAppend, Types
  <2>3. cpc' = cpc /\ closer' = closer /\ sent' = sent /\ ~GivenAway
    BY <1>1 DEF RecordFits, RecordFull
  <2>4. LockHolder'
    BY <2>1, <2>2, <2>3 DEF LockHolder
  <2>5. \A u \in Threads : pc'[u] # "run" => u = t
    BY <2>2 DEF InAppend
  <2> QED
    BY <2>2, <2>3, <2>4, <2>5 DEF Places
<1>2. CASE NextBlock(t)
  <2>1. InAppend' = InAppend
    BY <1>2 DEF NextBlock, InAppend, Types
  <2>2. /\ cpc' = cpc /\ closer' = closer /\ sent' = sent /\ ~GivenAway
        /\ append_lock' = append_lock
    BY <1>2 DEF NextBlock, TakeBlock
  <2>3. Places'
    BY <2>1, <2>2 DEF Places, InAppend
  <2> QED
    BY <2>1, <2>2, <2>3 DEF LockHolder
<1>3. CASE EndRecord(t)
  <2>1. t \in InAppend
    BY <1>3 DEF EndRecord, InAppend
  <2>2. cpc \notin {"wait", "end"}
    BY <2>1 DEF LockHolder
  <2>3. InAppend' = {}
    BY <1>3, <2>1 DEF EndRecord, InAppend, LockHolder, Types
  <2>4. cpc' = cpc /\ closer' = closer /\ ~GivenAway
    BY <1>3 DEF EndRecord
  <2>5. Places'
    BY <2>3, <2>4 DEF Places, InAppend
  <2> QED
    BY <2>2, <2>3, <2>4, <2>5 DEF LockHolder
<1> QED
  BY <1>1, <1>2, <1>3 DEF Record

(* Entering CloseBufferFile preserves it: the lock is not touched. *)
LEMMA EnterLock ==
  ASSUME Types, Places, LockHolder, NEW t \in Threads, Exit(t) \/ Signal(t)
  PROVE  Places' /\ LockHolder'
<1>1. /\ cpc' = "lock" /\ closer' = t /\ cpc = "none"
      /\ UNCHANGED <<append_lock, pc, sent>>
  BY DEF Exit, Signal, EnterClose, Places, lockVars, threadVars
<1>2. InAppend' = InAppend /\ ~GivenAway'
  BY <1>1 DEF InAppend, GivenAway
<1>3. Places'
  BY <1>1, <1>2, NoThreadAssumption DEF Places
<1> QED
  BY <1>1, <1>2, <1>3 DEF LockHolder

(* CloseBufferFile preserves it: it takes the lock like an append. *)
LEMMA CloseLock ==
  ASSUME Types, Places, LockHolder, Close
  PROVE  Places' /\ LockHolder'
<1>1. /\ InAppend' = InAppend
      /\ \A t \in Threads : pc'[t] # "run" => sent'[t] < MaxEvents
      /\ cpc # "none" /\ cpc' # "none" /\ closer' = closer /\ closer' # NoThread
  BY DEF Close, CloseFits, CloseFull, CloseNextBlock, CloseStore,
         CloseFlagCompress, CloseFlagDump, CloseSignal, CloseRaces, CloseJoinCompress,
         CloseJoinDump, CloseStep, InAppend, threadVars, Places
<1>2. CASE CloseFits \/ CloseFull
  <2>1. InAppend = {} /\ append_lock'
    BY <1>2 DEF CloseFits, CloseFull, TakeBytes, HandOver, LockHolder
  <2> QED
    BY <1>1, <2>1 DEF Places, LockHolder
<1>3. CASE CloseNextBlock
  <2>1. cpc = "wait" /\ cpc' = "end" /\ append_lock' = append_lock
    BY <1>3 DEF CloseNextBlock, CloseStep, TakeBlock
  <2> QED
    BY <1>1, <2>1 DEF Places, LockHolder, GivenAway
<1>4. CASE CloseStore
  <2>1. cpc = "end" /\ cpc' = "flag_compress"
    BY <1>4 DEF CloseStore, CloseStep
  <2>2. InAppend = {}
    BY <2>1 DEF LockHolder
  <2> QED
    BY <1>1, <2>1, <2>2 DEF Places, LockHolder
<1>5. CASE CloseFlagCompress \/ CloseFlagDump \/ CloseRaces
  <2>1. /\ cpc \notin {"wait", "end"} /\ cpc' \notin {"wait", "end"}
        /\ append_lock' = append_lock /\ ~GivenAway'
    BY <1>5 DEF CloseFlagCompress, CloseFlagDump, CloseRaces, CloseStep,
                GivenAway, lockVars
  <2> QED
    BY <1>1, <2>1 DEF Places, LockHolder
<1>6. CASE CloseSignal \/ CloseJoinCompress \/ CloseJoinDump
  <2>1. InAppend = {} /\ cpc' \notin {"wait", "end"}
    BY <1>6 DEF CloseSignal, CloseJoinCompress, CloseJoinDump, CloseStep,
                GivenAway, Places
  <2> QED
    BY <1>1, <2>1 DEF Places, LockHolder
<1> QED
  BY <1>2, <1>3, <1>4, <1>5, <1>6 DEF Close

(* The workers preserve it: they never touch the lock. *)
LEMMA WorkerLock ==
  ASSUME Places, LockHolder, CompressTrace \/ DumpCompressed
  PROVE  Places' /\ LockHolder'
<1>1. UNCHANGED <<append_lock, pc, sent, closer, cpc>>
  BY DEF CompressTrace, CompressTest, CompressWaitFilled, CompressWaitEmpty,
         CompressBlock, CompressSignalFilled, CompressSignalEmpty,
         DumpCompressed, DumpTest, DumpWaitFilled, Dump, DumpSignalEmpty,
         appendVars, lockVars, threadVars, closeVars
<1> QED
  BY <1>1 DEF Places, LockHolder, InAppend, GivenAway

-----------------------------------------------------------------------------
(* OnePlace is preserved. *)

(* A semaphore operation changes one block's count by one. *)
LEMMA SignalAt ==
  ASSUME NEW f \in [Blocks -> Nat], NEW b \in Blocks, NEW c \in Blocks
  PROVE  [f EXCEPT ![b] = @ + 1][c] = f[c] + One(c = b)
BY DEF One

(* A wait takes one from the count of one block and leaves the rest. *)
LEMMA WaitAt ==
  ASSUME NEW f \in [Blocks -> Nat], NEW b \in Blocks, NEW c \in Blocks
  PROVE  [f EXCEPT ![b] = @ - 1][c] = f[c] - One(c = b)
BY DEF One

(* The appending side of one block, and the dumping side. *)
BufferPlace(b) ==
    empty_buffer[b] + filled_buffer[b] + One(CompressorHas(b))
        + One(AppendersHave(b)) = 1
CopyPlace(b) ==
    empty_compressed[b] + filled_compressed[b] + One(CompressorFills(b))
        + One(DumperHas(b)) = 1

(* OnePlace is the conjunction of its two parts, block by block. *)
LEMMA OnePlaceParts ==
  OnePlace <=> \A b \in Blocks : BufferPlace(b) /\ CopyPlace(b)
BY DEF OnePlace, BufferPlace, CopyPlace

(* Taking the lock with the current block full hands that block over. *)
LEMMA HandOverPlace ==
  ASSUME Types, OnePlace, ~Waiting, Waiting', ~GivenAway, ~GivenAway',
         NEW len, HandOver(len), UNCHANGED workerVars
  PROVE  OnePlace'
<1> SUFFICES ASSUME NEW b \in Blocks PROVE (BufferPlace(b) /\ CopyPlace(b))'
  BY DEF OnePlace, BufferPlace, CopyPlace
<1>1. filled_buffer'[b] = filled_buffer[b] + One(b = cur_block)
  BY SignalAt DEF HandOver, signal, Types
<1>2. /\ AppendersHave(b) <=> b = cur_block
      /\ ~AppendersHave(b)'
  BY DEF AppendersHave
<1>3. /\ CompressorHas(b)' <=> CompressorHas(b)
      /\ CompressorFills(b)' <=> CompressorFills(b)
      /\ DumperHas(b)' <=> DumperHas(b)
  BY DEF CompressorHas, CompressorFills, DumperHas, workerVars
<1>4. UNCHANGED <<empty_buffer, empty_compressed, filled_compressed>>
  BY DEF HandOver
<1>5. BufferPlace(b) /\ CopyPlace(b)
  BY OnePlaceParts
<1>6. empty_buffer[b] \in Nat /\ filled_buffer[b] \in Nat
  BY DEF Types
<1> QED
  BY <1>1, <1>2, <1>3, <1>4, <1>5, <1>6 DEF BufferPlace, CopyPlace, One

(* The end of the wait in StartAppend takes a free block. *)
LEMMA TakeBlockPlace ==
  ASSUME Types, OnePlace, Waiting, ~Waiting', ~GivenAway, ~GivenAway',
         NEW len, TakeBlock(len), UNCHANGED workerVars
  PROVE  OnePlace'
<1> SUFFICES ASSUME NEW b \in Blocks PROVE (BufferPlace(b) /\ CopyPlace(b))'
  BY DEF OnePlace, BufferPlace, CopyPlace
<1>1. empty_buffer'[b] = empty_buffer[b] - One(b = cur_block)
  BY WaitAt DEF TakeBlock, wait, Types
<1>2. /\ ~AppendersHave(b)
      /\ AppendersHave(b)' <=> b = cur_block
  BY DEF AppendersHave, TakeBlock
<1>3. /\ CompressorHas(b)' <=> CompressorHas(b)
      /\ CompressorFills(b)' <=> CompressorFills(b)
      /\ DumperHas(b)' <=> DumperHas(b)
  BY DEF CompressorHas, CompressorFills, DumperHas, workerVars
<1>4. UNCHANGED <<filled_buffer, empty_compressed, filled_compressed>>
  BY DEF TakeBlock
<1>5. BufferPlace(b) /\ CopyPlace(b)
  BY OnePlaceParts
<1>6. empty_buffer[b] \in Nat /\ filled_buffer[b] \in Nat
  BY DEF Types
<1> QED
  BY <1>1, <1>2, <1>3, <1>4, <1>5, <1>6 DEF BufferPlace, CopyPlace, One

(* A step that moves neither a block nor a worker. *)
LEMMA StillPlace ==
  ASSUME OnePlace, Waiting' <=> Waiting, GivenAway' <=> GivenAway,
         UNCHANGED <<cur_block, semVars, workerVars>>
  PROVE  OnePlace'
BY DEF OnePlace, CompressorHas, AppendersHave, CompressorFills, DumperHas,
       semVars, workerVars

(* Only the holder of the lock writes or waits for a block. *)
LEMMA FreeLock ==
  ASSUME LockHolder, ~append_lock
  PROVE  ~Waiting /\ ~Writing
BY DEF LockHolder, InAppend, Waiting, Writing

(* While a thread is inside a record function, no other thread and no      *)
(* CloseBufferFile has the lock.                                           *)
LEMMA OnlyHolder ==
  ASSUME Types, LockHolder, NEW t \in InAppend
  PROVE  /\ cpc \notin {"wait", "end"}
         /\ \A u \in Threads \ {t} : pc[u] = "run"
         /\ \A v \in ThreadPlaces : \A u \in Threads :
               [pc EXCEPT ![t] = v][u] = IF u = t THEN v ELSE "run"
BY DEF Types, LockHolder, InAppend

(* The record functions preserve OnePlace. *)
LEMMA RecordPlace ==
  ASSUME IInv, NEW t \in Threads, Record(t)
  PROVE  OnePlace'
<1> USE DEF IInv
<1>1. /\ cpc \notin {"join_compress", "join_dump", "closed"} /\ cpc' = cpc
      /\ UNCHANGED workerVars
  BY DEF Record, RecordFits, RecordFull, NextBlock, EndRecord, Running, GivenAway,
         closeVars
<1>2. ~GivenAway /\ ~GivenAway'
  BY <1>1 DEF GivenAway
<1>3. ASSUME NEW len \in EventSizes, RecordFits(t, len) PROVE OnePlace'
  <2>1. ~Waiting /\ ~Waiting'
    BY <1>1, <1>3, FreeLock DEF RecordFits, TakeBytes, Waiting, Types
  <2> QED
    BY <1>1, <1>2, <1>3, <2>1, StillPlace DEF RecordFits, TakeBytes
<1>4. ASSUME NEW len \in EventSizes, RecordFull(t, len) PROVE OnePlace'
  <2>1. ~Waiting /\ Waiting'
    BY <1>4, FreeLock DEF RecordFull, HandOver, Waiting, Types
  <2> QED
    BY <1>1, <1>2, <1>4, <2>1, HandOverPlace DEF RecordFull
<1>5. CASE NextBlock(t)
  <2>1. Waiting
    BY <1>5 DEF NextBlock, Waiting
  <2>2. t \in InAppend /\ pc' = [pc EXCEPT ![t] = "write"]
    BY <1>5 DEF NextBlock, InAppend
  <2>3. ~Waiting'
    BY <1>1, <2>2, OnlyHolder DEF Waiting, ThreadPlaces
  <2> QED
    BY <1>1, <1>2, <1>5, <2>1, <2>3, TakeBlockPlace DEF NextBlock
<1>6. CASE EndRecord(t)
  <2>1. t \in InAppend /\ pc[t] = "write" /\ pc' = [pc EXCEPT ![t] = "run"]
    BY <1>6 DEF EndRecord, InAppend
  <2>2. ~Waiting /\ ~Waiting'
    BY <1>1, <2>1, OnlyHolder DEF Waiting, ThreadPlaces
  <2> QED
    BY <1>1, <1>2, <1>6, <2>2, StillPlace DEF EndRecord, Store
<1> QED
  BY <1>3, <1>4, <1>5, <1>6 DEF Record

(* Entering CloseBufferFile preserves OnePlace. *)
LEMMA EnterPlace ==
  ASSUME IInv, NEW t \in Threads, Exit(t) \/ Signal(t)
  PROVE  OnePlace'
<1>1. cpc = "none" /\ cpc' = "lock" /\ UNCHANGED <<pc, cur_block, semVars, workerVars>>
  BY DEF IInv, Places, Exit, Signal, EnterClose, lockVars, threadVars
<1> QED
  BY <1>1, StillPlace DEF IInv, Waiting, GivenAway

(* CloseBufferFile preserves OnePlace. *)
LEMMA ClosePlace ==
  ASSUME IInv, Close
  PROVE  OnePlace'
<1> USE DEF IInv
<1>1. UNCHANGED <<pc, workerVars>>
  BY DEF Close, CloseFits, CloseFull, CloseNextBlock, CloseStore,
         CloseFlagCompress, CloseFlagDump, CloseSignal, CloseRaces, CloseJoinCompress,
         CloseJoinDump, CloseStep, threadVars
<1>2. CASE CloseFits
  <2>1. ~Waiting /\ ~Waiting' /\ ~GivenAway /\ ~GivenAway'
    BY <1>1, <1>2, FreeLock
    DEF CloseFits, CloseStep, TakeBytes, Waiting, GivenAway
  <2> QED
    BY <1>1, <1>2, <2>1, StillPlace DEF CloseFits, TakeBytes
<1>3. CASE CloseFull
  <2>1. ~Waiting /\ Waiting' /\ ~GivenAway /\ ~GivenAway'
    BY <1>1, <1>3, FreeLock
    DEF CloseFull, CloseStep, HandOver, Waiting, GivenAway
  <2> QED
    BY <1>1, <1>3, <2>1, HandOverPlace DEF CloseFull
<1>4. CASE CloseNextBlock
  <2>1. Waiting /\ ~Waiting' /\ ~GivenAway /\ ~GivenAway'
    BY <1>1, <1>4
    DEF CloseNextBlock, CloseStep, Waiting, GivenAway, LockHolder, InAppend
  <2> QED
    BY <1>1, <1>4, <2>1, TakeBlockPlace DEF CloseNextBlock
<1>5. CASE CloseStore
  <2>1. ~Waiting /\ ~Waiting' /\ ~GivenAway /\ ~GivenAway'
    BY <1>1, <1>5
    DEF CloseStore, CloseStep, Waiting, GivenAway, LockHolder, InAppend
  <2> QED
    BY <1>1, <1>5, <2>1, StillPlace DEF CloseStore, Store
<1>6. CASE \/ CloseFlagCompress \/ CloseFlagDump \/ CloseRaces
           \/ CloseJoinCompress \/ CloseJoinDump
  <2>1. /\ Waiting' <=> Waiting
        /\ GivenAway' <=> GivenAway
    BY <1>1, <1>6
    DEF CloseFlagCompress, CloseFlagDump, CloseRaces, CloseJoinCompress, CloseJoinDump,
        CloseStep, Waiting, GivenAway
  <2> QED
    BY <1>1, <1>6, <2>1, StillPlace
    DEF CloseFlagCompress, CloseFlagDump, CloseRaces, CloseJoinCompress, CloseJoinDump,
        lockVars
<1>7. CASE CloseSignal
  <2> SUFFICES ASSUME NEW b \in Blocks PROVE (BufferPlace(b) /\ CopyPlace(b))'
    BY DEF OnePlace, BufferPlace, CopyPlace
  <2>1. filled_buffer'[b] = filled_buffer[b] + One(b = cur_block)
    BY <1>7, SignalAt DEF CloseSignal, signal, Types
  <2>2. ~Waiting /\ ~GivenAway /\ GivenAway'
    BY <1>7
    DEF CloseSignal, CloseStep, Waiting, GivenAway, Places, InAppend
  <2>3. /\ AppendersHave(b) <=> b = cur_block
        /\ ~AppendersHave(b)'
    BY <2>2 DEF AppendersHave
  <2>4. /\ CompressorHas(b)' <=> CompressorHas(b)
        /\ CompressorFills(b)' <=> CompressorFills(b)
        /\ DumperHas(b)' <=> DumperHas(b)
    BY <1>1 DEF CompressorHas, CompressorFills, DumperHas, workerVars
  <2>5. UNCHANGED <<empty_buffer, empty_compressed, filled_compressed>>
    BY <1>7 DEF CloseSignal
  <2>6. BufferPlace(b) /\ CopyPlace(b)
    BY OnePlaceParts
  <2>7. empty_buffer[b] \in Nat /\ filled_buffer[b] \in Nat
    BY DEF Types
  <2> QED
    BY <2>1, <2>3, <2>4, <2>5, <2>6, <2>7 DEF BufferPlace, CopyPlace, One
<1> QED
  BY <1>2, <1>3, <1>4, <1>5, <1>6, <1>7 DEF Close

(* A step of a worker changes the counts of one block by a semaphore, and  *)
(* what the worker has by as much in the other direction.                  *)
LEMMA WorkerPlace ==
  ASSUME IInv, CompressTrace \/ DumpCompressed
  PROVE  OnePlace'
<1> USE DEF IInv
<1>1. UNCHANGED <<cur_block, cpc, pc>>
  BY DEF CompressTrace, CompressTest, CompressWaitFilled, CompressWaitEmpty,
         CompressBlock, CompressSignalFilled, CompressSignalEmpty,
         DumpCompressed, DumpTest, DumpWaitFilled, Dump, DumpSignalEmpty,
         appendVars, lockVars, threadVars, closeVars
<1> SUFFICES ASSUME NEW b \in Blocks PROVE (BufferPlace(b) /\ CopyPlace(b))'
  BY DEF OnePlace, BufferPlace, CopyPlace
<1>2. AppendersHave(b)' <=> AppendersHave(b)
  BY <1>1 DEF AppendersHave, Waiting, GivenAway
<1>3. BufferPlace(b) /\ CopyPlace(b)
  BY OnePlaceParts
<1>4. /\ empty_buffer[b] \in Nat /\ filled_buffer[b] \in Nat
      /\ empty_compressed[b] \in Nat /\ filled_compressed[b] \in Nat
  BY DEF Types
<1> USE <1>2, <1>3, <1>4
    DEF BufferPlace, CopyPlace, CompressorHas, CompressorFills, DumperHas, One
<1>5. CASE CompressTest \/ CompressBlock \/ DumpTest \/ Dump
  BY <1>5 DEF CompressTest, CompressBlock, DumpTest, Dump, semVars
<1>6. CASE CompressWaitFilled
  <2>1. filled_buffer'[b] = filled_buffer[b] - One(b = ci)
    BY <1>6, WaitAt DEF CompressWaitFilled, wait, Types
  <2> QED
    BY <1>6, <2>1 DEF CompressWaitFilled
<1>7. CASE CompressWaitEmpty
  <2>1. empty_compressed'[b] = empty_compressed[b] - One(b = ci)
    BY <1>7, WaitAt DEF CompressWaitEmpty, wait, Types
  <2> QED
    BY <1>7, <2>1 DEF CompressWaitEmpty
<1>8. CASE CompressSignalFilled
  <2>1. filled_compressed'[b] = filled_compressed[b] + One(b = ci)
    BY <1>8, SignalAt DEF CompressSignalFilled, signal, Types
  <2> QED
    BY <1>8, <2>1 DEF CompressSignalFilled
<1>9. CASE CompressSignalEmpty
  <2>1. empty_buffer'[b] = empty_buffer[b] + One(b = ci)
    BY <1>9, SignalAt DEF CompressSignalEmpty, signal, Types
  <2> QED
    BY <1>9, <2>1 DEF CompressSignalEmpty
<1>10. CASE DumpWaitFilled
  <2>1. filled_compressed'[b] = filled_compressed[b] - One(b = di)
    BY <1>10, WaitAt DEF DumpWaitFilled, wait, Types
  <2> QED
    BY <1>10, <2>1 DEF DumpWaitFilled
<1>11. CASE DumpSignalEmpty
  <2>1. empty_compressed'[b] = empty_compressed[b] + One(b = di)
    BY <1>11, SignalAt DEF DumpSignalEmpty, signal, Types
  <2> QED
    BY <1>11, <2>1 DEF DumpSignalEmpty
<1> QED
  BY <1>5, <1>6, <1>7, <1>8, <1>9, <1>10, <1>11 DEF CompressTrace, DumpCompressed

-----------------------------------------------------------------------------
(* A stuttering step preserves the inductive invariant. *)
LEMMA StutterIInv == ASSUME IInv, UNCHANGED vars PROVE IInv'
<1>1. Types'
  BY DEF IInv, Types, vars, lockVars, semVars, threadVars, closeVars, workerVars
<1>2. Places' /\ LockHolder'
  BY DEF IInv, Places, LockHolder, InAppend, GivenAway, vars, lockVars, threadVars,
         closeVars
<1>3. OnePlace'
  BY StillPlace
  DEF IInv, vars, lockVars, semVars, threadVars, closeVars, Waiting, GivenAway
<1> QED
  BY <1>1, <1>2, <1>3 DEF IInv

(* Every step of the ring preserves the inductive invariant. *)
LEMMA StepIInv == IInv /\ [Next]_vars => IInv'
<1> SUFFICES ASSUME IInv, [Next]_vars PROVE IInv'
  OBVIOUS
<1>1. ASSUME NEW t \in Threads, Record(t) PROVE IInv'
  BY <1>1, RecordTypes, RecordLock, RecordPlace DEF IInv
<1>2. ASSUME NEW t \in Threads, Exit(t) \/ Signal(t) PROVE IInv'
  BY <1>2, EnterTypes, EnterLock, EnterPlace DEF IInv
<1>3. CASE Close
  BY <1>3, CloseTypes, CloseLock, ClosePlace DEF IInv
<1>4. CASE CompressTrace \/ DumpCompressed
  BY <1>4, WorkerTypes, WorkerLock, WorkerPlace DEF IInv
<1>5. CASE UNCHANGED vars
  BY <1>5, StutterIInv
<1> QED
  BY <1>1, <1>2, <1>3, <1>4, <1>5 DEF Next

(* Of four counts that sum to one, the two semaphores are zero or one. *)
LEMMA SumOfOne ==
  ASSUME NEW x \in Nat, NEW y \in Nat, NEW p \in Nat, NEW q \in Nat,
         x + y + p + q = 1
  PROVE  x \in {0, 1} /\ y \in {0, 1}
OBVIOUS

(* The inductive invariant holds in every reachable state. *)
THEOREM InductiveInvariant == Spec => []IInv
BY InitIInv, StepIInv, PTL DEF Spec

(* No thread is ever inside StartAppend ... EndAppend together with        *)
(* another one or with CloseBufferFile, and the spin lock is held for as   *)
(* long as one is.                                                         *)
THEOREM LockHolderTheorem == Spec => []LockHolder
<1>1. IInv => LockHolder
  BY DEF IInv
<1> QED
  BY <1>1, InductiveInvariant, PTL

(* The four semaphores hand every block of the ring, and every compressed  *)
(* copy, from one owner to the next without ever duplicating or losing it. *)
THEOREM OnePlaceTheorem == Spec => []OnePlace
<1>1. IInv => OnePlace
  BY DEF IInv
<1> QED
  BY <1>1, InductiveInvariant, PTL

(* Types and the bound of every semaphore: it is a handover, never a count. *)
THEOREM TypeCorrect == Spec => []TypeOK
<1>1. ASSUME IInv PROVE TypeOK
  <2>1. ASSUME NEW b \in Blocks
        PROVE  /\ empty_buffer[b] \in {0, 1} /\ filled_buffer[b] \in {0, 1}
               /\ empty_compressed[b] \in {0, 1}
               /\ filled_compressed[b] \in {0, 1}
    <3>1. BufferPlace(b) /\ CopyPlace(b)
      BY <1>1, OnePlaceParts DEF IInv
    <3>2. /\ empty_buffer[b] \in Nat /\ filled_buffer[b] \in Nat
          /\ empty_compressed[b] \in Nat /\ filled_compressed[b] \in Nat
      BY <1>1 DEF IInv, Types
    <3>3. /\ One(CompressorHas(b)) \in Nat /\ One(AppendersHave(b)) \in Nat
          /\ One(CompressorFills(b)) \in Nat /\ One(DumperHas(b)) \in Nat
      BY DEF One
    <3> QED
      BY <3>1, <3>2, <3>3, SumOfOne DEF BufferPlace, CopyPlace
  <2>2. Types
    BY <1>1 DEF IInv
  <2> QED
    BY <2>1, <2>2 DEF TypeOK, Types
<1> QED
  BY <1>1, InductiveInvariant, PTL

(* LZ4 never reads a block that a record function is storing into, and     *)
(* fwrite never reads a compressed copy that LZ4 is writing, although      *)
(* neither worker takes the spin lock.                                     *)
THEOREM NoDataRaceTheorem == Spec => []NoDataRace
<1>1. ASSUME IInv PROVE NoDataRace
  <2>1. ~(Writing /\ CompressorHas(cur_block))
    <3>1. SUFFICES ASSUME Writing PROVE ~CompressorHas(cur_block)
      OBVIOUS
    <3>2. ~Waiting /\ ~GivenAway
      BY <1>1, <3>1
      DEF IInv, Places, LockHolder, Writing, Waiting, GivenAway, InAppend
    <3>3. AppendersHave(cur_block)
      BY <3>2 DEF AppendersHave
    <3>4. cur_block \in Blocks /\ BufferPlace(cur_block)
      BY <1>1, OnePlaceParts DEF IInv, Types
    <3>5. empty_buffer[cur_block] \in Nat /\ filled_buffer[cur_block] \in Nat
      BY <1>1, <3>4 DEF IInv, Types
    <3> QED
      BY <3>3, <3>4, <3>5 DEF BufferPlace, One
  <2>2. ~(cst = "lz4" /\ dst = "dump" /\ ci = di)
    <3>1. SUFFICES ASSUME cst = "lz4", dst = "dump", ci = di PROVE FALSE
      OBVIOUS
    <3>2. CompressorFills(ci) /\ DumperHas(ci)
      BY <3>1 DEF CompressorFills, DumperHas
    <3>3. ci \in Blocks /\ CopyPlace(ci)
      BY <1>1, OnePlaceParts DEF IInv, Types
    <3>4. empty_compressed[ci] \in Nat /\ filled_compressed[ci] \in Nat
      BY <1>1, <3>3 DEF IInv, Types
    <3> QED
      BY <3>2, <3>3, <3>4 DEF CopyPlace, One
  <2> QED
    BY <2>1, <2>2 DEF NoDataRace
<1> QED
  BY <1>1, InductiveInvariant, PTL

-----------------------------------------------------------------------------
(***************************************************************************)
(* CircularBuffer implements TraceLog, for any threads, any number and     *)
(* size of blocks, any sizes of events, with and without fatal signals.    *)
(*                                                                         *)
(* What has been appended and not written yet is, in this order, in the    *)
(* compressed copies from the one the dumper takes next, in the blocks     *)
(* from the one the compressor takes next, and in the current block.       *)
(***************************************************************************)

(* The block each of the three loops over the ring comes to next: the      *)
(* dumper and the compressor, which advance after their last signal, and   *)
(* the appenders, who never take the next one once the last is given away. *)
DumpNext == IF dst = "signal" THEN Succ(di) ELSE di
CompressNext == IF cst \in {"signal_filled", "signal_empty"} THEN Succ(ci) ELSE ci
AppendNext == IF GivenAway THEN Succ(cur_block) ELSE cur_block

(* The copies that are to be dumped and the blocks that are to be          *)
(* compressed, those included that a worker has already taken.             *)
FullCopy(b) == \/ filled_compressed[b] = 1
               \/ ci = b /\ cst = "signal_filled"
               \/ di = b /\ dst = "dump"
FullBlock(b) == filled_buffer[b] = 1 \/ (ci = b /\ cst \in {"empty", "lz4"})

(* What the record functions have stored in their block.                   *)
Current == IF Waiting \/ GivenAway THEN <<>> ELSE buffer[cur_block]

(* The ring is walked from the dumper's block over the compressor's, k     *)
(* blocks on, to the appenders' one.                                       *)
Walk(route, n, k) ==
    /\ route[1] = DumpNext
    /\ route[k + 1] = CompressNext
    /\ route[n + 1] = AppendNext
    /\ \A i \in 1 .. n : route[i + 1] = Succ(route[i])

(* On the first part of the walk are the full copies, on the second the    *)
(* full blocks, each once, although a block may be on both.                *)
Full(route, n, k) ==
    /\ \A i, j \in 1 .. k : route[i] = route[j] => i = j
    /\ \A i, j \in k + 1 .. n : route[i] = route[j] => i = j
    /\ \A b \in Blocks :
          /\ FullCopy(b) <=> \E i \in 1 .. k : route[i] = b
          /\ FullBlock(b) <=> \E i \in k + 1 .. n : route[i] = b

(* What they hold is the log from the end of the file on.                  *)
Holds(route, n, k, data) ==
    /\ \A i \in 1 .. k : data[i] = compressed[route[i]]
    /\ \A i \in k + 1 .. n : data[i] = buffer[route[i]]
    /\ log = (file \o FlattenSeq(data)) \o Current

Ring(route, k, data) ==
    /\ route \in Seq(Blocks) /\ data \in Seq(Seq(Event))
    /\ Len(route) = Len(data) + 1 /\ k \in 0 .. Len(data)
    /\ Walk(route, Len(data), k) /\ Full(route, Len(data), k)
    /\ Holds(route, Len(data), k, data)

(* Blocks are compressed and dumped in the order they were filled.         *)
RingOrder == \E route, data, k : Ring(route, k, data)

-----------------------------------------------------------------------------
(* Steps that move no block, and what they may do to the data.             *)

(* A walk is a walk still when what is on it, and the log behind it,       *)
(* stay.                                                                   *)
LEMMA SameRing ==
  ASSUME NEW route, NEW k, NEW data, Ring(route, k, data),
         DumpNext' = DumpNext, CompressNext' = CompressNext, AppendNext' = AppendNext,
         \A b \in Blocks : /\ FullCopy(b)' <=> FullCopy(b)
                           /\ FullBlock(b)' <=> FullBlock(b)
                           /\ FullCopy(b) => compressed'[b] = compressed[b]
                           /\ FullBlock(b) => buffer'[b] = buffer[b],
         log' = (file' \o FlattenSeq(data)) \o Current'
  PROVE  Ring(route, k, data)'
<1> DEFINE n == Len(data)
<1>1. /\ route \in Seq(Blocks) /\ n \in Nat /\ Len(route) = n + 1 /\ k \in 0 .. n
      /\ Walk(route, n, k) /\ Full(route, n, k) /\ Holds(route, n, k, data)
  BY DEF Ring
<1> HIDE DEF n
<1>2. Walk(route, n, k)'
  BY <1>1 DEF Walk
<1>3. Full(route, n, k)'
  BY <1>1 DEF Full
<1>4. /\ \A i \in 1 .. k : route[i] \in Blocks /\ FullCopy(route[i])
      /\ \A i \in k + 1 .. n : route[i] \in Blocks /\ FullBlock(route[i])
  <2>1. \A i \in 1 .. n : route[i] \in Blocks
    BY <1>1
  <2> QED
    BY <1>1, <2>1 DEF Full
<1>5. Holds(route, n, k, data)'
  BY <1>1, <1>4 DEF Holds
<1> QED
  BY <1>2, <1>3, <1>5 DEF Ring, n

(* The current block is handed to the compressor, with the events in it.   *)
Hands(next, events) ==
    /\ AppendNext = cur_block /\ next = Succ(cur_block) /\ AppendNext' = next
    /\ Current = events /\ events = buffer[cur_block] /\ Current' = <<>>
    /\ ~FullBlock(cur_block)
    /\ \A b \in Blocks : /\ FullCopy(b)' <=> FullCopy(b)
                         /\ FullBlock(b)' <=> FullBlock(b) \/ b = cur_block
    /\ DumpNext' = DumpNext /\ CompressNext' = CompressNext
    /\ buffer' = buffer /\ compressed' = compressed /\ log' = log /\ file' = file

(* The walk then gets one block longer at its end (the end of an append    *)
(* that leaves a full block).                                              *)
LEMMA LongerRing ==
  ASSUME Types, NEW route, NEW k, NEW data, Ring(route, k, data),
         NEW next, NEW events, Hands(next, events)
  PROVE  Ring(Append(route, next), k, Append(data, events))'
<1> DEFINE n == Len(data)
           r == Append(route, next)
           d == Append(data, events)
<1>1. /\ route \in Seq(Blocks) /\ data \in Seq(Seq(Event)) /\ n \in Nat
      /\ Len(route) = n + 1 /\ k \in 0 .. n
      /\ Walk(route, n, k) /\ Full(route, n, k) /\ Holds(route, n, k, data)
  BY DEF Ring
<1>2. cur_block \in Blocks /\ next \in Blocks /\ events \in Seq(Event)
  BY SuccType DEF Types, Hands
<1>3. /\ r \in Seq(Blocks) /\ Len(r) = n + 2 /\ r[(n + 1) + 1] = next
      /\ \A i \in 1 .. n + 1 : r[i] = route[i]
  BY <1>1, <1>2
<1>4. /\ d \in Seq(Seq(Event)) /\ Len(d) = n + 1
  BY <1>1, <1>2, AppendIsSeq
<1>5. d[n + 1] = events /\ \A i \in 1 .. n : d[i] = data[i]
  BY <1>1, <1>2
<1>6. FlattenSeq(d) = FlattenSeq(data) \o events
  BY <1>1, <1>2, FlattenAppend
<1>7. route[n + 1] = cur_block /\ next = Succ(cur_block)
  BY <1>1 DEF Walk, Hands
<1> HIDE DEF r, d, n
<1>8. Walk(r, n + 1, k)'
  <2>1. \A i \in 1 .. n + 1 : r[i + 1] = Succ(r[i])
    <3>1. \A i \in 1 .. n : route[i + 1] = Succ(route[i])
      BY <1>1 DEF Walk
    <3>2. \A i \in 1 .. n : r[i + 1] = route[i + 1] /\ r[i] = route[i]
      BY <1>1, <1>3
    <3> SUFFICES ASSUME NEW i \in 1 .. n + 1 PROVE r[i + 1] = Succ(r[i])
      OBVIOUS
    <3>3. CASE i = n + 1
      BY <1>1, <1>3, <1>7, <3>3
    <3>4. CASE i # n + 1
      <4>1. i \in 1 .. n
        BY <1>1, <3>4
      <4> QED
        BY <3>1, <3>2, <4>1
    <3> QED
      BY <3>3, <3>4
  <2>2. r[1] = DumpNext /\ r[k + 1] = CompressNext
    BY <1>1, <1>3 DEF Walk
  <2> QED
    BY <1>1, <1>3, <2>1, <2>2 DEF Walk, Hands
<1>9. Full(r, n + 1, k)'
  <2>1. \A i \in k + 1 .. n : route[i] # cur_block
    BY <1>1, <1>2 DEF Full, Hands
  <2>2. \A i, j \in 1 .. k : r[i] = r[j] => i = j
    BY <1>1, <1>3, SMTT(30) DEF Full
  <2>3. \A i, j \in k + 1 .. n + 1 : r[i] = r[j] => i = j
    <3>1. \A i, j \in k + 1 .. n : route[i] = route[j] => i = j
      BY <1>1 DEF Full
    <3>2. \A i \in k + 1 .. n + 1 : i = n + 1 \/ i \in k + 1 .. n
      BY <1>1
    <3>3. r[n + 1] = cur_block /\ \A i \in k + 1 .. n : r[i] = route[i]
      BY <1>1, <1>3, <1>7
    <3> QED
      BY <2>1, <3>1, <3>2, <3>3
  <2>4. ASSUME NEW b \in Blocks
        PROVE  /\ FullCopy(b)' <=> \E i \in 1 .. k : r[i] = b
               /\ FullBlock(b)' <=> \E i \in k + 1 .. n + 1 : r[i] = b
    <3>1. /\ FullCopy(b) <=> \E i \in 1 .. k : route[i] = b
          /\ FullBlock(b) <=> \E i \in k + 1 .. n : route[i] = b
      BY <1>1 DEF Full
    <3>2. (\E i \in k + 1 .. n + 1 : r[i] = b) <=> (\E i \in k + 1 .. n : r[i] = b) \/ r[n + 1] = b
      BY <1>1
    <3>3. (\E i \in 1 .. k : r[i] = b) <=> (\E i \in 1 .. k : route[i] = b)
      <4>1. \A i \in 1 .. k : r[i] = route[i]
        BY <1>1, <1>3
      <4> QED
        BY <4>1
    <3>4. (\E i \in k + 1 .. n : r[i] = b) <=> (\E i \in k + 1 .. n : route[i] = b)
      BY <1>1, <1>3
    <3>5. r[n + 1] = cur_block
      BY <1>1, <1>3, <1>7
    <3> QED
      BY <3>1, <3>2, <3>3, <3>4, <3>5 DEF Hands
  <2> QED
    BY <1>1, <1>3, <2>2, <2>3, <2>4 DEF Full
<1>10. Holds(r, n + 1, k, d)'
  <2>1. \A i \in 1 .. k : d[i] = compressed[r[i]]
    <3>1. \A i \in 1 .. k : data[i] = compressed[route[i]]
      BY <1>1 DEF Holds
    <3>2. \A i \in 1 .. k : i \in 1 .. n /\ i \in 1 .. n + 1
      BY <1>1
    <3> QED
      BY <1>3, <1>5, <3>1, <3>2
  <2>2. \A i \in k + 1 .. n + 1 : d[i] = buffer[r[i]]
    <3>1. \A i \in k + 1 .. n : data[i] = buffer[route[i]]
      BY <1>1 DEF Holds
    <3>2. d[n + 1] = events /\ r[n + 1] = cur_block /\ events = buffer[cur_block]
      BY <1>1, <1>3, <1>5, <1>7 DEF Hands
    <3>3. \A i \in k + 1 .. n + 1 : i = n + 1 \/ (i \in k + 1 .. n /\ i \in 1 .. n /\ i \in 1 .. n + 1)
      BY <1>1
    <3> QED
      BY <1>3, <1>5, <3>1, <3>2, <3>3
  <2>3. log = (file \o FlattenSeq(d)) \o <<>>
    <3>1. log = (file \o FlattenSeq(data)) \o events
      BY <1>1 DEF Holds, Hands
    <3>2. file \o FlattenSeq(d) = (file \o FlattenSeq(data)) \o events
      <4>1. file \in Seq(Event) /\ data \in Seq(Seq(Event)) /\ events \in Seq(Event)
        BY <1>1, <1>2 DEF Types
      <4>2. file \o FlattenSeq(Append(data, events)) = (file \o FlattenSeq(data)) \o events
        BY <4>1, FlattenMore
      <4> QED
        BY <4>2 DEF d
    <3>3. log \o <<>> = log
      BY DEF Types
    <3> QED
      BY <3>1, <3>2, <3>3
  <2> QED
    BY <1>1, <1>3, <2>1, <2>2, <2>3 DEF Holds, Hands
<1> QED
  BY <1>1, <1>3, <1>4, <1>8, <1>9, <1>10 DEF Ring, r, d

(* A block is compressed.                                                  *)
Compresses ==
    /\ CompressNext = ci /\ CompressNext' = Succ(ci)
    /\ FullBlock(ci) /\ ~FullCopy(ci)
    /\ \A b \in Blocks : /\ FullCopy(b)' <=> FullCopy(b) \/ b = ci
                         /\ FullBlock(b)' <=> FullBlock(b) /\ b # ci
    /\ compressed' = [compressed EXCEPT ![ci] = buffer[ci]]
    /\ DumpNext' = DumpNext /\ AppendNext' = AppendNext /\ Current' = Current
    /\ buffer' = buffer /\ log' = log /\ file' = file

(* The first full block of the walk becomes its last full copy             *)
(* (CompressTrace).                                                        *)
LEMMA CompressedRing ==
  ASSUME Types, NEW route, NEW k, NEW data, Ring(route, k, data), Compresses
  PROVE  Ring(route, k + 1, data)'
<1> DEFINE n == Len(data)
<1>1. /\ route \in Seq(Blocks) /\ n \in Nat /\ Len(route) = n + 1 /\ k \in 0 .. n
      /\ Walk(route, n, k) /\ Full(route, n, k) /\ Holds(route, n, k, data)
  BY DEF Ring
<1> HIDE DEF n
<1>2. ci \in Blocks /\ route[k + 1] = ci
  BY <1>1 DEF Types, Walk, Compresses
<1>3. k + 1 \in 1 .. n /\ k \in Nat
  BY <1>1, <1>2 DEF Full, Compresses
<1>4. /\ \A i \in 1 .. n : route[i] \in Blocks
      /\ \A i \in 1 .. k + 1 : i = k + 1 \/ i \in 1 .. k
      /\ \A i \in k + 1 .. n : i = k + 1 \/ i \in (k + 1) + 1 .. n
      /\ \A i \in (k + 1) + 1 .. n : i \in k + 1 .. n /\ i # k + 1
      /\ \A i \in 1 .. k : i \in 1 .. k + 1 /\ i \in 1 .. n
      /\ k + 1 \in 1 .. k + 1 /\ k + 1 \in k + 1 .. n
  BY <1>1, <1>3
<1>5. /\ \A i \in (k + 1) + 1 .. n : route[i] # ci
      /\ \A i \in 1 .. k : route[i] # ci
  BY <1>1, <1>2, <1>4 DEF Full, Compresses
<1>6. Walk(route, n, k + 1)'
  BY <1>1, <1>2, <1>3 DEF Walk, Compresses
<1>7. Full(route, n, k + 1)'
  <2>1. \A i, j \in 1 .. k + 1 : route[i] = route[j] => i = j
    BY <1>1, <1>2, <1>4, <1>5 DEF Full
  <2>2. \A i, j \in (k + 1) + 1 .. n : route[i] = route[j] => i = j
    BY <1>1, <1>4 DEF Full
  <2>3. ASSUME NEW b \in Blocks
        PROVE  /\ FullCopy(b)' <=> \E i \in 1 .. k + 1 : route[i] = b
               /\ FullBlock(b)' <=> \E i \in (k + 1) + 1 .. n : route[i] = b
    <3>1. /\ FullCopy(b)' <=> FullCopy(b) \/ b = ci
          /\ FullBlock(b)' <=> FullBlock(b) /\ b # ci
          /\ FullCopy(b) <=> \E i \in 1 .. k : route[i] = b
          /\ FullBlock(b) <=> \E i \in k + 1 .. n : route[i] = b
      BY <1>1 DEF Full, Compresses
    <3>2. (\E i \in 1 .. k + 1 : route[i] = b) <=> (\E i \in 1 .. k : route[i] = b) \/ b = ci
      BY <1>2, <1>4
    <3>3. (\E i \in (k + 1) + 1 .. n : route[i] = b)
             <=> (\E i \in k + 1 .. n : route[i] = b) /\ b # ci
      BY <1>2, <1>4, <1>5
    <3> QED
      BY <3>1, <3>2, <3>3
  <2> QED
    BY <2>1, <2>2, <2>3 DEF Full
<1>8. Holds(route, n, k + 1, data)'
  <2>1. /\ \A b \in Blocks : b # ci => compressed'[b] = compressed[b]
        /\ compressed'[ci] = buffer[ci]
    BY <1>2 DEF Types, Compresses
  <2>2. \A i \in 1 .. k + 1 : data[i] = compressed'[route[i]]
    BY <1>1, <1>2, <1>4, <1>5, <2>1 DEF Holds
  <2>3. \A i \in (k + 1) + 1 .. n : data[i] = buffer'[route[i]]
    BY <1>1, <1>4 DEF Holds, Compresses
  <2>4. log' = (file' \o FlattenSeq(data)) \o Current'
    BY <1>1 DEF Holds, Compresses
  <2> QED
    BY <2>2, <2>3, <2>4 DEF Holds
<1>9. k + 1 \in 0 .. n
  BY <1>1, <1>3
<1> QED
  BY <1>1, <1>6, <1>7, <1>8, <1>9 DEF Ring, n

(* A compressed copy is written to the file.                               *)
Dumps ==
    /\ DumpNext = di /\ DumpNext' = Succ(di)
    /\ FullCopy(di)
    /\ \A b \in Blocks : /\ FullCopy(b)' <=> FullCopy(b) /\ b # di
                         /\ FullBlock(b)' <=> FullBlock(b)
    /\ file' = file \o compressed[di]
    /\ CompressNext' = CompressNext /\ AppendNext' = AppendNext
    /\ Current' = Current
    /\ buffer' = buffer /\ compressed' = compressed /\ log' = log

(* The first full copy leaves the walk, and is the next piece of the file  *)
(* (Dump).                                                                 *)
LEMMA ShorterRing ==
  ASSUME Types, NEW route, NEW k, NEW data, Ring(route, k, data), Dumps
  PROVE  /\ Ring(Tail(route), k - 1, Tail(data))'
         /\ data # <<>> /\ file' = file \o data[1]
<1> DEFINE n == Len(data)
           r == Tail(route)
           d == Tail(data)
<1>1. /\ route \in Seq(Blocks) /\ data \in Seq(Seq(Event)) /\ n \in Nat
      /\ Len(route) = n + 1 /\ k \in 0 .. n
      /\ Walk(route, n, k) /\ Full(route, n, k) /\ Holds(route, n, k, data)
  BY DEF Ring
<1>2. di \in Blocks /\ route[1] = di
  BY <1>1 DEF Types, Walk, Dumps
<1>3. k \in 1 .. n
  BY <1>1, <1>2 DEF Full, Dumps
<1>4. /\ r \in Seq(Blocks) /\ Len(r) = n
      /\ \A i \in 1 .. n : r[i] = route[i + 1]
  BY <1>1, <1>3
<1>5. data # <<>> /\ d \in Seq(Seq(Event)) /\ Len(d) = n - 1
  BY <1>1, <1>3, HeadTailProperties
<1>6. \A i \in 1 .. n - 1 : d[i] = data[i + 1]
  BY <1>1, <1>3, HeadTailProperties
<1> HIDE DEF r, d, n
<1>7. /\ (n - 1) + 1 = n /\ (k - 1) + 1 = k /\ n - 1 \in Nat /\ k - 1 \in 0 .. n - 1
      /\ 1 \in 1 .. k /\ k \in 1 .. n
      /\ \A i \in 1 .. k : i = 1 \/ (i - 1 \in 1 .. k - 1 /\ (i - 1) + 1 = i /\ i - 1 \in 1 .. n)
      /\ \A i \in 1 .. k - 1 : i \in 1 .. n /\ i \in 1 .. n - 1 /\ i + 1 \in 1 .. k /\ i + 1 # 1
      /\ \A i \in k .. n - 1 : i \in 1 .. n /\ i \in 1 .. n - 1 /\ i + 1 \in k + 1 .. n
      /\ \A i \in k + 1 .. n : i - 1 \in k .. n - 1 /\ (i - 1) + 1 = i /\ i - 1 \in 1 .. n
      /\ \A i, j \in 1 .. n : i + 1 = j + 1 => i = j
  BY <1>1, <1>3
<1>8. Walk(r, n - 1, k - 1)'
  <2>1. \A i \in 1 .. n : route[i + 1] = Succ(route[i])
    BY <1>1 DEF Walk
  <2>2. r[1] = Succ(di)
    BY <1>2, <1>4, <1>7, <2>1
  <2>3. r[k] = CompressNext /\ r[n] = AppendNext
    BY <1>1, <1>4, <1>7 DEF Walk
  <2>4. \A i \in 1 .. n - 1 : r[i + 1] = Succ(r[i])
    <3> SUFFICES ASSUME NEW i \in 1 .. n - 1 PROVE r[i + 1] = Succ(r[i])
      OBVIOUS
    <3>1. i \in 1 .. n /\ i + 1 \in 1 .. n
      BY <1>1
    <3> QED
      BY <1>4, <2>1, <3>1
  <2> QED
    BY <1>7, <2>2, <2>3, <2>4 DEF Walk, Dumps
<1>9. Full(r, n - 1, k - 1)'
  <2>1. \A i, j \in 1 .. k - 1 : r[i] = r[j] => i = j
    <3>1. \A i, j \in 1 .. k : route[i] = route[j] => i = j
      BY <1>1 DEF Full
    <3>2. \A i \in 1 .. k - 1 : r[i] = route[i + 1] /\ i + 1 \in 1 .. k
      BY <1>4, <1>7
    <3>3. \A i, j \in 1 .. k - 1 : i + 1 = j + 1 => i = j
      BY <1>7
    <3> QED
      BY <3>1, <3>2, <3>3
  <2>2. \A i, j \in k .. n - 1 : r[i] = r[j] => i = j
    <3>1. \A i, j \in k + 1 .. n : route[i] = route[j] => i = j
      BY <1>1 DEF Full
    <3>2. \A i \in k .. n - 1 : r[i] = route[i + 1] /\ i + 1 \in k + 1 .. n
      BY <1>4, <1>7
    <3>3. \A i, j \in k .. n - 1 : i + 1 = j + 1 => i = j
      BY <1>7
    <3> QED
      BY <3>1, <3>2, <3>3
  <2>3. ASSUME NEW b \in Blocks
        PROVE  /\ FullCopy(b)' <=> \E i \in 1 .. k - 1 : r[i] = b
               /\ FullBlock(b)' <=> \E i \in k .. n - 1 : r[i] = b
    <3>1. /\ FullCopy(b)' <=> FullCopy(b) /\ b # di
          /\ FullBlock(b)' <=> FullBlock(b)
          /\ FullCopy(b) <=> \E i \in 1 .. k : route[i] = b
          /\ FullBlock(b) <=> \E i \in k + 1 .. n : route[i] = b
      BY <1>1 DEF Full, Dumps
    <3>2. \A i \in 1 .. k : route[i] = di => i = 1
      BY <1>1, <1>2, <1>7 DEF Full
    <3>3. (\E i \in 1 .. k - 1 : r[i] = b) <=> (\E i \in 1 .. k : route[i] = b) /\ b # di
      <4>1. ASSUME NEW i \in 1 .. k - 1, r[i] = b
            PROVE  (\E j \in 1 .. k : route[j] = b) /\ b # di
        <5>1. i + 1 \in 1 .. k /\ i + 1 # 1 /\ route[i + 1] = b
          BY <1>4, <1>7, <4>1
        <5> QED
          BY <3>2, <5>1
      <4>2. ASSUME NEW i \in 1 .. k, route[i] = b, b # di
            PROVE  \E j \in 1 .. k - 1 : r[j] = b
        <5>1. i - 1 \in 1 .. k - 1 /\ r[i - 1] = route[i]
          BY <1>2, <1>4, <1>7, <4>2
        <5> QED
          BY <4>2, <5>1
      <4> QED
        BY <4>1, <4>2
    <3>4. (\E i \in k .. n - 1 : r[i] = b) <=> (\E i \in k + 1 .. n : route[i] = b)
      <4>1. ASSUME NEW i \in k .. n - 1, r[i] = b
            PROVE  \E j \in k + 1 .. n : route[j] = b
        BY <1>4, <1>7, <4>1
      <4>2. ASSUME NEW i \in k + 1 .. n, route[i] = b
            PROVE  \E j \in k .. n - 1 : r[j] = b
        <5>1. i - 1 \in k .. n - 1 /\ r[i - 1] = route[i]
          BY <1>4, <1>7
        <5> QED
          BY <4>2, <5>1
      <4> QED
        BY <4>1, <4>2
    <3> QED
      BY <3>1, <3>3, <3>4
  <2> QED
    BY <1>7, <2>1, <2>2, <2>3 DEF Full
<1>10. data[1] = compressed[di]
  BY <1>1, <1>2, <1>7 DEF Holds
<1>11. Holds(r, n - 1, k - 1, d)'
  <2>1. \A i \in 1 .. k - 1 : d[i] = compressed[r[i]]
    <3>1. \A i \in 1 .. k : data[i] = compressed[route[i]]
      BY <1>1 DEF Holds
    <3> QED
      BY <1>4, <1>6, <1>7, <3>1
  <2>2. \A i \in k .. n - 1 : d[i] = buffer[r[i]]
    <3>1. \A i \in k + 1 .. n : data[i] = buffer[route[i]]
      BY <1>1 DEF Holds
    <3>2. \A i \in k .. n - 1 : /\ d[i] = data[i + 1] /\ r[i] = route[i + 1]
                                 /\ i + 1 \in k + 1 .. n
      BY <1>4, <1>6, <1>7
    <3> QED
      BY <3>1, <3>2
  <2>3. log' = (file' \o FlattenSeq(d)) \o Current'
    <3>1. log = (file \o FlattenSeq(data)) \o Current
      BY <1>1 DEF Holds
    <3>2. file \o FlattenSeq(data) = (file \o data[1]) \o FlattenSeq(d)
      <4>1. file \in Seq(Event) /\ data \in Seq(Seq(Event)) /\ data # <<>>
        BY <1>1, <1>5 DEF Types
      <4>2. file \o FlattenSeq(data) = (file \o data[1]) \o FlattenSeq(Tail(data))
        BY <4>1, FlattenLess
      <4> QED
        BY <4>2 DEF d
    <3> QED
      BY <1>10, <3>1, <3>2 DEF Dumps
  <2> QED
    BY <1>7, <2>1, <2>2, <2>3 DEF Holds, Dumps
<1> QED
  BY <1>1, <1>3, <1>4, <1>5, <1>7, <1>8, <1>9, <1>10, <1>11 DEF Ring, Dumps, r, d

-----------------------------------------------------------------------------
(* The order is kept by what the appenders do with their block.            *)

(* While they have it, it is neither full nor with the compressor.         *)
LEMMA AppendersBlock ==
  ASSUME IInv, ~Waiting, ~GivenAway
  PROVE  /\ cur_block \in Blocks /\ ~FullBlock(cur_block)
         /\ AppendNext = cur_block /\ Current = buffer[cur_block]
<1>1. AppendersHave(cur_block) /\ cur_block \in Blocks
  BY DEF AppendersHave, IInv, Types
<1>2. BufferPlace(cur_block)
  BY <1>1, OnePlaceParts DEF IInv
<1>3. empty_buffer[cur_block] \in Nat /\ filled_buffer[cur_block] \in Nat
  BY <1>1 DEF IInv, Types
<1>4. filled_buffer[cur_block] = 0 /\ ~CompressorHas(cur_block)
  BY <1>1, <1>2, <1>3 DEF BufferPlace, One
<1> QED
  BY <1>1, <1>4 DEF FullBlock, CompressorHas, AppendNext, Current

(* Taking bytes, moving on in the close, and being interrupted.            *)
LEMMA StillOrder ==
  ASSUME RingOrder, Waiting' <=> Waiting, GivenAway' <=> GivenAway,
         UNCHANGED <<cur_block, buffer, compressed, filled_buffer, filled_compressed,
                     workerVars, log, file>>
  PROVE  RingOrder'
<1>1. PICK route, data, k : Ring(route, k, data)
  BY DEF RingOrder
<1>2. /\ DumpNext' = DumpNext /\ CompressNext' = CompressNext
      /\ AppendNext' = AppendNext /\ Current' = Current
  BY DEF DumpNext, CompressNext, AppendNext, Current, workerVars
<1>3. \A b \in Blocks : /\ FullCopy(b)' <=> FullCopy(b)
                        /\ FullBlock(b)' <=> FullBlock(b)
  BY DEF FullCopy, FullBlock, workerVars
<1>4. log' = (file' \o FlattenSeq(data)) \o Current'
  BY <1>1, <1>2 DEF Ring, Holds
<1>5. Ring(route, k, data)'
  BY <1>1, <1>2, <1>3, <1>4, SameRing
<1> QED
  BY <1>5 DEF RingOrder

(* A full block is handed to the compressor, by StartAppend, which goes on *)
(* to the next one, or by CloseBufferFile, which does not.                 *)
LEMMA HandOverOrder ==
  ASSUME IInv, RingOrder, ~Waiting, ~GivenAway,
         signal(filled_buffer, cur_block),
         \/ Waiting' /\ ~GivenAway' /\ cur_block' = Succ(cur_block)
         \/ GivenAway' /\ cur_block' = cur_block,
         UNCHANGED <<buffer, compressed, filled_compressed, workerVars, log, file>>
  PROVE  RingOrder'
<1>1. PICK route, data, k : Ring(route, k, data)
  BY DEF RingOrder
<1>2. PICK next : next = Succ(cur_block)
  OBVIOUS
<1>3. PICK events : events = buffer[cur_block]
  OBVIOUS
<1>4. /\ cur_block \in Blocks /\ ~FullBlock(cur_block)
      /\ AppendNext = cur_block /\ Current = buffer[cur_block]
  BY AppendersBlock
<1>5. AppendNext' = next /\ Current' = <<>>
  BY <1>2 DEF AppendNext, Current
<1>6. /\ DumpNext' = DumpNext /\ CompressNext' = CompressNext
  BY DEF DumpNext, CompressNext, workerVars
<1>7. ASSUME NEW b \in Blocks
      PROVE  /\ FullCopy(b)' <=> FullCopy(b)
             /\ FullBlock(b)' <=> FullBlock(b) \/ b = cur_block
  <2>1. filled_buffer'[b] = filled_buffer[b] + One(b = cur_block)
    BY <1>4, SignalAt DEF signal, IInv, Types
  <2>2. filled_buffer[cur_block] = 0
    <3>1. /\ AppendersHave(cur_block) /\ BufferPlace(cur_block)
          /\ empty_buffer[cur_block] \in Nat /\ filled_buffer[cur_block] \in Nat
      BY <1>4, OnePlaceParts DEF AppendersHave, IInv, Types
    <3> QED
      BY <3>1 DEF BufferPlace, One
  <2>3. filled_buffer[b] \in Nat
    BY DEF IInv, Types
  <2> QED
    BY <2>1, <2>2, <2>3 DEF FullCopy, FullBlock, workerVars, One
<1>8. Hands(next, events)
  BY <1>2, <1>3, <1>4, <1>5, <1>6, <1>7 DEF Hands
<1>9. Ring(Append(route, next), k, Append(data, events))'
  BY <1>1, <1>8, LongerRing DEF IInv
<1> QED
  BY <1>9 DEF RingOrder

(* The block that StartAppend waited for is empty and not in the walk.     *)
LEMMA TakeBlockOrder ==
  ASSUME IInv, RingOrder, Waiting, ~Waiting', ~GivenAway, ~GivenAway',
         NEW len, TakeBlock(len), UNCHANGED <<compressed, workerVars, log, file>>
  PROVE  RingOrder'
<1>1. PICK route, data, k : Ring(route, k, data)
  BY DEF RingOrder
<1>2. cur_block \in Blocks /\ ~FullBlock(cur_block)
  <2>1. cur_block \in Blocks /\ BufferPlace(cur_block) /\ empty_buffer[cur_block] > 0
    BY OnePlaceParts DEF IInv, Types, TakeBlock, wait
  <2>2. empty_buffer[cur_block] \in Nat /\ filled_buffer[cur_block] \in Nat
    BY <2>1 DEF IInv, Types
  <2>3. filled_buffer[cur_block] = 0 /\ ~CompressorHas(cur_block)
    BY <2>1, <2>2 DEF BufferPlace, One
  <2> QED
    BY <2>1, <2>3 DEF FullBlock, CompressorHas
<1>3. /\ \A b \in Blocks : b # cur_block => buffer'[b] = buffer[b]
      /\ buffer'[cur_block] = <<>> /\ cur_block' = cur_block
  BY <1>2 DEF TakeBlock, IInv, Types
<1>4. /\ DumpNext' = DumpNext /\ CompressNext' = CompressNext
      /\ AppendNext' = AppendNext /\ Current' = Current
  BY <1>3 DEF DumpNext, CompressNext, AppendNext, Current, workerVars
<1>5. \A b \in Blocks : /\ FullCopy(b)' <=> FullCopy(b)
                        /\ FullBlock(b)' <=> FullBlock(b)
                        /\ FullCopy(b) => compressed'[b] = compressed[b]
                        /\ FullBlock(b) => buffer'[b] = buffer[b]
  BY <1>2, <1>3 DEF FullCopy, FullBlock, workerVars, TakeBlock
<1>6. log' = (file' \o FlattenSeq(data)) \o Current'
  BY <1>1, <1>4 DEF Ring, Holds
<1>7. Ring(route, k, data)'
  BY <1>1, <1>4, <1>5, <1>6, SameRing
<1> QED
  BY <1>7 DEF RingOrder

(* The log with one more event.                                            *)
LEMMA LogAppended ==
  ASSUME Types, NEW route, NEW k, NEW data, Ring(route, k, data),
         cur_block \in Blocks, Current = buffer[cur_block], NEW e \in Event
  PROVE  Append(log, e) = (file \o FlattenSeq(data)) \o Append(Current, e)
<1>1. log = (file \o FlattenSeq(data)) \o Current /\ data \in Seq(Seq(Event))
  BY DEF Ring, Holds
<1>2. file \o FlattenSeq(data) \in Seq(Event) /\ Current \in Seq(Event)
  BY <1>1, FlattenType, ConcatType DEF Types
<1>3. Append((file \o FlattenSeq(data)) \o Current, e)
         = (file \o FlattenSeq(data)) \o Append(Current, e)
  <2> DEFINE a == file \o FlattenSeq(data)
             c == Current
  <2>1. a \in Seq(Event) /\ c \in Seq(Event)
    BY <1>2
  <2> HIDE DEF a, c
  <2>2. Append(a \o c, e) = a \o Append(c, e)
    BY <2>1
  <2> QED
    BY <2>2 DEF a, c
<1> QED
  BY <1>1, <1>3

(* An event is stored behind what is in the current block.                 *)
LEMMA StoreOrder ==
  ASSUME IInv, RingOrder, ~Waiting, ~Waiting', ~GivenAway, ~GivenAway',
         NEW e \in Event, Store(e),
         UNCHANGED <<compressed, filled_buffer, filled_compressed, workerVars, file>>
  PROVE  RingOrder'
<1>1. PICK route, data, k : Ring(route, k, data)
  BY DEF RingOrder
<1>2. /\ cur_block \in Blocks /\ ~FullBlock(cur_block)
      /\ AppendNext = cur_block /\ Current = buffer[cur_block]
  BY AppendersBlock
<1>3. /\ \A b \in Blocks : b # cur_block => buffer'[b] = buffer[b]
      /\ buffer'[cur_block] = Append(buffer[cur_block], e) /\ cur_block' = cur_block
  BY <1>2 DEF Store, IInv, Types
<1>4. /\ DumpNext' = DumpNext /\ CompressNext' = CompressNext
      /\ AppendNext' = AppendNext /\ Current' = Append(Current, e)
  BY <1>2, <1>3 DEF DumpNext, CompressNext, AppendNext, Current, workerVars
<1>5. \A b \in Blocks : /\ FullCopy(b)' <=> FullCopy(b)
                        /\ FullBlock(b)' <=> FullBlock(b)
                        /\ FullCopy(b) => compressed'[b] = compressed[b]
                        /\ FullBlock(b) => buffer'[b] = buffer[b]
  BY <1>2, <1>3 DEF FullCopy, FullBlock, workerVars
<1>6. log' = (file' \o FlattenSeq(data)) \o Current'
  <2>1. Append(log, e) = (file \o FlattenSeq(data)) \o Append(Current, e)
    BY <1>1, <1>2, LogAppended DEF IInv
  <2> QED
    BY <1>4, <2>1 DEF Store
<1>7. Ring(route, k, data)'
  BY <1>1, <1>4, <1>5, <1>6, SameRing
<1> QED
  BY <1>7 DEF RingOrder

(* What EndRecord and CloseStore store is an event.                        *)
LEMMA StoredByThread ==
  ASSUME IInv, NEW t \in Threads, EndRecord(t)
  PROVE  \E e \in Event : Store(e)
<1>1. sent[t] + 1 \in 0 .. MaxEvents
  BY SentType DEF EndRecord, IInv, Types, Places
<1>2. [tid |-> t, n |-> sent[t] + 1] \in Event
  BY <1>1 DEF Event
<1> QED
  BY <1>2 DEF EndRecord

(* The end event of the main thread, which the close stores                *)
(* (CloseBufferFile).                                                      *)
LEMMA StoredByClose ==
  ASSUME IInv, CloseStore
  PROVE  \E e \in Event : Store(e)
<1>1. EndEvent(closer) \in Event
  BY BoundAssumption DEF CloseStore, CloseStep, Places, EndEvent, Event, IInv, Types
<1> QED
  BY <1>1 DEF CloseStore

(* The record functions keep the order.                                    *)
LEMMA RecordOrder ==
  ASSUME IInv, RingOrder, NEW t \in Threads, Record(t)
  PROVE  RingOrder'
<1> USE DEF IInv
<1>1. /\ ~GivenAway /\ ~GivenAway' /\ cpc' = cpc /\ UNCHANGED <<compressed, workerVars, file>>
  BY DEF Record, RecordFits, RecordFull, NextBlock, EndRecord, Running, GivenAway,
         closeVars, GivenAway
<1>2. ASSUME NEW len \in EventSizes, RecordFits(t, len) PROVE RingOrder'
  <2>1. ~Waiting /\ ~Waiting'
    BY <1>1, <1>2, FreeLock DEF RecordFits, TakeBytes, Waiting, Types
  <2> QED
    BY <1>1, <1>2, <2>1, StillOrder DEF RecordFits, TakeBytes, semVars
<1>3. ASSUME NEW len \in EventSizes, RecordFull(t, len) PROVE RingOrder'
  <2>1. ~Waiting /\ Waiting'
    BY <1>3, FreeLock DEF RecordFull, HandOver, Waiting, Types
  <2> QED
    BY <1>1, <1>3, <2>1, HandOverOrder DEF RecordFull, HandOver
<1>4. CASE NextBlock(t)
  <2>1. Waiting
    BY <1>4 DEF NextBlock, Waiting
  <2>2. t \in InAppend /\ pc' = [pc EXCEPT ![t] = "write"]
    BY <1>4 DEF NextBlock, InAppend
  <2>3. ~Waiting'
    BY <1>1, <2>2, OnlyHolder DEF Waiting, ThreadPlaces
  <2> QED
    BY <1>1, <1>4, <2>1, <2>3, TakeBlockOrder DEF NextBlock
<1>5. CASE EndRecord(t)
  <2>1. t \in InAppend /\ pc[t] = "write" /\ pc' = [pc EXCEPT ![t] = "run"]
    BY <1>5 DEF EndRecord, InAppend
  <2>2. ~Waiting /\ ~Waiting'
    BY <1>1, <2>1, OnlyHolder DEF Waiting, ThreadPlaces
  <2>3. PICK e \in Event : Store(e)
    BY <1>5, StoredByThread
  <2> QED
    BY <1>1, <1>5, <2>2, <2>3, StoreOrder DEF EndRecord, semVars
<1> QED
  BY <1>2, <1>3, <1>4, <1>5 DEF Record

(* Entering CloseBufferFile keeps it.                                      *)
LEMMA EnterOrder ==
  ASSUME IInv, RingOrder, NEW t \in Threads, Exit(t) \/ Signal(t)
  PROVE  RingOrder'
<1>1. /\ cpc = "none" /\ cpc' = "lock"
      /\ UNCHANGED <<pc, cur_block, buffer, compressed, semVars, workerVars, log, file>>
  BY DEF IInv, Places, Exit, Signal, EnterClose, lockVars, threadVars
<1>2. Waiting' <=> Waiting
  BY <1>1 DEF Waiting
<1>3. GivenAway' <=> GivenAway
  BY <1>1 DEF GivenAway
<1> QED
  BY <1>1, <1>2, <1>3, StillOrder DEF semVars

(* CloseBufferFile keeps it.                                               *)
LEMMA CloseOrder ==
  ASSUME IInv, RingOrder, Close
  PROVE  RingOrder'
<1> USE DEF IInv
<1>1. UNCHANGED <<pc, workerVars, compressed, file>>
  BY DEF Close, CloseFits, CloseFull, CloseNextBlock, CloseStore,
         CloseFlagCompress, CloseFlagDump, CloseSignal, CloseRaces, CloseJoinCompress,
         CloseJoinDump, CloseStep, threadVars
<1>2. CASE CloseFits
  <2>1. ~Waiting /\ ~Waiting' /\ ~GivenAway /\ ~GivenAway'
    BY <1>1, <1>2, FreeLock
    DEF CloseFits, CloseStep, TakeBytes, Waiting, GivenAway
  <2> QED
    BY <1>1, <1>2, <2>1, StillOrder DEF CloseFits, TakeBytes, semVars
<1>3. CASE CloseFull
  <2>1. ~Waiting /\ Waiting' /\ ~GivenAway /\ ~GivenAway'
    BY <1>1, <1>3, FreeLock
    DEF CloseFull, CloseStep, HandOver, Waiting, GivenAway
  <2> QED
    BY <1>1, <1>3, <2>1, HandOverOrder DEF CloseFull, HandOver
<1>4. CASE CloseNextBlock
  <2>1. Waiting /\ ~Waiting' /\ ~GivenAway /\ ~GivenAway'
    BY <1>1, <1>4
    DEF CloseNextBlock, CloseStep, Waiting, GivenAway, LockHolder, InAppend
  <2> QED
    BY <1>1, <1>4, <2>1, TakeBlockOrder DEF CloseNextBlock
<1>5. CASE CloseStore
  <2>1. ~Waiting /\ ~Waiting' /\ ~GivenAway /\ ~GivenAway'
    BY <1>1, <1>5
    DEF CloseStore, CloseStep, Waiting, GivenAway, LockHolder, InAppend
  <2>2. PICK e \in Event : Store(e)
    BY <1>5, StoredByClose
  <2> QED
    BY <1>1, <1>5, <2>1, <2>2, StoreOrder DEF CloseStore, semVars
<1>6. CASE \/ CloseFlagCompress \/ CloseFlagDump \/ CloseRaces
           \/ CloseJoinCompress \/ CloseJoinDump
  <2>1. /\ Waiting' <=> Waiting
        /\ GivenAway' <=> GivenAway
    BY <1>1, <1>6
    DEF CloseFlagCompress, CloseFlagDump, CloseRaces, CloseJoinCompress, CloseJoinDump,
        CloseStep, Waiting, GivenAway
  <2> QED
    BY <1>1, <1>6, <2>1, StillOrder
    DEF CloseFlagCompress, CloseFlagDump, CloseRaces, CloseJoinCompress, CloseJoinDump,
        lockVars, semVars
<1>7. CASE CloseSignal
  <2>1. ~Waiting /\ ~GivenAway /\ GivenAway'
    BY <1>7
    DEF CloseSignal, CloseStep, Waiting, GivenAway, Places, InAppend
  <2> QED
    BY <1>1, <1>7, <2>1, HandOverOrder DEF CloseSignal, lockVars
<1> QED
  BY <1>2, <1>3, <1>4, <1>5, <1>6, <1>7 DEF Close

-----------------------------------------------------------------------------
(* The workers keep the order.                                             *)

(* A step that leaves the places of the walk and the full blocks alone.    *)
LEMMA SameOrder ==
  ASSUME RingOrder, UNCHANGED <<cur_block, cpc, pc, buffer, compressed, log, file>>,
         DumpNext' = DumpNext, CompressNext' = CompressNext,
         \A b \in Blocks : /\ FullCopy(b)' <=> FullCopy(b)
                           /\ FullBlock(b)' <=> FullBlock(b)
  PROVE  RingOrder'
<1>1. PICK route, data, k : Ring(route, k, data)
  BY DEF RingOrder
<1>2. AppendNext' = AppendNext /\ Current' = Current
  BY DEF AppendNext, Current, Waiting, GivenAway
<1>3. log' = (file' \o FlattenSeq(data)) \o Current'
  BY <1>1, <1>2 DEF Ring, Holds
<1>4. Ring(route, k, data)'
  BY <1>1, <1>2, <1>3, SameRing
<1> QED
  BY <1>4 DEF RingOrder

(* A semaphore is zero or one (TypeCorrect), and where a worker has a      *)
(* block or fills its copy, the block is not full for somebody else.       *)
LEMMA SemaphoresOf ==
  ASSUME IInv, NEW b \in Blocks
  PROVE  /\ filled_buffer[b] \in {0, 1} /\ filled_compressed[b] \in {0, 1}
         /\ CompressorHas(b) => filled_buffer[b] = 0
         /\ CompressorFills(b) => filled_compressed[b] = 0 /\ ~DumperHas(b)
         /\ DumperHas(b) => filled_compressed[b] = 0
<1>1. BufferPlace(b) /\ CopyPlace(b)
  BY OnePlaceParts DEF IInv
<1>2. /\ empty_buffer[b] \in Nat /\ filled_buffer[b] \in Nat
      /\ empty_compressed[b] \in Nat /\ filled_compressed[b] \in Nat
  BY DEF IInv, Types
<1>3. /\ One(CompressorHas(b)) \in {0, 1} /\ One(AppendersHave(b)) \in {0, 1}
      /\ One(CompressorFills(b)) \in {0, 1} /\ One(DumperHas(b)) \in {0, 1}
      /\ CompressorHas(b) => One(CompressorHas(b)) = 1
      /\ CompressorFills(b) => One(CompressorFills(b)) = 1
      /\ DumperHas(b) => One(DumperHas(b)) = 1
  BY DEF One
<1>4. filled_buffer[b] \in {0, 1} /\ (CompressorHas(b) => filled_buffer[b] = 0)
  BY <1>1, <1>2, <1>3 DEF BufferPlace
<1>5. filled_compressed[b] \in {0, 1} /\ (CompressorFills(b) => filled_compressed[b] = 0)
  BY <1>1, <1>2, <1>3 DEF CopyPlace
<1>6. /\ DumperHas(b) => filled_compressed[b] = 0
      /\ CompressorFills(b) => ~DumperHas(b)
  BY <1>1, <1>2, <1>3 DEF CopyPlace
<1> QED
  BY <1>4, <1>5, <1>6

(* The compressor: a block it has waited for stays in the walk, and moves  *)
(* from its second part to its first when it is compressed.                *)
LEMMA CompressOrder ==
  ASSUME IInv, RingOrder, CompressTrace
  PROVE  RingOrder'
<1>1. /\ UNCHANGED <<cur_block, cpc, pc, buffer, log, file>>
      /\ DumpNext' = DumpNext
  BY DEF CompressTrace, CompressTest, CompressWaitFilled, CompressWaitEmpty,
         CompressBlock, CompressSignalFilled, CompressSignalEmpty,
         appendVars, lockVars, threadVars, closeVars, DumpNext
<1>2. ci \in Blocks
  BY DEF IInv, Types
<1>3. CASE CompressTest
  BY <1>1, <1>3, SameOrder DEF CompressTest, CompressNext, FullCopy, FullBlock, semVars
<1>4. CASE CompressWaitFilled
  <2>1. \A b \in Blocks : FullBlock(b)' <=> FullBlock(b)
    <3> SUFFICES ASSUME NEW b \in Blocks PROVE FullBlock(b)' <=> FullBlock(b)
      OBVIOUS
    <3>1. filled_buffer'[b] = filled_buffer[b] - One(b = ci)
      BY <1>2, <1>4, WaitAt DEF CompressWaitFilled, wait, IInv, Types
    <3>2. filled_buffer[ci] > 0 /\ filled_buffer[ci] \in {0, 1} /\ filled_buffer[b] \in {0, 1}
      BY <1>2, <1>4, SemaphoresOf DEF CompressWaitFilled, wait
    <3> QED
      BY <1>4, <3>1, <3>2 DEF CompressWaitFilled, FullBlock, One
  <2> QED
    BY <1>1, <1>4, <2>1, SameOrder DEF CompressWaitFilled, CompressNext, FullCopy
<1>5. CASE CompressWaitEmpty
  BY <1>1, <1>5, SameOrder DEF CompressWaitEmpty, CompressNext, FullCopy, FullBlock
<1>6. CASE CompressBlock
  <2>1. PICK route, data, k : Ring(route, k, data)
    BY DEF RingOrder
  <2>2. /\ FullBlock(ci) /\ ~FullCopy(ci)
        /\ CompressNext = ci /\ CompressNext' = Succ(ci)
    <3>1. CompressorHas(ci) /\ CompressorFills(ci) /\ cst = "lz4"
      BY <1>6 DEF CompressBlock, CompressorHas, CompressorFills
    <3> QED
      BY <1>2, <1>6, <3>1, SemaphoresOf
      DEF CompressBlock, FullBlock, FullCopy, DumperHas, CompressNext
  <2>3. ASSUME NEW b \in Blocks
        PROVE  /\ FullCopy(b)' <=> FullCopy(b) \/ b = ci
               /\ FullBlock(b)' <=> FullBlock(b) /\ b # ci
    <3>1. filled_buffer[ci] = 0
      BY <1>2, <1>6, SemaphoresOf DEF CompressBlock, CompressorHas
    <3> QED
      BY <1>6, <3>1 DEF CompressBlock, FullCopy, FullBlock, semVars
  <2>4. Current' = Current /\ AppendNext' = AppendNext
    BY <1>1 DEF Current, AppendNext, Waiting, GivenAway
  <2>5. compressed' = [compressed EXCEPT ![ci] = buffer[ci]]
    BY <1>6 DEF CompressBlock
  <2>6. Compresses
    BY <1>1, <2>2, <2>3, <2>4, <2>5 DEF Compresses
  <2>7. Ring(route, k + 1, data)'
    BY <2>1, <2>6, CompressedRing DEF IInv
  <2> QED
    BY <2>7 DEF RingOrder
<1>7. CASE CompressSignalFilled
  <2>1. \A b \in Blocks : FullCopy(b)' <=> FullCopy(b)
    <3> SUFFICES ASSUME NEW b \in Blocks PROVE FullCopy(b)' <=> FullCopy(b)
      OBVIOUS
    <3>1. filled_compressed'[b] = filled_compressed[b] + One(b = ci)
      BY <1>2, <1>7, SignalAt DEF CompressSignalFilled, signal, IInv, Types
    <3>2. filled_compressed[ci] = 0 /\ filled_compressed[b] \in {0, 1}
      BY <1>2, <1>7, SemaphoresOf DEF CompressSignalFilled, CompressorFills
    <3> QED
      BY <1>7, <3>1, <3>2 DEF CompressSignalFilled, FullCopy, One
  <2> QED
    BY <1>1, <1>7, <2>1, SameOrder DEF CompressSignalFilled, CompressNext, FullBlock
<1>8. CASE CompressSignalEmpty
  BY <1>1, <1>8, SameOrder DEF CompressSignalEmpty, CompressNext, FullCopy, FullBlock
<1> QED
  BY <1>3, <1>4, <1>5, <1>6, <1>7, <1>8 DEF CompressTrace

(* The dumper writes the first copy of the walk.                           *)
LEMMA DumpStep ==
  ASSUME IInv, Dump
  PROVE  Dumps
<1>1. di \in Blocks /\ DumperHas(di)
  BY DEF IInv, Types, Dump, DumperHas
<1>2. filled_compressed[di] = 0 /\ ~CompressorFills(di)
  BY <1>1, SemaphoresOf
<1>3. FullCopy(di) /\ DumpNext = di /\ DumpNext' = Succ(di)
  BY DEF Dump, FullCopy, DumpNext
<1>4. /\ CompressNext' = CompressNext /\ AppendNext' = AppendNext /\ Current' = Current
      /\ buffer' = buffer /\ compressed' = compressed /\ log' = log
      /\ file' = file \o compressed[di]
  BY DEF Dump, CompressNext, AppendNext, Current, Waiting, GivenAway,
         appendVars, lockVars, threadVars, closeVars
<1>5. ASSUME NEW b \in Blocks
      PROVE  /\ FullCopy(b)' <=> FullCopy(b) /\ b # di
             /\ FullBlock(b)' <=> FullBlock(b)
  BY <1>2 DEF Dump, FullCopy, FullBlock, CompressorFills, semVars
<1> QED
  BY <1>3, <1>4, <1>5 DEF Dumps

(* The steps of DumpCompressed keep the order.                             *)
LEMMA DumpOrder ==
  ASSUME IInv, RingOrder, DumpCompressed
  PROVE  RingOrder'
<1>1. /\ UNCHANGED <<cur_block, cpc, pc, buffer, compressed, log>>
      /\ CompressNext' = CompressNext
  BY DEF DumpCompressed, DumpTest, DumpWaitFilled, Dump, DumpSignalEmpty,
         appendVars, lockVars, threadVars, closeVars, CompressNext
<1>2. di \in Blocks
  BY DEF IInv, Types
<1>3. CASE DumpTest
  BY <1>1, <1>3, SameOrder DEF DumpTest, DumpNext, FullCopy, FullBlock, semVars
<1>4. CASE DumpWaitFilled
  <2>1. \A b \in Blocks : FullCopy(b)' <=> FullCopy(b)
    <3> SUFFICES ASSUME NEW b \in Blocks PROVE FullCopy(b)' <=> FullCopy(b)
      OBVIOUS
    <3>1. filled_compressed'[b] = filled_compressed[b] - One(b = di)
      BY <1>2, <1>4, WaitAt DEF DumpWaitFilled, wait, IInv, Types
    <3>2. /\ filled_compressed[di] > 0 /\ filled_compressed[di] \in {0, 1}
          /\ filled_compressed[b] \in {0, 1}
      BY <1>2, <1>4, SemaphoresOf DEF DumpWaitFilled, wait
    <3> QED
      BY <1>4, <3>1, <3>2 DEF DumpWaitFilled, FullCopy, One
  <2> QED
    BY <1>1, <1>4, <2>1, SameOrder DEF DumpWaitFilled, DumpNext, FullBlock
<1>5. CASE Dump
  <2>1. PICK route, data, k : Ring(route, k, data)
    BY DEF RingOrder
  <2>2. Ring(Tail(route), k - 1, Tail(data))'
    BY <1>5, <2>1, DumpStep, ShorterRing DEF IInv
  <2> QED
    BY <2>2 DEF RingOrder
<1>6. CASE DumpSignalEmpty
  BY <1>1, <1>6, SameOrder DEF DumpSignalEmpty, DumpNext, FullCopy, FullBlock
<1> QED
  BY <1>3, <1>4, <1>5, <1>6 DEF DumpCompressed

-----------------------------------------------------------------------------
(* The specification.                                                      *)

(* The ring starts with an empty walk.                                     *)
LEMMA InitOrder == Init => RingOrder
<1> SUFFICES ASSUME Init PROVE RingOrder
  OBVIOUS
<1> DEFINE route == <<0>>
<1>1. /\ DumpNext = 0 /\ CompressNext = 0 /\ AppendNext = 0 /\ Current = <<>>
  <2>1. 0 \in Blocks
    BY BlockAssumption DEF Blocks
  <2> QED
    BY <2>1 DEF Init, DumpNext, CompressNext, AppendNext, Current, GivenAway
<1>2. /\ route \in Seq(Blocks) /\ Len(route) = 1 /\ route[1] = 0
      /\ <<>> \in Seq(Seq(Event)) /\ Len(<<>>) = 0 /\ <<>> \o <<>> = <<>>
  BY BlockAssumption DEF Blocks
<1>3. Walk(route, 0, 0)
  BY <1>1, <1>2 DEF Walk
<1>4. Full(route, 0, 0)
  BY DEF Full, FullCopy, FullBlock, Init
<1>5. Holds(route, 0, 0, <<>>)
  BY <1>1, <1>2, FlattenEmpty DEF Holds, Init
<1> HIDE DEF route
<1> DEFINE data == <<>>
<1>6. /\ data \in Seq(Seq(Event)) /\ Len(data) = 0
      /\ Walk(route, Len(data), 0) /\ Full(route, Len(data), 0)
      /\ Holds(route, Len(data), 0, data)
  BY <1>2, <1>3, <1>4, <1>5
<1> HIDE DEF data
<1>7. Ring(route, 0, data)
  BY <1>2, <1>6 DEF Ring
<1> QED
  BY <1>7 DEF RingOrder

(* Every step keeps the order of the blocks.                               *)
LEMMA StepOrder == IInv /\ RingOrder /\ [Next]_vars => RingOrder'
<1> SUFFICES ASSUME IInv, RingOrder, [Next]_vars PROVE RingOrder'
  OBVIOUS
<1>1. ASSUME NEW t \in Threads, Record(t) PROVE RingOrder'
  BY <1>1, RecordOrder
<1>2. ASSUME NEW t \in Threads, Exit(t) \/ Signal(t) PROVE RingOrder'
  BY <1>2, EnterOrder
<1>3. CASE Close
  BY <1>3, CloseOrder
<1>4. CASE CompressTrace
  BY <1>4, CompressOrder
<1>5. CASE DumpCompressed
  BY <1>5, DumpOrder
<1>6. CASE UNCHANGED vars
  <2>1. (Waiting' <=> Waiting) /\ (GivenAway' <=> GivenAway)
    BY <1>6 DEF vars, threadVars, closeVars, Waiting, GivenAway
  <2> QED
    BY <1>6, <2>1, StillOrder DEF vars, lockVars, semVars
<1> QED
  BY <1>1, <1>2, <1>3, <1>4, <1>5, <1>6 DEF Next

(* Blocks are compressed and dumped in the order they were filled, each    *)
(* once, and hold what follows the file in the log, whatever the timing of *)
(* the threads, the workers and the close is.                              *)
THEOREM RingOrderTheorem == Spec => []RingOrder
BY InitOrder, StepOrder, InductiveInvariant, PTL DEF Spec

(* What Dump writes ends where a piece of the log ends.                    *)
LEMMA PrefixWritten ==
  ASSUME Types, NEW route, NEW k, NEW data, Ring(route, k, data), data # <<>>
  PROVE  \E n \in Len(file) .. Len(log) : file \o data[1] = SubSeq(log, 1, n)
<1> DEFINE w == file \o data[1]
           rest == FlattenSeq(Tail(data))
<1>1. file \in Seq(Event) /\ data \in Seq(Seq(Event))
  BY DEF Types, Ring
<1>2. data[1] \in Seq(Event) /\ Tail(data) \in Seq(Seq(Event))
  BY <1>1
<1>3. w \in Seq(Event) /\ Len(w) >= Len(file) /\ Len(file) \in Nat
  BY <1>1, <1>2
<1>4. rest \in Seq(Event)
  BY <1>2, FlattenType
<1>5. Current \in Seq(Event)
  BY DEF Types, Current
<1>6. log = (w \o rest) \o Current
  BY <1>1, FlattenLess DEF Ring, Holds
<1> HIDE DEF w, rest
<1>7. Len(log) >= Len(w) /\ SubSeq(log, 1, Len(w)) = w
  BY <1>3, <1>4, <1>5, <1>6
<1>8. Len(w) \in Len(file) .. Len(log)
  <2>1. Len(w) \in Nat
    BY <1>3
  <2>2. log \in Seq(Event)
    BY DEF Types
  <2>3. Len(log) \in Nat
    BY <2>2
  <2> QED
    BY <1>3, <1>7, <2>1, <2>3
<1> QED
  BY <1>7, <1>8 DEF w

(* A step of the ring is a step of TraceLog: the end of an append adds to  *)
(* the log, Dump writes a piece of the log to the file, and nothing else   *)
(* touches either.                                                         *)
LEMMA StepImplements ==
  IInv /\ RingOrder /\ [Next]_vars => [Trace!LogNext]_<<log, file>>
<1> SUFFICES ASSUME IInv, RingOrder, [Next]_vars PROVE [Trace!LogNext]_<<log, file>>
  OBVIOUS
<1>1. ASSUME NEW e \in Event, Store(e), file' = file PROVE Trace!LogAppend
  BY <1>1 DEF Store, Trace!LogAppend
<1>2. CASE Dump
  <2>1. PICK route, data, k : Ring(route, k, data)
    BY DEF RingOrder
  <2>2. data # <<>> /\ file' = file \o data[1]
    BY <1>2, <2>1, DumpStep, ShorterRing DEF IInv
  <2>3. \E n \in Len(file) .. Len(log) : file \o data[1] = SubSeq(log, 1, n)
    BY <2>1, <2>2, PrefixWritten DEF IInv
  <2>4. log' = log
    BY <1>2 DEF Dump, appendVars
  <2> QED
    BY <2>2, <2>3, <2>4 DEF Trace!LogNext, Trace!LogWrite
<1>3. ASSUME NEW t \in Threads, EndRecord(t) PROVE Trace!LogAppend
  BY <1>1, <1>3, StoredByThread DEF EndRecord
<1>4. CASE CloseStore
  <2>1. PICK e \in Event : Store(e)
    BY <1>4, StoredByClose
  <2>2. file' = file
    BY <1>4 DEF CloseStore, CloseStep
  <2> QED
    BY <1>1, <2>1, <2>2 DEF Trace!LogNext
<1>5. ASSUME NEW t \in Threads, Record(t), ~EndRecord(t) PROVE UNCHANGED <<log, file>>
  BY <1>5 DEF Record, RecordFits, RecordFull, NextBlock
<1>6. ASSUME NEW t \in Threads, Exit(t) \/ Signal(t) PROVE UNCHANGED <<log, file>>
  BY <1>6 DEF Exit, Signal, EnterClose
<1>7. CASE Close /\ ~CloseStore
  BY <1>7 DEF Close, CloseFits, CloseFull, CloseNextBlock, CloseFlagCompress,
              CloseFlagDump, CloseSignal, CloseRaces, CloseJoinCompress, CloseJoinDump,
              CloseStep
<1>8. CASE CompressTrace \/ (DumpCompressed /\ ~Dump)
  BY <1>8 DEF CompressTrace, CompressTest, CompressWaitFilled, CompressWaitEmpty,
              CompressBlock, CompressSignalFilled, CompressSignalEmpty,
              DumpCompressed, DumpTest, DumpWaitFilled, DumpSignalEmpty, appendVars
<1>9. CASE UNCHANGED vars
  BY <1>9 DEF vars
<1> QED
  BY <1>2, <1>3, <1>4, <1>5, <1>6, <1>7, <1>8, <1>9 DEF Next, DumpCompressed, Trace!LogNext

(* The trace file is at any time a prefix of the log, which only grows by  *)
(* appends: whole blocks reach it, once and in the order in which they     *)
(* were filled.                                                            *)
THEOREM Refinement == Spec => ImplementsTraceLog
<1>1. Init => Trace!LogInit
  BY DEF Init, Trace!LogInit
<1>2. IInv /\ RingOrder /\ [Next]_vars => [Trace!LogNext]_Trace!logVars
  BY StepImplements DEF Trace!logVars
<1>3. Spec => Trace!LogSpec
  BY <1>1, <1>2, InductiveInvariant, RingOrderTheorem, PTL DEF Spec, Trace!LogSpec
<1> QED
  BY <1>3 DEF ImplementsTraceLog

(* No block is left to compress or to dump.                                *)
NothingLeft == \A b \in Blocks : ~FullBlock(b) /\ ~FullCopy(b)

(* Nothing is lost inside the ring: when no full block and no full copy    *)
(* is left at the end of a close, the file is the whole log. What an exit  *)
(* can lose (CloseFlushes does not hold) is in blocks the workers did not  *)
(* come to.                                                                *)
THEOREM WholeTrace == Spec => [](cpc = "closed" /\ NothingLeft => file = log)
<1>1. ASSUME IInv, RingOrder, cpc = "closed", NothingLeft PROVE file = log
  <2>1. PICK route, data, k : Ring(route, k, data)
    BY <1>1 DEF RingOrder
  <2>2. data = <<>>
    <3>1. /\ Len(data) \in Nat /\ k \in 0 .. Len(data) /\ Len(route) = Len(data) + 1
          /\ route \in Seq(Blocks) /\ Full(route, Len(data), k) /\ data \in Seq(Seq(Event))
      BY <2>1 DEF Ring
    <3>2. SUFFICES ASSUME 1 \in 1 .. Len(data) PROVE FALSE
      BY <3>1
    <3>3. route[1] \in Blocks /\ (1 \in 1 .. k \/ 1 \in k + 1 .. Len(data))
      BY <3>1, <3>2
    <3>4. FullCopy(route[1]) \/ FullBlock(route[1])
      BY <3>1, <3>3 DEF Full
    <3> QED
      BY <1>1, <3>3, <3>4 DEF NothingLeft
  <2>3. Current = <<>>
    BY <1>1 DEF Current, GivenAway
  <2>4. file \in Seq(Event)
    BY <1>1 DEF IInv, Types
  <2> QED
    BY <2>1, <2>2, <2>3, <2>4, FlattenEmpty DEF Ring, Holds
<1> QED
  BY <1>1, InductiveInvariant, RingOrderTheorem, PTL
=============================================================================
