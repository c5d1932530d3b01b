----------------------------- MODULE MergeTrace -----------------------------
(***************************************************************************)
(* MergeTrace (tools/PrintBug/MergeTrace.cpp) reads the events of all      *)
(* threads one by one and rebuilds, per thread, the sequence of            *)
(* SmallestBlocks that the thread executed.  Only accesses, external calls *)
(* and block entries are recorded; everything between them is read off the *)
(* control flow graph.                                                     *)
(*                                                                         *)
(* block_trace is kept per thread (the order across threads is the order   *)
(* of the events), and of a block's addresses only the arguments of an     *)
(* external call are kept.                                                 *)
(***************************************************************************)
EXTENDS InstrumentedProgram, SequencesExt

CONSTANT Impactful   \* the external functions in impactful_fun_call, or
                     \* that IsImpactfulFunction names

VARIABLES
    call_stack,   \* thread -> its StackInfo frames
    is_first,     \* thread -> the IsFirst and Caller of its next block
    args,         \* thread -> the arguments collected for an external call
    blocks,       \* thread -> its blocks in block_trace
    tid_ptr,      \* the thread the while loop continues; 0 for what is no
                  \*   thread's ID
    place,        \* "next", in the while loop, after the last event, "done",
                  \*   "crashed"
    failed        \* an assertion has failed

mergeVars == <<call_stack, is_first, args, blocks, tid_ptr, place, failed>>
vars == <<programVars, event, last_tid, mergeVars>>

Init ==
    /\ ProgramInit
    /\ call_stack = [t \in Threads |-> <<>>]
    /\ is_first = [t \in Threads |-> <<0, 0>>]
    /\ args = [t \in Threads |-> {}]
    /\ blocks = [t \in Threads |-> <<>>]
    /\ tid_ptr = 0 /\ place = "next" /\ failed = FALSE

(* Mutation of StackInfo: the block executed before is forgotten. *)
StackInfoNoLast(bb, last, index) == [BBID |-> bb, LastBBID |-> -1, CurIndex |-> index]

StackInfo(bb, last, index) == [BBID |-> bb, LastBBID |-> last, CurIndex |-> index]

(* BB2Ins[bb][index], with C++ indices. *)
Ins(bb, index) == BB2Ins[bb][index + 1]

SmallestBlock(type, info, start, end, first) ==
    [Type |-> type, BBID |-> info.BBID, Start |-> start, End |-> end,
     IsFirst |-> first[1], Caller |-> first[2], IsLast |-> 0,
     LastBBID |-> info.LastBBID, Args |-> {}]

Emits(t, b) == blocks' = [blocks EXCEPT ![t] = Append(@, b)]

(* The event is read; the while loop runs for the thread tid_ptr points to. *)
Read(labels) ==
    /\ place = "next" /\ event # NoEvent /\ event.label \in labels
    /\ event' = NoEvent
    /\ UNCHANGED <<programVars, last_tid>>

-----------------------------------------------------------------------------
(* The globals, declared before the thread ID is known or, behind a        *)
(* constructor, after it; the DeclareBlock itself belongs to no thread.    *)
ReadDeclare ==
    /\ Read({"Declare"})
    /\ tid_ptr' = event.tid
    /\ place' = IF event.tid = 0 THEN "next" ELSE "loop"
    /\ UNCHANGED <<call_stack, is_first, args, blocks, failed>>

ReadArgument ==
    /\ Read({"Argument"})
    /\ args' = [args EXCEPT ![event.tid] = @ \cup {event.addr}]
    /\ tid_ptr' = event.tid
    /\ UNCHANGED <<call_stack, is_first, blocks, place, failed>>

(* A block entry starts a thread, follows a block of the same function, or *)
(* starts a called function.                                               *)
NewThread(t) == call_stack[t] = <<>>
SameFunction(t) ==
    /\ ~NewThread(t)
    /\ Top(call_stack[t]).CurIndex >= Size(Top(call_stack[t]).BBID)

ReadBasicBlock ==
    /\ Read({"BasicBlock"})
    /\ LET t == event.tid
           info == Top(call_stack[t]) IN
       /\ tid_ptr' = t
       /\ \/ /\ NewThread(t)
             /\ is_first' = [is_first EXCEPT ![t] = <<2, 0>>]
             /\ call_stack' = [call_stack EXCEPT ![t] = <<StackInfo(event.id, -1, 0)>>]
          \/ /\ SameFunction(t)
             /\ is_first' = [is_first EXCEPT ![t] = <<0, 0>>]
             /\ call_stack' = [call_stack EXCEPT ![t] =
                                  SetTop(@, StackInfo(event.id, info.BBID, 0))]
          \/ /\ ~NewThread(t) /\ ~SameFunction(t)
             /\ is_first' = [is_first EXCEPT ![t] =
                                <<1, Ins(info.BBID, info.CurIndex - 1)>>]
             /\ call_stack' = [call_stack EXCEPT ![t] =
                                  Append(@, StackInfo(event.id, -1, 0))]
    /\ place' = "loop"
    /\ UNCHANGED <<args, blocks, failed>>

(* The next instruction of the thread has to be the one of the event. *)
Expected(t, id) ==
    /\ call_stack[t] # <<>>
    /\ LET info == Top(call_stack[t]) IN
       info.CurIndex < Size(info.BBID) /\ Ins(info.BBID, info.CurIndex) = id

(* Mutation of Consume: the mark of the first block is not reset. *)
ConsumeKeepsFirst(t, type, arguments) ==
    LET info == Top(call_stack[t]) IN
    /\ call_stack' = [call_stack EXCEPT ![t] =
                         SetTop(@, [info EXCEPT !.CurIndex = @ + 1])]
    /\ Emits(t, [SmallestBlock(type, info, info.CurIndex, info.CurIndex + 1, is_first[t])
                    EXCEPT !.Args = arguments])
    /\ UNCHANGED is_first

Consume(t, type, arguments) ==
    LET info == Top(call_stack[t]) IN
    /\ call_stack' = [call_stack EXCEPT ![t] =
                         SetTop(@, [info EXCEPT !.CurIndex = @ + 1])]
    /\ Emits(t, [SmallestBlock(type, info, info.CurIndex, info.CurIndex + 1, is_first[t])
                    EXCEPT !.Args = arguments])
    /\ is_first' = [is_first EXCEPT ![t] = <<0, 0>>]

BlockType(e) ==
    CASE e.label = "Memory" -> "MemoryAccessBlock"
      [] e.label = "Memset" -> "MemsetBlock"
      [] e.label = "Memmove" -> "MemmoveBlock"
      [] e.label = "Return" -> IF Fun[e.id] \in Impactful
                               THEN "ImpactfulCallBlock" ELSE "ExternalCallBlock"

(* The assertion that the event's instruction is the expected one fails. *)
AssertFails ==
    /\ failed' = TRUE /\ place' = "done"
    /\ UNCHANGED <<call_stack, is_first, args, blocks, tid_ptr>>

ReadAccess ==
    /\ Read({"Memory", "Memset", "Memmove"})
    /\ IF Expected(event.tid, event.id)
       THEN /\ Consume(event.tid, BlockType(event), {})
            /\ tid_ptr' = event.tid /\ place' = "loop"
            /\ UNCHANGED <<args, failed>>
       ELSE AssertFails

(* Mutation of ReadReturn: the collected arguments are not cleared. *)
ReadReturnKeepsArgs ==
    /\ Read({"Return"})
    /\ IF Expected(event.tid, event.id)
       THEN /\ Consume(event.tid, BlockType(event), args[event.tid])
            /\ tid_ptr' = event.tid /\ place' = "loop"
            /\ UNCHANGED <<args, failed>>
       ELSE AssertFails

ReadReturn ==
    /\ Read({"Return"})
    /\ IF Expected(event.tid, event.id)
       THEN /\ Consume(event.tid, BlockType(event), args[event.tid])
            /\ args' = [args EXCEPT ![event.tid] = {}]
            /\ tid_ptr' = event.tid /\ place' = "loop"
            /\ UNCHANGED failed
       ELSE AssertFails

(* PlaceHolder and EndEvent are events to NextEvent as well: the pointers  *)
(* keep what the last event left in them.  They point into the block that  *)
(* is being read: when EndEvent opens a new one, placeholders have been    *)
(* decoded over the thread ID, and what *tid_ptr is then is no thread's.   *)
OpensBlock(e) == e.label = "End" /\ e.opens

ReadHolder ==
    /\ Read({"PlaceHolder", "End"})
    /\ tid_ptr' = IF OpensBlock(event) THEN 0 ELSE tid_ptr
    /\ place' = IF tid_ptr' = 0 THEN "next" ELSE "loop"
    /\ UNCHANGED <<call_stack, is_first, args, blocks, failed>>

-----------------------------------------------------------------------------
(* The while loop: the thread's next instructions up to one that records   *)
(* an event of its own, and a call of an instrumented function with them.  *)

Continuous == {"NormalInst", "ReturnInst", "TerminatorInst", "PhiNode", "VarArg"}

(* Mutation of Stops: the search goes one index too far. *)
StopsOffByOne(bb, start) ==
    {e \in start .. Size(bb) + 1 :
        \A k \in start .. e - 1 :
            k < Size(bb) => Type[Ins(bb, k)] \in Continuous}

Stops(bb, start) ==
    {e \in start .. Size(bb) :
        \A k \in start .. e - 1 : Type[Ins(bb, k)] \in Continuous}

(* Mutation of EndIndex: the intrinsics are taken for calls. *)
EndIndexIntrinsic(bb, start) ==
    LET e == CHOOSE x \in Stops(bb, start) : \A y \in Stops(bb, start) : y <= x
    IN  IF e < Size(bb) /\ Type[Ins(bb, e)] = "CallInst" THEN e + 1 ELSE e

EndIndex(bb, start) ==
    LET e == CHOOSE x \in Stops(bb, start) : \A y \in Stops(bb, start) : y <= x
    IN  IF e < Size(bb) /\ Type[Ins(bb, e)] = "CallInst" /\ Fun[Ins(bb, e)] \notin Intrinsic
        THEN e + 1 ELSE e

ReturnsAt(bb, end) ==
    end = Size(bb) /\ Type[Ins(bb, end - 1)] = "ReturnInst"

(* The instruction a frame is calling. *)
CallerOf(frame) ==
    LET i == Ins(frame.BBID, frame.CurIndex - 1)
    IN  IF Type[i] = "CallInst" THEN i ELSE -1

(* Mutation of LastBlock: the end of a thread is marked as that of a call. *)
LastBlockOfCall(b, stack) ==
    IF stack = <<>> THEN [b EXCEPT !.IsLast = 1]
    ELSE [b EXCEPT !.IsLast = 1, !.Caller = CallerOf(Top(stack))]

(* Closing the innermost frame: the last block of a thread or a function. *)
LastBlock(b, stack) ==
    IF stack = <<>> THEN [b EXCEPT !.IsLast = 2]
    ELSE [b EXCEPT !.IsLast = 1, !.Caller = CallerOf(Top(stack))]

(* assert(last_info.CurIndex < BB2Ins[last_info.BBID].size()) *)
CallerWaits(stack) ==
    stack # <<>> => Top(stack).CurIndex < Size(Top(stack).BBID)

Loop ==
    /\ place = "loop"
    /\ UNCHANGED <<programVars, event, last_tid, args, tid_ptr>>
    /\ LET t == tid_ptr
           stack == call_stack[t]
           info == Top(stack)
           end == EndIndex(info.BBID, info.CurIndex)
           last_bb == ReturnsAt(info.BBID, end)
           b == SmallestBlock("NormalBlock", info, info.CurIndex, end, is_first[t])
           moved == SetTop(stack, [info EXCEPT !.CurIndex = end])
       IN
       \/ /\ stack = <<>> /\ place' = "next"
          /\ UNCHANGED <<call_stack, is_first, blocks, failed>>
       \/ /\ stack # <<>> /\ end = info.CurIndex
          /\ place' = IF last_bb THEN "loop" ELSE "next"
          /\ UNCHANGED <<call_stack, is_first, blocks, failed>>
       \/ /\ stack # <<>> /\ end > info.CurIndex /\ ~last_bb
          /\ call_stack' = [call_stack EXCEPT ![t] = moved]
          /\ is_first' = [is_first EXCEPT ![t] = <<0, 0>>]
          /\ Emits(t, b) /\ place' = "next"
          /\ UNCHANGED failed
       \/ /\ stack # <<>> /\ end > info.CurIndex /\ last_bb
          /\ call_stack' = [call_stack EXCEPT ![t] = Pop(stack)]
          /\ is_first' = [is_first EXCEPT ![t] = <<0, 0>>]
          /\ IF CallerWaits(Pop(stack))
             THEN Emits(t, LastBlock(b, Pop(stack))) /\ place' = "loop" /\ UNCHANGED failed
             ELSE failed' = TRUE /\ place' = "done" /\ UNCHANGED blocks

-----------------------------------------------------------------------------
(* After the last event the frames that are left are closed, thread by     *)
(* thread, with an empty block each.                                       *)

Finish ==
    /\ place = "next" /\ event = NoEvent /\ ended = "file"
    /\ place' = "finish"
    /\ UNCHANGED <<programVars, event, last_tid, call_stack, is_first, args, blocks,
                   tid_ptr, failed>>

Open == {t \in Threads : call_stack[t] # <<>>}

(* The LastBBID of such a block is that of the innermost frame of the last *)
(* event's thread and not of its own.  When the frames of that thread are  *)
(* gone it is what lies in front of them in memory (-2): nobody looks it   *)
(* up, for an empty block has no PhiNode.                                  *)
LeftLastBBID ==
    IF call_stack[tid_ptr] # <<>> THEN Top(call_stack[tid_ptr]).LastBBID ELSE -2

(* What is no thread's ID never had a frame: back() of its new vector      *)
(* reads through a null pointer.                                           *)
FinishCrash ==
    /\ place = "finish" /\ Open # {} /\ tid_ptr = 0
    /\ place' = "crashed"
    /\ UNCHANGED <<programVars, event, last_tid, call_stack, is_first, args, blocks,
                   tid_ptr, failed>>

(* Mutation of FinishFrame: only the last event's thread is closed. *)
FinishLastThread(t) ==
    /\ place = "finish" /\ tid_ptr # 0 /\ t = tid_ptr /\ t \in Open
    /\ call_stack' = [call_stack EXCEPT ![t] = Pop(@)]
    /\ UNCHANGED <<programVars, event, last_tid, is_first, args, blocks, tid_ptr,
                   place, failed>>

FinishFrame(t) ==
    /\ place = "finish" /\ tid_ptr # 0
    /\ t \in Open /\ \A u \in Open : t <= u
    /\ LET info == Top(call_stack[t])
           rest == Pop(call_stack[t])
           b == [SmallestBlock("NormalBlock", info, info.CurIndex, info.CurIndex, <<0, 0>>)
                    EXCEPT !.LastBBID = LeftLastBBID] IN
       /\ call_stack' = [call_stack EXCEPT ![t] = rest]
       /\ IF CallerWaits(rest)
          THEN Emits(t, LastBlock(b, rest)) /\ UNCHANGED <<place, failed>>
          ELSE failed' = TRUE /\ place' = "done" /\ UNCHANGED blocks
    /\ UNCHANGED <<programVars, event, last_tid, is_first, args, tid_ptr>>

Done ==
    /\ place = "finish" /\ Open = {} /\ place' = "done"
    /\ UNCHANGED <<programVars, event, last_tid, call_stack, is_first, args, blocks,
                   tid_ptr, failed>>

-----------------------------------------------------------------------------
Merge ==
    \/ ReadDeclare \/ ReadArgument \/ ReadBasicBlock \/ ReadAccess
    \/ ReadReturn \/ ReadHolder
    \/ Loop
    \/ Finish \/ FinishCrash \/ Done
    \/ \E t \in Threads : FinishFrame(t)

(* The analysis has read the call of an instrumented function by thread t, *)
(* and the while loop would go on past it.                                 *)
AwaitsCallee(t) ==
    /\ t # 0 /\ call_stack[t] # <<>>
    /\ LET f == Top(call_stack[t]) IN
       /\ f.CurIndex > 0
       /\ Type[Ins(f.BBID, f.CurIndex - 1)] = "CallInst"
       /\ Fun[Ins(f.BBID, f.CurIndex - 1)] \notin Intrinsic
       /\ EndIndex(f.BBID, f.CurIndex) > f.CurIndex

Trace ==
    /\ event = NoEvent /\ place = "next"
    /\ UNCHANGED mergeVars
    /\ \/ Program
       \/ (AwaitsCallee(last_tid) => SplitCalls) /\ (PlaceHolder \/ EndEvent(FALSE))
       \/ EndEvent(TRUE)
       \/ EndOfFile

Next == Trace \/ Merge

Spec == Init /\ [][Next]_vars

(* The tool runs to its end; the traced program is free to stop anywhere. *)
FairSpec == Spec /\ WF_vars(Merge)

-----------------------------------------------------------------------------
(* Properties *)

TypeOK ==
    /\ \A t \in Threads : \A k \in DOMAIN call_stack[t] :
          LET f == call_stack[t][k] IN
          /\ f.BBID \in DOMAIN BB2Ins
          /\ f.LastBBID \in DOMAIN BB2Ins \cup {-1}
          /\ f.CurIndex \in 0 .. Size(f.BBID)
    /\ is_first \in [Threads -> (0 .. 2) \X (Instructions \cup {0})]
    /\ tid_ptr \in Threads \cup {0}
    /\ place \in {"next", "loop", "finish", "done", "crashed"} /\ failed \in BOOLEAN

(* The depth of the call stack before the k-th block of thread t, counted  *)
(* from the IsFirst and IsLast marks.                                      *)
DepthBefore(t, k) ==
    Cardinality({j \in 1 .. k - 1 : blocks[t][j].IsFirst # 0})
    - Cardinality({j \in 1 .. k - 1 : blocks[t][j].IsLast # 0})

Depth(t, k) == DepthBefore(t, k) + (IF blocks[t][k].IsFirst # 0 THEN 1 ELSE 0)

(* The instructions that the blocks of thread t stand for, in order, each  *)
(* with the basic block executed before and the depth of the call stack.   *)
Covered(t) ==
    FlattenSeq([k \in DOMAIN blocks[t] |->
        LET b == blocks[t][k] IN
        [j \in 1 .. b.End - b.Start |->
            [ins |-> Ins(b.BBID, b.Start + j - 1), last |-> b.LastBBID,
             depth |-> Depth(t, k)]]])

(* The blocks of a thread replay what it executed: the same instructions   *)
(* in the same order, coming from the same basic block (what a PhiNode     *)
(* takes its value by) and at the same depth.  Either may be ahead of the  *)
(* other by instructions that record nothing.                              *)
Replay ==
    \A t \in Threads :
        IsPrefix(executed[t], Covered(t)) \/ IsPrefix(Covered(t), executed[t])

(* No assertion of MergeTrace fails: every event is the one the control    *)
(* flow graph expects next, and a caller is waiting inside its block when  *)
(* a callee returns.                                                       *)
NoAssertionFails == ~failed

(* The callers of the frames that are open behind a sequence of blocks, as *)
(* an analysis that reads the marks forward sees them.                     *)
Enters(stack, b) == IF b.IsFirst # 0 THEN Append(stack, b.Caller) ELSE stack
AfterBlock(stack, b) == IF b.IsLast # 0 THEN Front(Enters(stack, b)) ELSE Enters(stack, b)

Callers(trace) ==
    LET open[n \in 0 .. Len(trace)] ==
            IF n = 0 THEN <<>> ELSE AfterBlock(open[n - 1], trace[n])
    IN  open[Len(trace)]

(* The empty blocks are the ones made after the last event. *)
Proper(b) == b.Start < b.End

(* A called function starts right after the call that its first block      *)
(* names, and its last block names the same call (a block that is both     *)
(* keeps one Caller field for the two).                                    *)
CallersMatch ==
    \A t \in Threads : \A k \in DOMAIN blocks[t] : Proper(blocks[t][k]) =>
        LET b == blocks[t][k]
            before == SubSeq(blocks[t], 1, k - 1)
            open == Enters(Callers(before), b) IN
        /\ b.IsFirst = 1 => /\ before # <<>>
                            /\ b.Caller = Ins(Last(before).BBID, Last(before).End - 1)
        /\ b.IsLast = 1 => Last(open) = b.Caller
        /\ b.IsLast = 2 => Len(open) = 1

(* A block is marked as the first of a thread exactly when no function of  *)
(* it is open in front of it, and as the last exactly when none is open    *)
(* behind it: that is once for each function at the bottom of its stack,   *)
(* the constructors and destructors around main included.  At the end      *)
(* every thread has all its frames closed, the outermost one by its last   *)
(* block; only an innermost frame may have been closed before it had a     *)
(* first block.                                                            *)
AllClosed ==
    \A t \in Threads : blocks[t] # <<>> =>
        /\ \A k \in DOMAIN blocks[t] : Proper(blocks[t][k]) =>
              /\ blocks[t][k].IsFirst = 2 <=> DepthBefore(t, k) = 0
              /\ blocks[t][k].IsLast = 2 <=> DepthBefore(t, k + 1) = 0
        /\ place = "done" /\ ~failed =>
              /\ DepthBefore(t, Len(blocks[t]) + 1) \in {-1, 0}
              /\ \A k \in DOMAIN blocks[t] : ~Proper(blocks[t][k]) =>
                    (blocks[t][k].IsLast = 2 <=> k = Len(blocks[t]))
              /\ Last(blocks[t]).IsLast = 2

(* An external call is given exactly its own pointer arguments, however    *)
(* the events of the threads interleave.                                   *)
OwnArguments ==
    \A t \in Threads : \A k \in DOMAIN blocks[t] :
        LET b == blocks[t][k] IN
        b.Type \in {"ExternalCallBlock", "ImpactfulCallBlock"} =>
            b.Args = PointerArgs[Ins(b.BBID, b.Start)]

(* MergeTrace comes to its end once the file does, with all its blocks or, *)
(* if EndEvent was the first event of a block of the trace and a function  *)
(* was still being executed, by a crash.                                   *)
Finishes ==
    ended = "file" ~> (place = "done" \/ (place = "crashed" /\ tid_ptr = 0 /\ Open # {}))

(* "There is already a basic block executed by this function." (the        *)
(* comment on the branch of BasicBlockEvent that replaces the top frame):  *)
(* the block entered is a successor of the one it replaces.                *)
FollowsInFunction ==
    \A t \in Threads : \A k \in DOMAIN call_stack[t] :
        LET f == call_stack[t][k] IN
        f.LastBBID # -1 =>
            LET i == Ins(f.LastBBID, Size(f.LastBBID) - 1) IN
            Type[i] = "TerminatorInst" /\ f.BBID \in Successors[i]
=============================================================================
