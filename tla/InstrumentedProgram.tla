------------------------ MODULE InstrumentedProgram ------------------------
(***************************************************************************)
(* A program after the SlimmerTrace pass: which events its threads record, *)
(* and in which order, while they execute the instructions of their basic  *)
(* blocks.  The control flow graph is a constant; what a branch chooses is *)
(* left open.                                                              *)
(*                                                                         *)
(* An event goes straight to the analysis that reads the trace: the trace  *)
(* keeps the order of the events (see CircularBuffer), and the analysis is *)
(* a function of that order only.  PlaceHolder and EndEvent are the bytes  *)
(* that the runtime adds between and after the events.                     *)
(*                                                                         *)
(* A thread executes one function after the other at the bottom of its     *)
(* stack: the main thread the static constructors, main and the            *)
(* destructors, any thread the destructors of its thread_local variables   *)
(* after its start function.  The pass instruments them all.               *)
(*                                                                         *)
(* Not modelled: a terminator that calls a function (invoke, which the     *)
(* pass takes for a terminator only), and instrumented code that runs      *)
(* below an external call (a callback, or destructors run by an exit()     *)
(* deep in a call).                                                        *)
(***************************************************************************)
EXTENDS Integers, Sequences, FiniteSets

CONSTANTS
    Threads,      \* thread IDs, as gettid() gives them
    Entry,        \* thread -> the first basic block of its start function
    Outer,        \* the first basic blocks of the functions that run before
                  \*   main and after a start function
    BB2Ins,       \* basic block -> the IDs of its instructions, in order
    Type,         \* instruction -> its InstInfo::InstType
    Fun,          \* instruction -> the function a call names
    Callee,       \* instruction -> the first basic block of the function
                  \*   that a CallInst calls
    Successors,   \* instruction -> the successors of a TerminatorInst
    PointerArgs,  \* instruction -> the pointer arguments of an external call
    Globals,      \* how many global variables main declares
    MaxSteps,     \* bound: thread -> how many instructions it executes
    SplitCalls    \* whether a block of the trace may end, or EndEvent come,
                  \*   between a call and the first event of the callee

ASSUME ThreadAssumption ==
    /\ Threads \subseteq Nat \ {0} /\ Threads # {}
    /\ Entry \in [Threads -> DOMAIN BB2Ins] /\ Outer \subseteq DOMAIN BB2Ins
ASSUME BoundAssumption ==
    Globals \in Nat /\ MaxSteps \in [Threads -> Nat] /\ SplitCalls \in BOOLEAN

VARIABLES
    exec,      \* thread -> the frames it is executing, innermost last
    recorded,  \* thread -> the arguments recorded for the next external call
    started,   \* the threads that have started
    declared,  \* how many globals are declared
    event,     \* the event the analysis has to read next, or NoEvent
    last_tid,  \* the thread of the last event that has one
    ended,     \* whether EndEvent is read, or the whole file
    executed   \* history: thread -> the instructions it has executed

programVars == <<exec, recorded, started, declared, ended, executed>>

Instructions == DOMAIN Type
NoEvent == [label |-> "none"]
Intrinsic == {"llvm.memset", "llvm.memmove"}
Size(bb) == Len(BB2Ins[bb])

(* The basic blocks of LLVM: each ends with the only instruction of it     *)
(* that leaves it, and branches and calls lead to basic blocks.            *)
ASSUME GraphAssumption ==
    /\ DOMAIN BB2Ins \subseteq Nat
    /\ \A bb \in DOMAIN BB2Ins :
          /\ BB2Ins[bb] \in Seq(Instructions) /\ BB2Ins[bb] # <<>>
          /\ \A k \in 1 .. Size(bb) :
                Type[BB2Ins[bb][k]] \in {"TerminatorInst", "ReturnInst"} <=> k = Size(bb)
    /\ \A i \in Instructions :
          /\ Type[i] = "TerminatorInst" => Successors[i] \subseteq DOMAIN BB2Ins
          /\ Type[i] = "CallInst" /\ Fun[i] \notin Intrinsic => Callee[i] \in DOMAIN BB2Ins

(* The main thread has the smallest ID: the others are created by it. *)
Main == CHOOSE t \in Threads : \A u \in Threads : t <= u

Top(stack) == stack[Len(stack)]
Pop(stack) == SubSeq(stack, 1, Len(stack) - 1)
SetTop(stack, frame) == [stack EXCEPT ![Len(stack)] = frame]

(* A frame about to record its BasicBlockEvent (index -1). *)
Frame(bb, last) == [bb |-> bb, last |-> last, index |-> -1]

ProgramInit ==
    /\ exec = [t \in Threads |-> <<>>]
    /\ recorded = [t \in Threads |-> {}]
    /\ started = {} /\ declared = 0
    /\ event = NoEvent /\ last_tid = 0 /\ ended = "no"
    /\ executed = [t \in Threads |-> <<>>]

Emit(e) == event' = e /\ last_tid' = e.tid
Silent == UNCHANGED <<event, last_tid>>

(* What a step leaves behind in the history: the instruction, the basic    *)
(* block executed before its own one, and the depth of the call stack.     *)
Executed(t) ==
    LET f == Top(exec[t]) IN
    [ins |-> BB2Ins[f.bb][f.index + 1], last |-> f.last, depth |-> Len(exec[t])]

-----------------------------------------------------------------------------
(* At the start of main, in front of its first BasicBlockEvent, the        *)
(* globals are declared.  A thread knows its ID since its first            *)
(* BasicBlockEvent: here it does only if a constructor has run.            *)
DeclareGlobal ==
    /\ Main \notin started /\ exec[Main] = <<>> /\ declared < Globals
    /\ declared' = declared + 1
    /\ Emit([label |-> "Declare", tid |-> IF executed[Main] = <<>> THEN 0 ELSE Main])
    /\ UNCHANGED <<exec, recorded, started, ended, executed>>

(* Thread t enters its start function.  A constructor may create threads.  *)
StartThread(t) ==
    /\ t \notin started /\ exec[t] = <<>>
    /\ IF t = Main THEN declared = Globals ELSE executed[Main] # <<>>
    /\ started' = started \cup {t}
    /\ exec' = [exec EXCEPT ![t] = <<Frame(Entry[t], -1)>>]
    /\ Silent
    /\ UNCHANGED <<recorded, declared, ended, executed>>

(* A constructor before main, or a destructor after the start function.    *)
RunOuter(t) ==
    /\ exec[t] = <<>> /\ (t \in started \/ (t = Main /\ declared = 0))
    /\ \E bb \in Outer : exec' = [exec EXCEPT ![t] = <<Frame(bb, -1)>>]
    /\ Silent
    /\ UNCHANGED <<recorded, started, declared, ended, executed>>

(* recordBasicBlockEvent at the start of every block. *)
EnterBlock(t) ==
    /\ exec[t] # <<>> /\ Top(exec[t]).index = -1
    /\ LET f == Top(exec[t]) IN
       /\ exec' = [exec EXCEPT ![t] = SetTop(@, [f EXCEPT !.index = 0])]
       /\ Emit([label |-> "BasicBlock", tid |-> t, id |-> f.bb])
    /\ UNCHANGED <<recorded, started, declared, ended, executed>>

(* The event that the pass records for one instruction that accesses       *)
(* memory, next to it in the same block: loads, stores, atomics, allocas   *)
(* and the allocation functions, and the two intrinsics.                   *)
AccessLabel(i) ==
    CASE Type[i] = "CallInst" /\ Fun[i] = "llvm.memset" -> "Memset"
      [] Type[i] = "CallInst" /\ Fun[i] = "llvm.memmove" -> "Memmove"
      [] OTHER -> "Memory"

Accesses(i) ==
    \/ Type[i] \in {"LoadInst", "StoreInst", "AtomicInst", "AllocaInst"}
    \/ Type[i] = "CallInst" /\ Fun[i] \in Intrinsic

Plain == {"NormalInst", "PhiNode", "VarArg"}

(* Thread t is about to execute instruction i. *)
At(t, i) ==
    /\ exec[t] # <<>> /\ Top(exec[t]).index >= 0
    /\ i = BB2Ins[Top(exec[t]).bb][Top(exec[t]).index + 1]
    /\ Len(executed[t]) < MaxSteps[t]

Advance(t) == [Top(exec[t]) EXCEPT !.index = @ + 1]

Execute(t) == executed' = [executed EXCEPT ![t] = Append(@, Executed(t))]

PlainStep(t, i) ==
    /\ At(t, i) /\ Type[i] \in Plain
    /\ Execute(t)
    /\ exec' = [exec EXCEPT ![t] = SetTop(@, Advance(t))]
    /\ Silent
    /\ UNCHANGED <<recorded, started, declared, ended>>

AccessStep(t, i) ==
    /\ At(t, i) /\ Accesses(i)
    /\ Execute(t)
    /\ exec' = [exec EXCEPT ![t] = SetTop(@, Advance(t))]
    /\ Emit([label |-> AccessLabel(i), tid |-> t, id |-> i])
    /\ UNCHANGED <<recorded, started, declared, ended>>

(* A pointer argument of an uninstrumented function, recorded before the   *)
(* call, and the ReturnEvent, which is recorded before the call as well.   *)
RecordArgument(t, i) ==
    /\ At(t, i) /\ Type[i] = "ExternalCallInst"
    /\ \E a \in PointerArgs[i] \ recorded[t] :
          /\ recorded' = [recorded EXCEPT ![t] = @ \cup {a}]
          /\ Emit([label |-> "Argument", tid |-> t, addr |-> a])
    /\ UNCHANGED <<exec, started, declared, ended, executed>>

ExternalCall(t, i) ==
    /\ At(t, i) /\ Type[i] = "ExternalCallInst"
    /\ recorded[t] = PointerArgs[i]
    /\ recorded' = [recorded EXCEPT ![t] = {}]
    /\ Execute(t)
    /\ exec' = [exec EXCEPT ![t] = SetTop(@, Advance(t))]
    /\ Emit([label |-> "Return", tid |-> t, id |-> i])
    /\ UNCHANGED <<started, declared, ended>>

(* A call of an instrumented function records nothing by itself. *)
Call(t, i) ==
    /\ At(t, i) /\ Type[i] = "CallInst" /\ Fun[i] \notin Intrinsic
    /\ Execute(t)
    /\ exec' = [exec EXCEPT ![t] =
                   Append(SetTop(@, Advance(t)), Frame(Callee[i], -1))]
    /\ Silent
    /\ UNCHANGED <<recorded, started, declared, ended>>

Branch(t, i) ==
    /\ At(t, i) /\ Type[i] = "TerminatorInst"
    /\ Execute(t)
    /\ \E bb \in Successors[i] :
          exec' = [exec EXCEPT ![t] = SetTop(@, Frame(bb, Top(@).bb))]
    /\ Silent
    /\ UNCHANGED <<recorded, started, declared, ended>>

Return(t, i) ==
    /\ At(t, i) /\ Type[i] = "ReturnInst"
    /\ Execute(t)
    /\ exec' = [exec EXCEPT ![t] = Pop(@)]
    /\ Silent
    /\ UNCHANGED <<recorded, started, declared, ended>>

-----------------------------------------------------------------------------
(* The bytes after the last event of a block of the trace. *)
PlaceHolder ==
    /\ last_tid # 0 /\ ended # "file"
    /\ event' = [label |-> "PlaceHolder"]
    /\ UNCHANGED <<programVars, last_tid>>

(* The last event of a program that exits or is killed.  It opens a block  *)
(* of the trace if the event before it has filled one to the last byte.    *)
EndEvent(opens) ==
    /\ last_tid # 0 /\ ended = "no"
    /\ ended' = "end"
    /\ event' = [label |-> "End", opens |-> opens]
    /\ UNCHANGED <<exec, recorded, started, declared, executed, last_tid>>

(* The end of the file, after EndEvent or where a lost block leaves it. *)
EndOfFile ==
    /\ last_tid # 0 /\ ended # "file"
    /\ ended' = "file"
    /\ UNCHANGED <<exec, recorded, started, declared, executed, event, last_tid>>

Step(t) ==
    \/ StartThread(t) \/ RunOuter(t)
    \/ EnterBlock(t)
    \/ \E i \in Instructions :
          \/ PlainStep(t, i) \/ AccessStep(t, i)
          \/ RecordArgument(t, i) \/ ExternalCall(t, i)
          \/ Call(t, i) \/ Branch(t, i) \/ Return(t, i)

Program ==
    /\ ended = "no"
    /\ DeclareGlobal \/ \E t \in Threads : Step(t)
=============================================================================
