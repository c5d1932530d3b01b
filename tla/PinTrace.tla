------------------------------ MODULE PinTrace ------------------------------
(***************************************************************************)
(* The Pin tool (PinTrace.cpp), the event buffer it writes to              *)
(* (EventBuffer.cpp) and the reader of its trace                           *)
(* (ExtractImpactfulFunCall.cpp).                                          *)
(*                                                                         *)
(* Instrumented code calls external functions; these may call instrumented *)
(* code back, which calls external functions again.  The hooks around a    *)
(* call count its depth and record the outermost one; a hook on system     *)
(* calls records those made below an outermost one.  The reader names the  *)
(* functions under which system calls were made, which MergeTrace takes as *)
(* its impactful ones.                                                     *)
(*                                                                         *)
(* A thread's stack alternates between external functions and the          *)
(* instrumented code they call back.  A close interrupts one thread        *)
(* anywhere, inside a hook too, takes no lock, and lets the others run.    *)
(***************************************************************************)
EXTENDS Integers, Sequences, SequencesExt, FiniteSetsExt, Functions

CONSTANTS
    Threads,    \* the threads of the traced program
    NoThread,   \* nobody
    Functions,  \* the external functions
    NoFunction, \* code that no hook names
    BlockSize,  \* COMPRESS_BLOCK_SIZE
    MaxSteps,   \* bound: the steps of the program, its threads together
    MaxDepth    \* bound: the frames of one thread

ASSUME LockAssumption == NoThread \notin Threads
ASSUME FunctionAssumption == NoFunction \notin Functions
ASSUME FitsAssumption == BlockSize \in Nat /\ BlockSize >= 130
ASSUME StepAssumption == MaxSteps \in Nat /\ MaxDepth \in Nat

VARIABLES
    lock,     \* the thread that holds the spin lock
    pdepth,   \* thread -> the calls of external functions it has open
    buffer,   \* the events in the buffer
    offset,   \* the bytes they take
    file,     \* the blocks in the trace file
    inited,   \* the buffer is open
    closer,   \* the thread that closes it
    raced,    \* another thread is in Append during the close
    pc,       \* thread -> "run", the hook it is in, or the part of it
    event,    \* thread -> the event of that hook, EndEvent for none
    stack,    \* thread -> what the program has called
    skewed,   \* threads whose calls and returns the hooks saw unpaired
    steps,    \* how many steps the program has taken
    log,      \* history: the events in the order of their appends
    made      \* history: the outermost hooked functions under which a
              \* thread that is not skewed made a system call

closeVars == <<inited, closer, raced>>
bufferVars == <<buffer, offset, file, closeVars>>
programVars == <<stack, skewed, steps>>
pinVars == <<lock, pdepth, bufferVars, pc, event, programVars, log, made>>

Event == [label : {"Call", "Return"}, tid : Threads, fun : Functions]
           \cup [label : {"Syscall"}, tid : Threads, fun : {NoFunction}]
EndEvent == [label |-> "End"]
Length(e) == CASE e.label = "Syscall" -> 66
               [] e.label = "End" -> 1
               [] OTHER -> 130

Frame == [fun : Functions, hooked : {TRUE}]
           \cup [fun : {NoFunction}, hooked : {FALSE}]

PinInit ==
    /\ lock = NoThread
    /\ pdepth = [t \in Threads |-> 0]
    /\ buffer = <<>> /\ offset = 0 /\ file = <<>>
    /\ inited = TRUE /\ closer = NoThread /\ raced = FALSE
    /\ pc = [t \in Threads |-> "run"]
    /\ event = [t \in Threads |-> EndEvent]
    /\ stack = [t \in Threads |-> <<>>]
    /\ skewed = {}
    /\ steps = 0
    /\ log = <<>>
    /\ made = {}

-----------------------------------------------------------------------------
(* What the program does between two hooks.  ImageLoad puts BeforeCall on  *)
(* each direct call of an external function in an instrumented one, and    *)
(* AfterCall on the instruction behind it.                                 *)

External(t) == Len(stack[t]) % 2 = 1

ProgramRuns(t) == pc[t] = "run" /\ steps < MaxSteps /\ steps' = steps + 1

Hook(t, name, label, f) ==
    /\ ProgramRuns(t)
    /\ pc' = [pc EXCEPT ![t] = name]
    /\ event' = [event EXCEPT ![t] = [label |-> label, tid |-> t, fun |-> f]]
    /\ UNCHANGED <<lock, pdepth, bufferVars, log, made>>

NoHook(t) ==
    /\ ProgramRuns(t)
    /\ UNCHANGED <<lock, pdepth, bufferVars, pc, event, log, made>>

Push(t, f, hooked) ==
    /\ Len(stack[t]) < MaxDepth
    /\ stack' = [stack EXCEPT ![t] = Append(@, [fun |-> f, hooked |-> hooked])]

Call(t) == \E f \in Functions :
    /\ ~External(t)
    /\ Push(t, f, TRUE)
    /\ Hook(t, "before", "Call", f)
    /\ UNCHANGED skewed

(* An indirect call, or one with no valid instruction behind it.           *)
CallUnhooked(t) ==
    ~External(t) /\ Push(t, NoFunction, FALSE) /\ NoHook(t) /\ UNCHANGED skewed

CallBack(t) ==
    External(t) /\ Push(t, NoFunction, FALSE) /\ NoHook(t) /\ UNCHANGED skewed

Pop(t) == stack' = [stack EXCEPT ![t] = Front(@)]

Return(t) ==
    /\ External(t) /\ Last(stack[t]).hooked
    /\ Pop(t)
    /\ Hook(t, "after", "Return", Last(stack[t]).fun)
    /\ UNCHANGED skewed

ReturnUnhooked(t) ==
    /\ stack[t] # <<>> /\ ~Last(stack[t]).hooked
    /\ Pop(t) /\ NoHook(t) /\ UNCHANGED skewed

Syscall(t) ==
    Hook(t, "syscall", "Syscall", NoFunction) /\ UNCHANGED <<stack, skewed>>

(* A jump over a call to the instruction behind it, which has AfterCall.   *)
JumpPast(t) == \E f \in Functions :
    /\ ~External(t)
    /\ Hook(t, "after", "Return", f)
    /\ skewed' = skewed \cup {t}
    /\ UNCHANGED stack

(* A longjmp or an exception leaves calls without their AfterCall.         *)
Unwind(t) == \E n \in 0 .. Len(stack[t]) - 1 :
    /\ n % 2 = 0
    /\ NoHook(t)
    /\ stack' = [stack EXCEPT ![t] = SubSeq(@, 1, n)]
    /\ skewed' = skewed \cup
          {u \in {t} : \E i \in n + 1 .. Len(stack[t]) : stack[t][i].hooked}

ProgramStep(t) ==
    Call(t) \/ CallUnhooked(t) \/ CallBack(t) \/ Return(t) \/ ReturnUnhooked(t)
    \/ Syscall(t) \/ JumpPast(t) \/ Unwind(t)

-----------------------------------------------------------------------------
(* The hooks.  Each takes the lock, appends at most one event and unlocks. *)

(* Mutation of Lock: it is not waited for. *)
LockTaken(t) == lock' = t

Lock(t) == lock = NoThread /\ lock' = t

(* The frames of a thread that the hooks know of, and the one of them that *)
(* the system calls of the thread belong to.                               *)
HookedFrames(t) == {i \in DOMAIN stack[t] : stack[t][i].hooked}
Outermost(t) == {stack[t][i].fun : i \in {i \in HookedFrames(t) :
                                    \A j \in HookedFrames(t) : i <= j}}
Made(t) ==
    made' = IF t \in skewed \/ event[t].label # "Syscall" THEN made
                                                  ELSE made \cup Outermost(t)

(* Mutation of BeforeCall: ++ after the comparison. *)
BeforeCallPostIncrement(t) ==
    /\ pc[t] = "before" /\ Lock(t)
    /\ pdepth' = [pdepth EXCEPT ![t] = @ + 1]
    /\ pc' = [pc EXCEPT ![t] = IF pdepth[t] = 1 THEN "append" ELSE "unlock"]
    /\ UNCHANGED <<bufferVars, event, programVars, log, made>>

(* Mutation of BeforeCall: every call is recorded. *)
BeforeEveryCall(t) ==
    /\ pc[t] = "before" /\ Lock(t)
    /\ pdepth' = [pdepth EXCEPT ![t] = @ + 1]
    /\ pc' = [pc EXCEPT ![t] = "append"]
    /\ UNCHANGED <<bufferVars, event, programVars, log, made>>

BeforeCall(t) ==
    /\ pc[t] = "before" /\ Lock(t)
    /\ pdepth' = [pdepth EXCEPT ![t] = @ + 1]
    /\ pc' = [pc EXCEPT ![t] = IF pdepth'[t] = 1 THEN "append" ELSE "unlock"]
    /\ UNCHANGED <<bufferVars, event, programVars, log, made>>

(* Mutation of AfterCall: only the outermost return is counted. *)
AfterCallOutermost(t) ==
    /\ pc[t] = "after" /\ Lock(t)
    /\ pdepth' = [pdepth EXCEPT ![t] = IF @ = 1 THEN 0 ELSE @]
    /\ pc' = [pc EXCEPT ![t] = IF pdepth'[t] = 0 THEN "append" ELSE "unlock"]
    /\ UNCHANGED <<bufferVars, event, programVars, log, made>>

AfterCall(t) ==
    /\ pc[t] = "after" /\ Lock(t)
    /\ pdepth' = [pdepth EXCEPT ![t] = @ - 1]
    /\ pc' = [pc EXCEPT ![t] = IF pdepth'[t] = 0 THEN "append" ELSE "unlock"]
    /\ UNCHANGED <<bufferVars, event, programVars, log, made>>

LeaveHook(t) ==
    /\ pc' = [pc EXCEPT ![t] = "run"]
    /\ event' = [event EXCEPT ![t] = EndEvent]

(* Mutation of NotCounted: the early return keeps the lock. *)
NotCountedKeepsLock(t) ==
    /\ pc[t] = "syscall" /\ Lock(t) /\ pdepth[t] = 0
    /\ LeaveHook(t)
    /\ Made(t)
    /\ UNCHANGED <<pdepth, bufferVars, programVars, log>>

(* SyscallEntry returns early: the lock is taken and given back.           *)
NotCounted(t) ==
    /\ pc[t] = "syscall" /\ lock = NoThread /\ pdepth[t] = 0
    /\ LeaveHook(t)
    /\ Made(t)
    /\ UNCHANGED <<lock, pdepth, bufferVars, programVars, log>>

SyscallEntry(t) ==
    /\ pc[t] = "syscall" /\ Lock(t) /\ pdepth[t] # 0
    /\ pc' = [pc EXCEPT ![t] = "append"]
    /\ UNCHANGED <<pdepth, bufferVars, event, programVars, log, made>>

(* Append, cut where a close can find it: behind each of the three writes *)
(* of a full block (its length, the block, its length again), behind the   *)
(* reset of the offset, and behind the copy.                               *)

(* Mutation of Fits: the length of the event is not counted. *)
FitsWithoutLength(e) == offset <= BlockSize

Fits(e) == offset + Length(e) <= BlockSize

Flushes(t, from, to) ==
    /\ closer = NoThread
    /\ pc[t] = from /\ pc' = [pc EXCEPT ![t] = to]
    /\ UNCHANGED <<lock, pdepth, closeVars, event, programVars, log, made>>

WriteLength(t) ==
    Flushes(t, "append", "data") /\ ~Fits(event[t]) /\ UNCHANGED <<buffer, offset, file>>

WriteData(t) == Flushes(t, "data", "trailer") /\ UNCHANGED <<buffer, offset, file>>

WriteTrailer(t) ==
    /\ Flushes(t, "trailer", "reset")
    /\ file' = Append(file, buffer)
    /\ UNCHANGED <<buffer, offset>>

Reset(t) ==
    /\ Flushes(t, "reset", "append")
    /\ buffer' = <<>> /\ offset' = 0
    /\ UNCHANGED file

Copy(t) ==
    /\ closer = NoThread
    /\ pc[t] = "append" /\ Fits(event[t])
    /\ buffer' = Append(buffer, event[t])
    /\ offset' = offset + Length(event[t])
    /\ log' = Append(log, event[t])
    /\ Made(t)
    /\ pc' = [pc EXCEPT ![t] = "unlock"]
    /\ UNCHANGED <<lock, pdepth, file, closeVars, event, programVars>>

Unlock(t) ==
    /\ pc[t] = "unlock"
    /\ lock' = NoThread
    /\ LeaveHook(t)
    /\ UNCHANGED <<pdepth, bufferVars, programVars, log, made>>

InAppend(t) == pc[t] \in {"append", "data", "trailer", "reset"}
HoldsLock(t) ==
    WriteLength(t) \/ WriteData(t) \/ WriteTrailer(t) \/ Reset(t) \/ Copy(t) \/ Unlock(t)
HookStep(t) == BeforeCall(t) \/ AfterCall(t) \/ NotCounted(t) \/ SyscallEntry(t)

(* Fini, finish, or finish called by the exit() of a signal handler on     *)
(* top of whatever thread t does.                                          *)
EnterClose(t) ==
    /\ closer = NoThread /\ closer' = t
    /\ UNCHANGED <<lock, pdepth, buffer, offset, file, inited, raced, pc, event,
                   programVars, log, made>>

(* No lock is taken.  A second call finds inited false.  The file is       *)
(* closed: what the threads do from here on does not reach it.             *)
CloseBufferFile ==
    /\ closer # NoThread
    /\ file' = file \o IF Fits(EndEvent) THEN <<Append(buffer, EndEvent)>>
                                         ELSE <<buffer, <<EndEvent>>>>
    /\ inited' = FALSE
    /\ log' = Append(log, EndEvent)
    /\ UNCHANGED <<lock, pdepth, buffer, offset, closer, raced, pc, event,
                   programVars, made>>

(* Another thread that goes on in Append reads and writes the buffer, its  *)
(* offset and the compressed block together with the close: a data race,   *)
(* and nothing is said of what follows.                                    *)
Race(t) ==
    /\ closer # NoThread /\ InAppend(t)
    /\ raced' = TRUE
    /\ UNCHANGED <<lock, pdepth, buffer, offset, file, inited, closer, pc, event,
                   programVars, log, made>>

Open == inited /\ ~raced

PinNext ==
    /\ Open
    /\ \/ CloseBufferFile
       \/ \E t \in Threads :
             \/ EnterClose(t)
             \/ t # closer /\ (ProgramStep(t) \/ HookStep(t) \/ HoldsLock(t) \/ Race(t))

(* The operating system runs the thread that holds the lock.  Who gets the *)
(* spin lock, and what the program does, is left open.                     *)
PinSpec ==
    /\ PinInit /\ [][PinNext]_pinVars
    /\ \A t \in Threads : WF_pinVars(Open /\ t # closer /\ HoldsLock(t))

-----------------------------------------------------------------------------
(* ExtractImpactfulFunCall: a stack of functions per thread.  The count in *)
(* its pairs is never used.                                                *)

NothingRead ==
    [fun_stack |-> [t \in Threads |-> <<>>], impactful_fun_call |-> {},
     ended |-> FALSE]

(* Pop down to the call that returns, and that one too; everything when    *)
(* there is none.                                                          *)
PopTo(s, f) ==
    LET calls == {i \in DOMAIN s : s[i] = f}
    IN  SubSeq(s, 1, IF calls = {} THEN 0 ELSE Max(calls) - 1)

ReadEvent(r, e) ==
    IF r.ended THEN r ELSE
    CASE e.label = "End" -> [r EXCEPT !.ended = TRUE]
      [] e.label = "Call" -> [r EXCEPT !.fun_stack[e.tid] = Append(@, e.fun)]
      [] e.label = "Return" -> [r EXCEPT !.fun_stack[e.tid] = PopTo(@, e.fun)]
      [] OTHER ->
            IF r.fun_stack[e.tid] = <<>> THEN r
            ELSE [r EXCEPT !.impactful_fun_call = @ \cup {Last(r.fun_stack[e.tid])}]

(* All events, one after the other.                                        *)
ReadTrace(events) ==
    LET read[n \in 0 .. Len(events)] ==
            IF n = 0 THEN NothingRead ELSE ReadEvent(read[n - 1], events[n])
    IN  read[Len(events)]

ImpactfulFunCall == ReadTrace(FlattenSeq(file)).impactful_fun_call

-----------------------------------------------------------------------------
(* The bytes that calls, returns and system calls take in the buffer.      *)
Bytes(events) ==
    LET Count(labels) == Cardinality({i \in DOMAIN events : events[i].label \in labels})
    IN  130 * Count({"Call", "Return"}) + 66 * Count({"Syscall"})

(* Types; the bytes of the buffer are those of its events and never exceed *)
(* a block (the assert of Append).                                         *)
PinTypeOK ==
    /\ lock \in Threads \cup {NoThread}
    /\ pdepth \in [Threads -> Int]
    /\ buffer \in Seq(Event) /\ offset = Bytes(buffer)
    /\ offset <= BlockSize
    /\ inited \in BOOLEAN /\ closer \in Threads \cup {NoThread} /\ raced \in BOOLEAN
    /\ pc \in [Threads -> {"run", "before", "after", "syscall", "append",
                           "data", "trailer", "reset", "unlock"}]
    /\ \A t \in Threads : event[t] \in Event \cup {EndEvent}
    /\ \A t \in Threads : stack[t] \in Seq(Frame)
    /\ skewed \subseteq Threads /\ made \subseteq Functions

(* pdepth is the number of calls that the hooks saw begin and not end,     *)
(* through callbacks at any depth, for a thread that never entered or left *)
(* a call past its hooks (BeforeCall and AfterCall).                       *)
DepthCounts == \A t \in Threads \ skewed :
    pdepth[t] = Cardinality(HookedFrames(t))
                  + CASE pc[t] = "before" -> -1 [] pc[t] = "after" -> 1 [] OTHER -> 0

(* No thread has a part of a block in the file, and none has written a     *)
(* block whose offset it has not reset.                                    *)
NobodyWrites == \A t \in Threads : pc[t] \notin {"data", "trailer"}
NobodyFlushes == NobodyWrites /\ \A t \in Threads : pc[t] # "reset"

(* The file and the buffer are the log, in order and with nothing twice,   *)
(* and after a close the file is (Append, CloseBufferFile), unless the     *)
(* close finds a thread in the middle of a flush.                          *)
WholeLog ==
    NobodyFlushes =>
        log = FlattenSeq(file) \o IF inited THEN buffer ELSE <<>>

(* The reader names, for each system call of a thread whose hooks are      *)
(* paired, the outermost hooked function it was made under (BeforeCall):   *)
(* MergeTrace never takes such a call for one without effect.  That holds  *)
(* wherever the close finds the threads, a block that is written twice     *)
(* included, unless one of them has written a part of a block: what the    *)
(* close writes behind that part cannot be told from it.                   *)
NoneMissed == ~inited /\ NobodyWrites => made \subseteq ImpactfulFunCall

(* When all hooks are paired and no flush is cut short it names no others. *)
OnlyImpactful ==
    ~inited /\ skewed = {} /\ NobodyFlushes => ImpactfulFunCall \subseteq made

(* A hook that takes the lock gives it back, on every path through it,     *)
(* unless the close comes first.                                           *)
LockReleased == \A t \in Threads : lock = t ~> (lock # t \/ closer # NoThread)
=============================================================================
