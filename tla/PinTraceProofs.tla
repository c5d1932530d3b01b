--------------------------- MODULE PinTraceProofs ---------------------------
(***************************************************************************)
(* Proofs about the hooks of PinTrace, its log and the reader of the log,  *)
(* for any threads, functions, size of the buffer, and number and depth of *)
(* calls.                                                                  *)
(***************************************************************************)
EXTENDS PinTrace, SequenceLemmas

Places == {"run", "before", "after", "syscall", "append", "data", "trailer", "reset", "unlock"}

(* The types that the proofs need. *)
Types ==
    /\ lock \in Threads \cup {NoThread}
    /\ pdepth \in [Threads -> Int]
    /\ pc \in [Threads -> Places]
    /\ stack \in [Threads -> Seq(Frame)]
    /\ closer \in Threads \cup {NoThread} /\ raced \in BOOLEAN

(* The threads that are in Append or about to call Unlock. *)
Inside(t) == pc[t] \in {"append", "data", "trailer", "reset", "unlock"}

(* The spin lock is held by the thread whose hook is past Lock, and by no  *)
(* other (BeforeCall, AfterCall and SyscallEntry).                         *)
OneHook == \A t \in Threads : Inside(t) <=> lock = t

(* The calls that a thread has open as its own hooks see them: one that is *)
(* about to be counted is not open yet, one that has returned still is.    *)
Hooked(s) == {i \in DOMAIN s : s[i].hooked}
OpenCalls(s, place) ==
    Cardinality(Hooked(s)) + CASE place = "before" -> -1 [] place = "after" -> 1 [] OTHER -> 0

(* DepthCounts is inductive with the types alone: the counter of a thread  *)
(* is touched by its own hooks only.                                       *)
IInv == Types /\ OneHook /\ DepthCounts

-----------------------------------------------------------------------------
(* The frames of a stack that the hooks know of, when the program pushes   *)
(* and pops frames.                                                        *)

(* A finite sequence has finitely many of them. *)
LEMMA HookedFinite ==
  ASSUME NEW s \in Seq(Frame)
  PROVE  IsFiniteSet(Hooked(s)) /\ Cardinality(Hooked(s)) \in Nat
<1>1. Hooked(s) \subseteq 1 .. Len(s)
  BY DEF Hooked
<1>2. IsFiniteSet(1 .. Len(s))
  BY FS_Interval
<1> QED
  BY <1>1, <1>2, FS_Subset, FS_CardinalityType

(* A call of a hooked function adds one (Call), any other call none        *)
(* (CallUnhooked, CallBack).                                               *)
LEMMA HookedPush ==
  ASSUME NEW s \in Seq(Frame), NEW x \in Frame
  PROVE  Cardinality(Hooked(Append(s, x))) = Cardinality(Hooked(s)) + IF x.hooked THEN 1 ELSE 0
<1>1. CASE x.hooked
  <2>1. Hooked(Append(s, x)) = Hooked(s) \cup {Len(s) + 1}
    BY <1>1 DEF Hooked
  <2>2. Len(s) + 1 \notin Hooked(s)
    BY DEF Hooked
  <2> QED
    BY <1>1, <2>1, <2>2, HookedFinite, FS_AddElement
<1>2. CASE ~x.hooked
  <2>1. Hooked(Append(s, x)) = Hooked(s)
    BY <1>2 DEF Hooked
  <2> QED
    BY <1>2, <2>1, HookedFinite
<1> QED
  BY <1>1, <1>2

(* What is left of a stack when a function returns (Return), or when       *)
(* frames are unwound none of which is hooked (Unwind).                    *)
LEMMA PopType ==
  ASSUME NEW s \in Seq(Frame), s # <<>>
  PROVE  /\ Front(s) \in Seq(Frame) /\ Last(s) \in Frame
         /\ s = Append(Front(s), Last(s))
BY DEF Front, Last

(* Frames that are not hooked do not count.                                *)
LEMMA HookedUnwind ==
  ASSUME NEW s \in Seq(Frame), NEW n \in 0 .. Len(s) - 1,
         \A i \in n + 1 .. Len(s) : ~s[i].hooked
  PROVE  Hooked(SubSeq(s, 1, n)) = Hooked(s)
BY DEF Hooked

(* OpenCalls is what DepthCounts speaks of. *)
LEMMA DepthOpen == DepthCounts <=> \A t \in Threads \ skewed : pdepth[t] = OpenCalls(stack[t], pc[t])
BY DEF DepthCounts, OpenCalls, HookedFrames, Hooked

-----------------------------------------------------------------------------
(* The program and the hooks of one thread.                                *)

(* What a thread does leaves the counters, stacks and places of the others *)
(* alone.                                                                  *)
OnlyOf(t) ==
    \A u \in Threads \ {t} :
        pdepth'[u] = pdepth[u] /\ stack'[u] = stack[u] /\ pc'[u] = pc[u]

(* DepthCounts is kept if it is kept for the thread that took the step.    *)
LEMMA DepthOfOthers ==
  ASSUME DepthCounts, NEW t \in Threads, OnlyOf(t), skewed \subseteq skewed',
         t \notin skewed' => pdepth'[t] = OpenCalls(stack'[t], pc'[t])
  PROVE  DepthCounts'
<1>1. \A u \in Threads \ skewed' : pdepth'[u] = OpenCalls(stack'[u], pc'[u])
  <2> SUFFICES ASSUME NEW u \in Threads \ skewed'
               PROVE  pdepth'[u] = OpenCalls(stack'[u], pc'[u])
    OBVIOUS
  <2>1. CASE u = t
    BY <2>1
  <2>2. CASE u # t
    BY <2>2, DepthOpen DEF OnlyOf
  <2> QED
    BY <2>1, <2>2
<1> QED
  BY <1>1 DEF DepthCounts, OpenCalls, HookedFrames, Hooked

(* A step of a thread between two hooks keeps the types and the counting.  *)
ProgramKept(t) ==
    /\ pc' \in [Threads -> Places] /\ stack' \in [Threads -> Seq(Frame)]
    /\ OnlyOf(t) /\ skewed \subseteq skewed'
    /\ pc'[t] \in {"run", "before", "after", "syscall"}
    /\ t \notin skewed' => pdepth'[t] = OpenCalls(stack'[t], pc'[t])

(* Calls, returns, jumps and unwinding are such steps.                     *)
LEMMA ProgramKeeps ==
  ASSUME IInv, NEW t \in Threads, ProgramStep(t)
  PROVE  IInv'
<1> USE DEF IInv
<1>1. /\ pc[t] = "run" /\ pdepth' = pdepth /\ lock' = lock
      /\ closer' = closer /\ raced' = raced
  BY DEF ProgramStep, Call, CallUnhooked, CallBack, Return, ReturnUnhooked, Syscall, JumpPast,
         Unwind, Hook, NoHook, ProgramRuns, bufferVars, closeVars
<1>s. stack[t] \in Seq(Frame) /\ Cardinality(Hooked(stack[t])) \in Nat
  BY HookedFinite DEF Types
<1>2. t \notin skewed => pdepth[t] = Cardinality(Hooked(stack[t]))
  <2>1. t \notin skewed => pdepth[t] = OpenCalls(stack[t], "run")
    BY <1>1, DepthOpen
  <2> QED
    BY <2>1, <1>s DEF OpenCalls
<1>a. SUFFICES ProgramKept(t)
  <2>1. OneHook'
    BY <1>1, ProgramKept(t) DEF ProgramKept, OneHook, Inside, OnlyOf, Types
  <2> QED
    BY <1>1, <2>1, DepthOfOthers DEF ProgramKept, Types
<1> DEFINE Cards(s, n) == Cardinality(Hooked(s)) = Cardinality(Hooked(stack[t])) + n
<1>3. CASE Call(t)
  <2> PICK f \in Functions : /\ stack' = [stack EXCEPT ![t] = Append(@, [fun |-> f, hooked |-> TRUE])]
                             /\ pc' = [pc EXCEPT ![t] = "before"] /\ skewed' = skewed
    BY <1>3 DEF Call, Push, Hook
  <2> DEFINE x == [fun |-> f, hooked |-> TRUE]
  <2>1. x \in Frame /\ x.hooked
    BY DEF Frame
  <2>2. Cards(Append(stack[t], x), 1)
    BY <1>s, <2>1, HookedPush
  <2>3. stack'[t] = Append(stack[t], x) /\ pc'[t] = "before"
    BY DEF Types
  <2>4. t \notin skewed' => pdepth'[t] = OpenCalls(stack'[t], pc'[t])
    BY <1>1, <1>2, <1>s, <2>2, <2>3 DEF OpenCalls
  <2> QED
    BY <1>1, <1>s, <2>1, <2>3, <2>4 DEF Types, Places, OnlyOf, ProgramKept
<1>4. CASE CallUnhooked(t) \/ CallBack(t)
  <2> DEFINE x == [fun |-> NoFunction, hooked |-> FALSE]
  <2>1. /\ stack' = [stack EXCEPT ![t] = Append(@, x)]
        /\ pc' = pc /\ skewed' = skewed
    BY <1>4 DEF CallUnhooked, CallBack, Push, NoHook
  <2>2. x \in Frame /\ ~x.hooked
    BY DEF Frame
  <2>3. Cards(Append(stack[t], x), 0)
    BY <1>s, <2>2, HookedPush
  <2>4. stack'[t] = Append(stack[t], x) /\ pc'[t] = "run"
    BY <1>1, <2>1 DEF Types
  <2>5. t \notin skewed' => pdepth'[t] = OpenCalls(stack'[t], pc'[t])
    BY <1>1, <1>2, <1>s, <2>1, <2>3, <2>4, HookedFinite DEF OpenCalls
  <2> QED
    BY <1>1, <1>s, <2>1, <2>2, <2>4, <2>5 DEF Types, Places, OnlyOf, ProgramKept
<1>5. CASE Return(t)
  <2>1. /\ stack[t] # <<>> /\ Last(stack[t]).hooked
        /\ stack' = [stack EXCEPT ![t] = Front(@)]
        /\ pc' = [pc EXCEPT ![t] = "after"] /\ skewed' = skewed
    <3>1. Len(stack[t]) % 2 = 1
      BY <1>5 DEF Return, External
    <3>2. 0 % 2 = 0
      OBVIOUS
    <3>3. stack[t] # <<>>
      <4> SUFFICES ASSUME Len(stack[t]) = 0 PROVE FALSE
        BY <1>s
      <4>1. 0 % 2 = 1
        BY <3>1
      <4> QED
        BY <3>2, <4>1
    <3> QED
      BY <1>5, <3>3 DEF Return, Pop, Hook
  <2>2. stack'[t] = Front(stack[t]) /\ pc'[t] = "after"
    BY <2>1 DEF Types
  <2>3. /\ Front(stack[t]) \in Seq(Frame)
        /\ Cardinality(Hooked(stack[t])) = Cardinality(Hooked(Front(stack[t]))) + 1
    BY <1>s, <2>1, PopType, HookedPush
  <2>4. t \notin skewed' => pdepth'[t] = OpenCalls(stack'[t], pc'[t])
    BY <1>1, <1>2, <2>1, <2>2, <2>3, HookedFinite DEF OpenCalls
  <2> QED
    BY <1>1, <1>s, <2>1, <2>2, <2>3, <2>4 DEF Types, Places, OnlyOf, ProgramKept
<1>6. CASE ReturnUnhooked(t)
  <2>1. /\ stack[t] # <<>> /\ ~Last(stack[t]).hooked
        /\ stack' = [stack EXCEPT ![t] = Front(@)]
        /\ pc' = pc /\ skewed' = skewed
    BY <1>6 DEF ReturnUnhooked, Pop, NoHook
  <2>2. stack'[t] = Front(stack[t]) /\ pc'[t] = "run"
    BY <1>1, <2>1 DEF Types
  <2>3. /\ Front(stack[t]) \in Seq(Frame)
        /\ Cardinality(Hooked(stack[t])) = Cardinality(Hooked(Front(stack[t]))) + 0
    BY <1>s, <2>1, PopType, HookedPush
  <2>4. t \notin skewed' => pdepth'[t] = OpenCalls(stack'[t], pc'[t])
    BY <1>1, <1>2, <2>1, <2>2, <2>3, HookedFinite DEF OpenCalls
  <2> QED
    BY <1>1, <1>s, <2>1, <2>2, <2>3, <2>4 DEF Types, Places, OnlyOf, ProgramKept
<1>7. CASE Syscall(t)
  <2>1. stack' = stack /\ pc' = [pc EXCEPT ![t] = "syscall"] /\ skewed' = skewed
    BY <1>7 DEF Syscall, Hook
  <2>2. pc'[t] = "syscall"
    BY <2>1 DEF Types
  <2>3. t \notin skewed' => pdepth'[t] = OpenCalls(stack'[t], pc'[t])
    BY <1>1, <1>2, <1>s, <2>1, <2>2, HookedFinite DEF OpenCalls
  <2> QED
    BY <1>1, <2>1, <2>2, <2>3 DEF Types, Places, OnlyOf, ProgramKept
<1>8. CASE JumpPast(t)
  <2>1. stack' = stack /\ pc' = [pc EXCEPT ![t] = "after"] /\ skewed' = skewed \cup {t}
    BY <1>8 DEF JumpPast, Hook
  <2> QED
    BY <1>1, <2>1 DEF Types, Places, OnlyOf, ProgramKept
<1>9. CASE Unwind(t)
  <2> PICK n \in 0 .. Len(stack[t]) - 1 :
        /\ stack' = [stack EXCEPT ![t] = SubSeq(@, 1, n)] /\ pc' = pc
        /\ skewed' = skewed \cup
              {u \in {t} : \E i \in n + 1 .. Len(stack[t]) : stack[t][i].hooked}
    BY <1>9 DEF Unwind, NoHook
  <2>1. stack'[t] = SubSeq(stack[t], 1, n) /\ pc'[t] = "run"
    BY <1>1 DEF Types
  <2>2. SubSeq(stack[t], 1, n) \in Seq(Frame)
    BY <1>s
  <2>3. t \notin skewed' => Hooked(SubSeq(stack[t], 1, n)) = Hooked(stack[t])
    BY <1>s, HookedUnwind
  <2>4. t \notin skewed' => pdepth'[t] = OpenCalls(stack'[t], pc'[t])
    BY <1>1, <1>2, <1>s, <2>1, <2>3, HookedFinite DEF OpenCalls
  <2> QED
    BY <1>1, <1>s, <2>1, <2>2, <2>4 DEF Types, Places, OnlyOf, ProgramKept
<1> QED
  BY <1>3, <1>4, <1>5, <1>6, <1>7, <1>8, <1>9 DEF ProgramStep
-----------------------------------------------------------------------------
(* The hooks of one thread.                                                *)

(* Taking the lock, counting and giving it back keep the invariant: only   *)
(* the thread whose hook is past Lock passes Unlock, and a hook counts the *)
(* call exactly when it leaves the place in which the call was uncounted.  *)
LEMMA HookKeeps ==
  ASSUME IInv, NEW t \in Threads, HookStep(t) \/ HoldsLock(t)
  PROVE  IInv'
<1> USE DEF IInv
<1>s. /\ stack[t] \in Seq(Frame) /\ Cardinality(Hooked(stack[t])) \in Nat
      /\ pdepth[t] \in Int
  BY HookedFinite DEF Types
<1>1. stack' = stack /\ skewed' = skewed /\ closer' = closer /\ raced' = raced
  BY DEF HookStep, HoldsLock, BeforeCall, AfterCall, NotCounted, SyscallEntry, WriteLength,
         WriteData, WriteTrailer, Flushes, Reset, Copy, Unlock, programVars, bufferVars, closeVars
<1>2. t \notin skewed => pdepth[t] = OpenCalls(stack[t], pc[t])
  BY DepthOpen
<1> DEFINE Counted == /\ pdepth' \in [Threads -> Int] /\ pc' \in [Threads -> Places]
                      /\ OnlyOf(t)
                      /\ OpenCalls(stack[t], pc'[t]) - OpenCalls(stack[t], pc[t])
                           = pdepth'[t] - pdepth[t]
           Locked == /\ lock' \in Threads \cup {NoThread}
                     /\ \A u \in Threads \ {t} : pc'[u] = pc[u] /\ (lock' = u <=> lock = u)
                     /\ Inside(t)' <=> lock' = t
<1>3. SUFFICES Counted /\ Locked
  <2>1. OneHook'
    BY <1>3 DEF OneHook, Inside
  <2>2. OpenCalls(stack[t], pc[t]) \in Int /\ OpenCalls(stack[t], pc'[t]) \in Int
    BY <1>s DEF OpenCalls
  <2>3. t \notin skewed' => pdepth'[t] = OpenCalls(stack'[t], pc'[t])
    BY <1>1, <1>2, <1>3, <1>s, <2>2
  <2>4. DepthCounts'
    BY <1>1, <1>3, <2>3, DepthOfOthers
  <2> QED
    BY <1>1, <1>3, <2>1, <2>4 DEF Types
<1>4. CASE BeforeCall(t)
  <2>1. /\ pc[t] = "before" /\ pc'[t] \in {"append", "unlock"}
        /\ pdepth' = [pdepth EXCEPT ![t] = @ + 1]
        /\ pc' \in [Threads -> Places] /\ \A u \in Threads \ {t} : pc'[u] = pc[u]
        /\ lock = NoThread /\ lock' = t
    BY <1>4 DEF BeforeCall, Lock, Types, Places
  <2>2. OpenCalls(stack[t], pc'[t]) - OpenCalls(stack[t], pc[t]) = 1
    BY <1>s, <2>1 DEF OpenCalls
  <2>3. Counted
    BY <1>1, <1>s, <2>1, <2>2 DEF Types, OnlyOf
  <2>4. Locked
    BY <2>1, LockAssumption DEF Inside
  <2> QED
    BY <2>3, <2>4
<1>5. CASE AfterCall(t)
  <2>1. /\ pc[t] = "after" /\ pc'[t] \in {"append", "unlock"}
        /\ pdepth' = [pdepth EXCEPT ![t] = @ - 1]
        /\ pc' \in [Threads -> Places] /\ \A u \in Threads \ {t} : pc'[u] = pc[u]
        /\ lock = NoThread /\ lock' = t
    BY <1>5 DEF AfterCall, Lock, Types, Places
  <2>2. OpenCalls(stack[t], pc'[t]) - OpenCalls(stack[t], pc[t]) = -1
    BY <1>s, <2>1 DEF OpenCalls
  <2>3. Counted
    BY <1>1, <1>s, <2>1, <2>2 DEF Types, OnlyOf
  <2>4. Locked
    BY <2>1, LockAssumption DEF Inside
  <2> QED
    BY <2>3, <2>4
<1>6. CASE NotCounted(t) \/ SyscallEntry(t) \/ HoldsLock(t)
  <2>1. /\ pdepth' = pdepth /\ pc[t] \notin {"before", "after"}
        /\ pc'[t] \in Places \ {"before", "after"}
        /\ pc' \in [Threads -> Places] /\ \A u \in Threads \ {t} : pc'[u] = pc[u]
    BY <1>6 DEF NotCounted, SyscallEntry, HoldsLock, WriteLength, WriteData, WriteTrailer, Flushes,
                Reset, Copy, Unlock, LeaveHook, Types, Places
  <2>2. OpenCalls(stack[t], pc'[t]) - OpenCalls(stack[t], pc[t]) = 0
    BY <1>s, <2>1 DEF OpenCalls
  <2>3. Counted
    BY <1>1, <1>s, <2>1, <2>2 DEF Types, OnlyOf
  <2>4. CASE NotCounted(t)
    BY <2>1, <2>3, <2>4, LockAssumption DEF NotCounted, LeaveHook, Types, Inside, OneHook
  <2>5. CASE SyscallEntry(t)
    BY <2>1, <2>3, <2>5, LockAssumption DEF SyscallEntry, Lock, Types, Inside
  <2>6. CASE WriteLength(t) \/ WriteData(t) \/ WriteTrailer(t) \/ Reset(t) \/ Copy(t)
    BY <2>1, <2>3, <2>6
       DEF WriteLength, WriteData, WriteTrailer, Flushes, Reset, Copy, Types, Inside, OneHook
  <2>7. CASE Unlock(t)
    BY <2>1, <2>3, <2>7, LockAssumption DEF Unlock, LeaveHook, Types, Inside, OneHook
  <2> QED
    BY <1>6, <2>4, <2>5, <2>6, <2>7 DEF HoldsLock
<1> QED
  BY <1>4, <1>5, <1>6 DEF HookStep

-----------------------------------------------------------------------------
(* The specification.                                                      *)

(* No call is open when the program starts.                                *)
LEMMA InitInv == PinInit => IInv
<1> SUFFICES ASSUME PinInit PROVE IInv
  OBVIOUS
<1>0. <<>> \in Seq(Frame) /\ \A t \in Threads : pc[t] = "run"
  BY DEF PinInit
<1>1. Types /\ OneHook
  <2>1. Types
    <3>1. stack \in [Threads -> Seq(Frame)]
      BY <1>0 DEF PinInit
    <3>2. pc \in [Threads -> Places] /\ pdepth \in [Threads -> Int]
      BY DEF PinInit, Places
    <3>3. lock = NoThread /\ closer = NoThread /\ raced = FALSE
      BY DEF PinInit
    <3> QED
      BY <3>1, <3>2, <3>3 DEF Types
  <2>2. OneHook
    BY <1>0, LockAssumption DEF PinInit, OneHook, Inside
  <2> QED
    BY <2>1, <2>2
<1>2. \A t \in Threads : HookedFrames(t) = {}
  BY DEF PinInit, HookedFrames
<1>3. DepthCounts
  <2>1. Cardinality({}) = 0
    BY FS_EmptySet
  <2>2. \A t \in Threads : pdepth[t] = 0 /\ pc[t] = "run"
    BY DEF PinInit
  <2> QED
    BY <1>2, <2>1, <2>2 DEF DepthCounts
<1> QED
  BY <1>1, <1>3 DEF IInv

(* Every step keeps the invariant; a close takes no lock and counts none.  *)
LEMMA NextInv == IInv /\ [PinNext]_pinVars => IInv'
<1> SUFFICES ASSUME IInv, [PinNext]_pinVars PROVE IInv'
  OBVIOUS
<1>1. CASE CloseBufferFile \/ UNCHANGED pinVars \/ \E t \in Threads : EnterClose(t) \/ Race(t)
  <2>1. /\ lock' = lock /\ pdepth' = pdepth /\ pc' = pc /\ stack' = stack
        /\ skewed' = skewed
        /\ closer' \in Threads \cup {NoThread} /\ raced' \in BOOLEAN
    BY <1>1 DEF CloseBufferFile, EnterClose, Race, pinVars, programVars, bufferVars, closeVars,
                IInv, Types
  <2> QED
    BY <2>1 DEF IInv, Types, OneHook, Inside, DepthCounts, HookedFrames
<1>2. CASE \E t \in Threads : ProgramStep(t) \/ HookStep(t) \/ HoldsLock(t)
  BY <1>2, ProgramKeeps, HookKeeps
<1> QED
  BY <1>1, <1>2 DEF PinNext

(* The invariant of the proof holds throughout.                            *)
THEOREM Invariance == PinSpec => []IInv
BY InitInv, NextInv, PTL DEF PinSpec

(* The counter of a thread is the number of calls that its hooks saw begin *)
(* and not end, whatever other threads do and however often instrumented   *)
(* and external functions call each other (BeforeCall, AfterCall).  What   *)
(* is recorded as outermost rests on it.                                   *)
THEOREM DepthCountsTheorem == PinSpec => []DepthCounts
<1>1. IInv => DepthCounts
  BY DEF IInv
<1> QED
  BY <1>1, Invariance, PTL

(* At most one thread is between Lock and Unlock, and it is the thread     *)
(* that the spin lock names: no two hooks append at once.                  *)
THEOREM MutualExclusion ==
  PinSpec => [](\A t, u \in Threads : Inside(t) /\ Inside(u) => t = u)
<1>1. IInv => \A t, u \in Threads : Inside(t) /\ Inside(u) => t = u
  BY DEF IInv, OneHook
<1> QED
  BY <1>1, Invariance, PTL

-----------------------------------------------------------------------------
(***************************************************************************)
(* Proofs about the trace that the hooks of PinTrace write, and about its  *)
(* reader: the file and the buffer are the log, and the reader names the   *)
(* functions under which system calls were made, for any threads,          *)
(* functions, size of the buffer, and number and depth of calls.           *)
(***************************************************************************)

(* The types of what the hooks write. *)
LogTypes ==
    /\ buffer \in Seq(Event) /\ offset = Bytes(buffer) /\ offset <= BlockSize
    /\ file \in Seq(Seq(Event \cup {EndEvent}))
    /\ log \in Seq(Event \cup {EndEvent}) /\ (inited => log \in Seq(Event))
    /\ inited \in BOOLEAN
    /\ event \in [Threads -> Event \cup {EndEvent}]
    /\ skewed \subseteq Threads /\ made \subseteq Functions

(* What a thread is about to record, in a hook or in Append. *)
Pending(t, label) ==
    /\ pc[t] \in {"before", "after", "syscall", "append", "data", "trailer", "reset"}
    /\ event[t].label = label

CallFrame(f) == [fun |-> f, hooked |-> TRUE]

(* The event of a hook is that of its thread and its kind, the call that   *)
(* is recorded is the last one on the stack, and what reaches Append       *)
(* passed the test of the counter in its hook.                             *)
HookEvent(t) ==
    /\ pc[t] # "run" => event[t] \in Event /\ event[t].tid = t
    /\ pc[t] = "before" => event[t].label = "Call"
    /\ pc[t] = "after" => event[t].label = "Return"
    /\ pc[t] = "syscall" => event[t].label = "Syscall"
    /\ Pending(t, "Call") => stack[t] # <<>> /\ Last(stack[t]) = CallFrame(event[t].fun)
    /\ pc[t] \in {"append", "data", "trailer", "reset"} =>
          /\ event[t].label = "Call" => pdepth[t] = 1
          /\ event[t].label = "Return" => pdepth[t] = 0
          /\ event[t].label = "Syscall" => pdepth[t] # 0

HookEvents == \A t \in Threads : HookEvent(t)

(* The file and the buffer are the log, the block counted once that a      *)
(* thread has written and not reset yet.                                   *)
NobodyResets == \A t \in Threads : pc[t] # "reset"
Written == FlattenSeq(file) \o IF NobodyResets THEN buffer ELSE <<>>
Stored == inited => log = Written

(* The stack of a thread as far as its calls and returns are recorded. *)
Recorded(t) ==
    IF Pending(t, "Call") THEN Front(stack[t])
    ELSE IF Pending(t, "Return") THEN Append(stack[t], CallFrame(event[t].fun))
    ELSE stack[t]

First(s) == {i \in Hooked(s) : \A j \in Hooked(s) : i <= j}
Outer(s) == {s[i].fun : i \in First(s)}

(* The stack of functions of the reader has the outermost call on it. *)
Agrees(calls, s) ==
    \/ calls = <<>> /\ Hooked(s) = {}
    \/ \E f \in Functions : calls = <<f>> /\ Hooked(s) # {} /\ Outer(s) = {f}

(* A reader of the log has for each thread whose hooks are paired the      *)
(* outermost call, and has named the functions of made, and no others if   *)
(* all hooks are paired.                                                   *)
Follows(r) ==
    /\ ~r.ended
    /\ made \subseteq r.impactful_fun_call
    /\ skewed = {} => r.impactful_fun_call \subseteq made
    /\ \A t \in Threads \ skewed : Agrees(r.fun_stack[t], Recorded(t))

Attributed == inited => Follows(ReadTrace(log))

(* The invariants of what a close leaves. *)
Reported == NoneMissed /\ OnlyImpactful /\ (~inited => WholeLog)

LogInv == LogTypes /\ HookEvents /\ Stored /\ Attributed /\ Reported
-----------------------------------------------------------------------------
(* The recursive function inside ReadTrace(s). *)
Reads(f, s) ==
    f = [n \in 0 .. Len(s) |-> IF n = 0 THEN NothingRead ELSE ReadEvent(f[n - 1], s[n])]

(* It is what it says at every index. *)
LEMMA ReadsAt ==
  ASSUME NEW f, NEW s, Reads(f, s)
  PROVE  \A n \in 0 .. Len(s) : f[n] = IF n = 0 THEN NothingRead ELSE ReadEvent(f[n - 1], s[n])
<1> SUFFICES ASSUME NEW n \in 0 .. Len(s)
             PROVE  f[n] = IF n = 0 THEN NothingRead ELSE ReadEvent(f[n - 1], s[n])
  OBVIOUS
<1> DEFINE g == [m \in 0 .. Len(s) |-> IF m = 0 THEN NothingRead ELSE ReadEvent(f[m - 1], s[m])]
<1>1. g[n] = IF n = 0 THEN NothingRead ELSE ReadEvent(f[n - 1], s[n])
  BY Zenon
<1>2. f = g
  BY Zenon DEF Reads
<1> HIDE DEF g
<1> QED
  BY <1>1, <1>2

(* For a longer sequence it goes one step further. *)
LEMMA ReadsLonger ==
  ASSUME NEW S, NEW s \in Seq(S), NEW x \in S, NEW f, Reads(f, s)
  PROVE  \E g : Reads(g, Append(s, x)) /\ g[Len(s) + 1] = ReadEvent(f[Len(s)], x)
<1>0. \A i \in 0 .. Len(s) : f[i] = IF i = 0 THEN NothingRead ELSE ReadEvent(f[i - 1], s[i])
  BY ReadsAt
<1> DEFINE n == Len(s)
           v == Append(s, x)
           last == ReadEvent(f[n], x)
           g == [i \in 0 .. n + 1 |-> IF i = n + 1 THEN last ELSE f[i]]
<1>1. /\ n \in Nat /\ Len(v) = n + 1 /\ v[n + 1] = x
      /\ \A i \in 1 .. n : v[i] = s[i]
  OBVIOUS
<1> HIDE DEF v, n
<1>2. \A i \in 0 .. n + 1 : g[i] = IF i = 0 THEN NothingRead ELSE ReadEvent(g[i - 1], v[i])
  <2> SUFFICES ASSUME NEW i \in 0 .. n + 1
               PROVE  g[i] = IF i = 0 THEN NothingRead ELSE ReadEvent(g[i - 1], v[i])
    OBVIOUS
  <2>1. CASE i = n + 1
    <3>1. i # 0 /\ i - 1 = n /\ n \in 0 .. n + 1 /\ n # n + 1 /\ v[i] = x
      BY <1>1, <2>1
    <3>2. g[i] = last /\ g[n] = f[n]
      BY <2>1, <3>1
    <3> HIDE DEF g
    <3> QED
      BY <3>1, <3>2
  <2>2. CASE i # n + 1
    <3>1. i \in 0 .. n
      BY <1>1, <2>2
    <3>2. f[i] = IF i = 0 THEN NothingRead ELSE ReadEvent(f[i - 1], s[i])
      <4>1. i \in 0 .. Len(s)
        BY <3>1 DEF n
      <4> QED
        BY <1>0, <4>1
    <3>3. i # 0 => i - 1 \in 0 .. n + 1 /\ i - 1 # n + 1 /\ v[i] = s[i]
      BY <1>1, <3>1
    <3>4. g[i] = f[i] /\ (i # 0 => g[i - 1] = f[i - 1])
      BY <2>2, <3>3
    <3> HIDE DEF g
    <3> QED
      BY <3>2, <3>3, <3>4
  <2> QED
    BY <2>1, <2>2
<1>3. g = [i \in 0 .. n + 1 |-> g[i]] /\ n + 1 \in 0 .. n + 1 /\ g[n + 1] = last
  BY <1>1
<1>4. Reads(g, v)
  <2> HIDE DEF g
  <2> QED
    BY <1>1, <1>2, <1>3, Zenon DEF Reads
<1> QED
  BY <1>3, <1>4 DEF v, n

(* There is such a function for every sequence. *)
LEMMA ReadsExists ==
  ASSUME NEW S, NEW s \in Seq(S)
  PROVE  \E f : Reads(f, s)
<1> DEFINE T == {u \in Seq(S) : \E f : Reads(f, u)}
           none == [n \in {0} |-> NothingRead]
<1>1. <<>> \in T
  <2>1. 0 .. Len(<<>>) = {0}
    OBVIOUS
  <2>2. none = [n \in {0} |-> IF n = 0 THEN NothingRead ELSE ReadEvent(none[n - 1], <<>>[n])]
    OBVIOUS
  <2>3. Reads(none, <<>>)
    <3> HIDE DEF none
    <3> QED
      BY <2>1, <2>2, Zenon DEF Reads
  <2> QED
    BY <2>3
<1>2. ASSUME NEW u \in Seq(S), NEW x \in S, u \in T PROVE Append(u, x) \in T
  <2>1. PICK f : Reads(f, u)
    BY <1>2
  <2>2. \E g : Reads(g, Append(u, x))
    BY <2>1, ReadsLonger
  <2> QED
    BY <2>2
<1>3. Seq(S) \subseteq T
  <2> HIDE DEF T
  <2> QED
    BY <1>1, <1>2, SeqSetInduction
<1> QED
  BY <1>3

(* And only one. *)
LEMMA ReadsUnique ==
  ASSUME NEW S, NEW s \in Seq(S), NEW f, NEW g, Reads(f, s), Reads(g, s)
  PROVE  \A n \in 0 .. Len(s) : f[n] = g[n]
<1>0. /\ \A n \in 0 .. Len(s) : f[n] = IF n = 0 THEN NothingRead ELSE ReadEvent(f[n - 1], s[n])
      /\ \A n \in 0 .. Len(s) : g[n] = IF n = 0 THEN NothingRead ELSE ReadEvent(g[n - 1], s[n])
  BY ReadsAt
<1> DEFINE T == {n \in Nat : n \in 0 .. Len(s) => f[n] = g[n]}
<1>1. 0 \in T
  <2>1. 0 \in 0 .. Len(s)
    OBVIOUS
  <2>2. f[0] = NothingRead /\ g[0] = NothingRead
    BY <2>1, ReadsAt
  <2> QED
    BY <2>2
<1>2. ASSUME NEW n \in Nat, n \in T PROVE n + 1 \in T
  <2> SUFFICES ASSUME n + 1 \in 0 .. Len(s) PROVE f[n + 1] = g[n + 1]
    OBVIOUS
  <2>1. (n + 1) - 1 = n /\ n + 1 # 0 /\ n \in 0 .. Len(s)
    OBVIOUS
  <2>2. /\ f[n + 1] = ReadEvent(f[n], s[n + 1])
        /\ g[n + 1] = ReadEvent(g[n], s[n + 1])
    <3>1. f[n + 1] = IF n + 1 = 0 THEN NothingRead ELSE ReadEvent(f[(n + 1) - 1], s[n + 1])
      BY <1>0
    <3>2. g[n + 1] = IF n + 1 = 0 THEN NothingRead ELSE ReadEvent(g[(n + 1) - 1], s[n + 1])
      BY <1>0
    <3> QED
      BY <2>1, <3>1, <3>2, Zenon
  <2> QED
    BY <1>2, <2>1, <2>2
<1>3. Nat \subseteq T
  <2> HIDE DEF T
  <2> QED
    BY <1>1, <1>2, NatSetInduction
<1> QED
  BY <1>3

(* The reader takes the events one after the other. *)
LEMMA ReadTraceAppend ==
  ASSUME NEW S, NEW s \in Seq(S), NEW x \in S
  PROVE  ReadTrace(Append(s, x)) = ReadEvent(ReadTrace(s), x)
<1>1. ASSUME NEW u \in Seq(S), NEW f, Reads(f, u)
      PROVE  ReadTrace(u) = f[Len(u)]
  <2> DEFINE g == CHOOSE h : Reads(h, u)
  <2>1. ReadTrace(u) = g[Len(u)]
    BY Zenon DEF ReadTrace, Reads
  <2>2. Reads(g, u)
    BY <1>1, Zenon
  <2>3. Len(u) \in 0 .. Len(u)
    OBVIOUS
  <2> HIDE DEF g
  <2> QED
    BY <1>1, <2>1, <2>2, <2>3, ReadsUnique
<1>2. PICK f : Reads(f, s)
  BY ReadsExists
<1>3. PICK g : Reads(g, Append(s, x)) /\ g[Len(s) + 1] = ReadEvent(f[Len(s)], x)
  BY <1>2, ReadsLonger
<1>4. Append(s, x) \in Seq(S) /\ Len(Append(s, x)) = Len(s) + 1
  BY AppendIsSeq
<1> QED
  BY <1>1, <1>2, <1>3, <1>4

(* Before the first event. *)
LEMMA ReadTraceEmpty == ReadTrace(<<>>) = NothingRead
<1>1. <<>> \in Seq({}) /\ Len(<<>>) = 0 /\ 0 \in 0 .. Len(<<>>)
  OBVIOUS
<1> DEFINE g == CHOOSE h : Reads(h, <<>>)
<1>2. ReadTrace(<<>>) = g[0]
  <2>1. ReadTrace(<<>>) = g[Len(<<>>)]
    BY Zenon DEF ReadTrace, Reads
  <2> QED
    BY <1>1, <2>1
<1>3. Reads(g, <<>>)
  BY <1>1, ReadsExists, Zenon
<1> HIDE DEF g
<1> QED
  BY <1>1, <1>2, <1>3, ReadsAt

-----------------------------------------------------------------------------
(* The bytes of the buffer.                                                *)

Labelled(s, labels) == {i \in DOMAIN s : s[i].label \in labels}

(* An event adds one to the events with its label. *)
LEMMA LabelledAppend ==
  ASSUME NEW s \in Seq(Event), NEW e \in Event, NEW labels
  PROVE  /\ Cardinality(Labelled(s, labels)) \in Nat
         /\ Cardinality(Labelled(Append(s, e), labels))
               = Cardinality(Labelled(s, labels)) + IF e.label \in labels THEN 1 ELSE 0
<1>1. IsFiniteSet(Labelled(s, labels)) /\ Cardinality(Labelled(s, labels)) \in Nat
  <2>1. Labelled(s, labels) \subseteq 1 .. Len(s)
    BY DEF Labelled
  <2>2. IsFiniteSet(1 .. Len(s))
    BY FS_Interval
  <2> QED
    BY <2>1, <2>2, FS_Subset, FS_CardinalityType
<1>2. CASE e.label \in labels
  <2>1. Labelled(Append(s, e), labels) = Labelled(s, labels) \cup {Len(s) + 1}
    BY <1>2 DEF Labelled
  <2>2. Len(s) + 1 \notin Labelled(s, labels)
    BY DEF Labelled
  <2> QED
    BY <1>1, <1>2, <2>1, <2>2, FS_AddElement
<1>3. CASE e.label \notin labels
  <2>1. Labelled(Append(s, e), labels) = Labelled(s, labels)
    BY <1>3 DEF Labelled
  <2> QED
    BY <1>1, <1>3, <2>1
<1> QED
  BY <1>2, <1>3, <1>1

(* An event takes its length. *)
LEMMA BytesAppend ==
  ASSUME NEW s \in Seq(Event), NEW e \in Event
  PROVE  Bytes(s) \in Nat /\ Bytes(Append(s, e)) = Bytes(s) + Length(e)
<1> DEFINE Calls(u) == Cardinality(Labelled(u, {"Call", "Return"}))
           Syscalls(u) == Cardinality(Labelled(u, {"Syscall"}))
<1>1. \A u : Bytes(u) = 130 * Calls(u) + 66 * Syscalls(u)
  BY DEF Bytes, Labelled
<1>2. Calls(s) \in Nat /\ Syscalls(s) \in Nat
  BY LabelledAppend
<1>3. CASE e.label \in {"Call", "Return"}
  <2>1. Calls(Append(s, e)) = Calls(s) + 1 /\ Syscalls(Append(s, e)) = Syscalls(s) + 0
    BY <1>3, LabelledAppend
  <2>2. Length(e) = 130
    BY <1>3 DEF Length
  <2> HIDE DEF Calls, Syscalls
  <2> QED
    BY <1>1, <1>2, <2>1, <2>2
<1>4. CASE e.label = "Syscall"
  <2>1. Calls(Append(s, e)) = Calls(s) + 0 /\ Syscalls(Append(s, e)) = Syscalls(s) + 1
    BY <1>4, LabelledAppend
  <2>2. Length(e) = 66
    BY <1>4 DEF Length
  <2> HIDE DEF Calls, Syscalls
  <2> QED
    BY <1>1, <1>2, <2>1, <2>2
<1> QED
  BY <1>3, <1>4 DEF Event

(* An empty buffer has none. *)
LEMMA BytesEmpty == Bytes(<<>>) = 0
<1>1. \A labels : Labelled(<<>>, labels) = {}
  BY DEF Labelled
<1>2. \A labels : Cardinality(Labelled(<<>>, labels)) = 0
  BY <1>1, FS_EmptySet
<1>3. Bytes(<<>>) = 130 * Cardinality(Labelled(<<>>, {"Call", "Return"}))
                      + 66 * Cardinality(Labelled(<<>>, {"Syscall"}))
  BY DEF Bytes, Labelled
<1> QED
  BY <1>2, <1>3

-----------------------------------------------------------------------------
(* What the reader does with an event.                                     *)

Reader == [fun_stack : [Threads -> Seq(Functions)], impactful_fun_call : SUBSET Functions,
           ended : BOOLEAN]

(* A set of indices of a sequence has a maximum. *)
LEMMA MaxIndex ==
  ASSUME NEW n \in Nat, NEW S \in SUBSET (1 .. n), S # {}
  PROVE  Max(S) \in S
<1>1. S \in SUBSET (0 .. n)
  OBVIOUS
<1>2. PICK m \in S : \A y \in S : m >= y
  BY <1>1, Maximum
<1> QED
  BY <1>2 DEF Max

(* What is left of a stack of functions is one. *)
LEMMA PopToType ==
  ASSUME NEW s \in Seq(Functions), NEW f
  PROVE  PopTo(s, f) \in Seq(Functions)
<1> DEFINE calls == {i \in DOMAIN s : s[i] = f}
<1>1. CASE calls = {}
  BY <1>1 DEF PopTo
<1>2. CASE calls # {}
  <2>1. calls \in SUBSET (1 .. Len(s)) /\ Len(s) \in Nat
    OBVIOUS
  <2>2. Max(calls) \in calls
    <3> HIDE DEF calls
    <3> QED
      BY <1>2, <2>1, MaxIndex
  <2>3. PopTo(s, f) = SubSeq(s, 1, Max(calls) - 1)
    BY <1>2 DEF PopTo
  <2>4. Max(calls) \in 1 .. Len(s)
    BY <2>1, <2>2
  <2> HIDE DEF calls
  <2> QED
    BY <2>3, <2>4
<1> QED
  BY <1>1, <1>2

(* The outermost call is popped by its own return. *)
LEMMA PopOutermost == ASSUME NEW f \in Functions PROVE PopTo(<<f>>, f) = <<>>
<1>1. {i \in DOMAIN <<f>> : <<f>>[i] = f} = {1}
  OBVIOUS
<1>2. Max({1}) = 1
  BY DEF Max
<1> QED
  BY <1>1, <1>2 DEF PopTo

(* The reader after one event. *)
LEMMA ReadOne ==
  ASSUME NEW r \in Reader, ~r.ended, NEW e \in Event
  PROVE  /\ e.tid \in Threads /\ ReadEvent(r, e) \in Reader /\ ~ReadEvent(r, e).ended
         /\ \A u \in Threads \ {e.tid} : ReadEvent(r, e).fun_stack[u] = r.fun_stack[u]
         /\ ReadEvent(r, e).fun_stack[e.tid] =
               CASE e.label = "Call" -> Append(r.fun_stack[e.tid], e.fun)
                 [] e.label = "Return" -> PopTo(r.fun_stack[e.tid], e.fun)
                 [] OTHER -> r.fun_stack[e.tid]
         /\ ReadEvent(r, e).impactful_fun_call =
               r.impactful_fun_call \cup
                  IF e.label = "Syscall" /\ r.fun_stack[e.tid] # <<>>
                  THEN {Last(r.fun_stack[e.tid])} ELSE {}
<1>1. e.tid \in Threads /\ r.fun_stack[e.tid] \in Seq(Functions)
  BY DEF Event, Reader
<1>2. CASE e.label = "Call"
  <2>1. e.fun \in Functions
    BY <1>2 DEF Event
  <2>2. ReadEvent(r, e) = [r EXCEPT !.fun_stack[e.tid] = Append(@, e.fun)]
    BY <1>2 DEF ReadEvent
  <2>3. Append(r.fun_stack[e.tid], e.fun) \in Seq(Functions)
    BY <1>1, <2>1
  <2> DEFINE v == Append(r.fun_stack[e.tid], e.fun)
  <2>4. ReadEvent(r, e) = [fun_stack |-> [r.fun_stack EXCEPT ![e.tid] = v],
                           impactful_fun_call |-> r.impactful_fun_call, ended |-> FALSE]
    BY <2>2 DEF Reader
  <2> HIDE DEF v
  <2>5. v \in Seq(Functions)
    BY <2>3 DEF v
  <2>6. ReadEvent(r, e) \in Reader
    BY <1>1, <2>4, <2>5 DEF Reader
  <2> QED
    BY <1>1, <1>2, <2>4, <2>6 DEF Reader, v
<1>3. CASE e.label = "Return"
  <2>1. ReadEvent(r, e) = [r EXCEPT !.fun_stack[e.tid] = PopTo(@, e.fun)]
    BY <1>3 DEF ReadEvent
  <2>2. PopTo(r.fun_stack[e.tid], e.fun) \in Seq(Functions)
    BY <1>1, PopToType
  <2> DEFINE v == PopTo(r.fun_stack[e.tid], e.fun)
  <2>3. ReadEvent(r, e) = [fun_stack |-> [r.fun_stack EXCEPT ![e.tid] = v],
                           impactful_fun_call |-> r.impactful_fun_call, ended |-> FALSE]
    BY <2>1 DEF Reader
  <2> HIDE DEF v
  <2>4. v \in Seq(Functions)
    BY <2>2 DEF v
  <2>5. ReadEvent(r, e) \in Reader
    BY <1>1, <2>3, <2>4 DEF Reader
  <2> QED
    BY <1>1, <1>3, <2>3, <2>5 DEF Reader, v
<1>4. CASE e.label = "Syscall"
  <2>1. CASE r.fun_stack[e.tid] = <<>>
    <3>1. ReadEvent(r, e) = r
      BY <1>4, <2>1 DEF ReadEvent
    <3> QED
      BY <1>1, <1>4, <2>1, <3>1
  <2>2. CASE r.fun_stack[e.tid] # <<>>
    <3>1. ReadEvent(r, e) = [r EXCEPT !.impactful_fun_call = @ \cup {Last(r.fun_stack[e.tid])}]
      BY <1>4, <2>2 DEF ReadEvent
    <3>2. Last(r.fun_stack[e.tid]) \in Functions
      BY <1>1, <2>2 DEF Last
    <3> QED
      BY <1>1, <1>4, <2>2, <3>1, <3>2 DEF Reader
  <2> QED
    BY <2>1, <2>2
<1> QED
  BY <1>2, <1>3, <1>4 DEF Event

(* The end, and whatever is behind it, adds nothing. *)
LEMMA ReadEnd ==
  ASSUME NEW r \in Reader
  PROVE  /\ ReadEvent(r, EndEvent) \in Reader
         /\ ReadEvent(r, EndEvent).impactful_fun_call = r.impactful_fun_call
         /\ \A e : r.ended => ReadEvent(r, e) = r
BY DEF ReadEvent, EndEvent, Reader

(* No event takes a function back. *)
LEMMA ReadKeeps ==
  ASSUME NEW r \in Reader, NEW e \in Event \cup {EndEvent}
  PROVE  /\ ReadEvent(r, e) \in Reader
         /\ r.impactful_fun_call \subseteq ReadEvent(r, e).impactful_fun_call
<1>1. CASE r.ended
  BY <1>1, ReadEnd
<1>2. CASE ~r.ended /\ e = EndEvent
  BY <1>2, ReadEnd
<1>3. CASE ~r.ended /\ e \in Event
  BY <1>3, ReadOne
<1> QED
  BY <1>1, <1>2, <1>3

(* Nor does a trace. *)
LEMMA ReadType ==
  ASSUME NEW s \in Seq(Event \cup {EndEvent})
  PROVE  ReadTrace(s) \in Reader
<1> DEFINE E == Event \cup {EndEvent}
           T == {u \in Seq(E) : ReadTrace(u) \in Reader}
<1>1. <<>> \in T
  <2>1. NothingRead \in Reader
    BY DEF NothingRead, Reader
  <2>2. <<>> \in Seq(E)
    OBVIOUS
  <2> QED
    BY <2>1, <2>2, ReadTraceEmpty
<1>2. ASSUME NEW u \in Seq(E), NEW e \in E, u \in T PROVE Append(u, e) \in T
  <2>1. ReadTrace(Append(u, e)) = ReadEvent(ReadTrace(u), e)
    <3> HIDE DEF E
    <3> QED
      BY ReadTraceAppend
  <2> QED
    BY <1>2, <2>1, ReadKeeps, AppendIsSeq
<1>3. Seq(E) \subseteq T
  <2> HIDE DEF E, T
  <2> QED
    BY <1>1, <1>2, SeqSetInduction
<1> QED
  BY <1>3

(* A longer trace names at least the same functions. *)
LEMMA ReadGrows ==
  ASSUME NEW s \in Seq(Event \cup {EndEvent}), NEW v \in Seq(Event \cup {EndEvent})
  PROVE  ReadTrace(s).impactful_fun_call \subseteq ReadTrace(s \o v).impactful_fun_call
<1> DEFINE E == Event \cup {EndEvent}
           I(u) == ReadTrace(u).impactful_fun_call
           T == {u \in Seq(E) : I(s) \subseteq I(s \o u)}
<1>0. s \in Seq(E) /\ v \in Seq(E)
  OBVIOUS
<1>1. <<>> \in T
  <2>1. s \o <<>> = s /\ <<>> \in Seq(E)
    BY <1>0
  <2> QED
    BY <2>1
<1>2. ASSUME NEW u \in Seq(E), NEW e \in E, u \in T PROVE Append(u, e) \in T
  <2>1. s \o Append(u, e) = Append(s \o u, e) /\ s \o u \in Seq(E) /\ Append(u, e) \in Seq(E)
    <3> HIDE DEF E
    <3> QED
      BY <1>0
  <2>2. ReadTrace(Append(s \o u, e)) = ReadEvent(ReadTrace(s \o u), e)
    <3> HIDE DEF E
    <3> QED
      BY <2>1, ReadTraceAppend
  <2>3. I(s \o u) \subseteq I(Append(s \o u, e))
    BY <2>1, <2>2, ReadType, ReadKeeps
  <2>4. I(s) \subseteq I(s \o u)
    BY <1>2
  <2> HIDE DEF E, I
  <2> QED
    BY <2>1, <2>3, <2>4
<1>3. Seq(E) \subseteq T
  <2> HIDE DEF E, T
  <2> QED
    BY <1>1, <1>2, SeqSetInduction
<1> HIDE DEF E, I
<1> QED
  BY <1>0, <1>3 DEF I

-----------------------------------------------------------------------------
(* The outermost call of a stack, when frames are pushed and popped.       *)

(* Only the first call of a hooked function changes it. *)
LEMMA OuterPush ==
  ASSUME NEW s \in Seq(Frame), NEW x \in Frame, Hooked(s) # {} \/ ~x.hooked
  PROVE  /\ Outer(Append(s, x)) = Outer(s)
         /\ Hooked(Append(s, x)) = {} <=> Hooked(s) = {}
<1> DEFINE v == Append(s, x)
<1>1. /\ \A i \in Hooked(s) : i \in 1 .. Len(s) /\ v[i] = s[i]
      /\ Hooked(v) = Hooked(s) \cup IF x.hooked THEN {Len(s) + 1} ELSE {}
  BY DEF Hooked
<1>2. First(v) = First(s)
  <2> HIDE DEF v
  <2> QED
    BY <1>1 DEF First
<1>3. \A i \in First(s) : v[i] = s[i]
  BY <1>1 DEF First
<1>4. {v[i].fun : i \in First(s)} = {s[i].fun : i \in First(s)}
  <2> HIDE DEF v
  <2> QED
    BY <1>3
<1> QED
  BY <1>1, <1>2, <1>4 DEF Outer

(* That one becomes the outermost. *)
LEMMA OuterFirst ==
  ASSUME NEW s \in Seq(Frame), NEW f \in Functions, Hooked(s) = {}
  PROVE  /\ Outer(Append(s, CallFrame(f))) = {f}
         /\ Hooked(Append(s, CallFrame(f))) # {}
<1> DEFINE v == Append(s, CallFrame(f))
<1>1. Hooked(v) = {Len(s) + 1} /\ v[Len(s) + 1].fun = f
  <2>1. /\ DOMAIN v = 1 .. Len(s) + 1 /\ v[Len(s) + 1] = CallFrame(f)
        /\ \A i \in 1 .. Len(s) : v[i] = s[i] /\ ~s[i].hooked
    BY DEF Hooked
  <2> HIDE DEF v
  <2> QED
    BY <2>1 DEF Hooked, CallFrame
<1>2. First(v) = {Len(s) + 1}
  <2> HIDE DEF v
  <2> QED
    BY <1>1 DEF First
<1> HIDE DEF v
<1>3. {v[i].fun : i \in {Len(s) + 1}} = {f}
  BY <1>1
<1> QED
  BY <1>1, <1>2, <1>3 DEF Outer, v

(* Unwinding frames none of which is hooked leaves it. *)
LEMMA OuterUnwind ==
  ASSUME NEW s \in Seq(Frame), NEW n \in 0 .. Len(s) - 1,
         \A i \in n + 1 .. Len(s) : ~s[i].hooked
  PROVE  Outer(SubSeq(s, 1, n)) = Outer(s) /\ Hooked(SubSeq(s, 1, n)) = Hooked(s)
<1> DEFINE v == SubSeq(s, 1, n)
<1>1. Hooked(v) = Hooked(s) /\ \A i \in Hooked(v) : v[i] = s[i]
  <2>1. \A i \in Hooked(v) : i \in 1 .. n /\ v[i] = s[i]
    BY DEF Hooked
  <2> QED
    BY <2>1, HookedUnwind
<1> HIDE DEF v
<1>2. First(v) = First(s) /\ \A i \in First(v) : v[i] = s[i]
  BY <1>1 DEF First
<1>3. {v[i].fun : i \in First(v)} = {s[i].fun : i \in First(v)}
  BY <1>2
<1> QED
  BY <1>1, <1>2, <1>3 DEF Outer, v

(* A pushed frame that is no first call of a hooked function is none for   *)
(* the reader.                                                             *)
LEMMA AgreesPush ==
  ASSUME NEW s \in Seq(Frame), NEW x \in Frame, Hooked(s) # {} \/ ~x.hooked, NEW calls
  PROVE  Agrees(calls, Append(s, x)) <=> Agrees(calls, s)
BY OuterPush DEF Agrees

(* Counting the frames of a call. *)
LEMMA CountedCall ==
  ASSUME NEW s \in Seq(Frame), NEW f \in Functions
  PROVE  /\ CallFrame(f) \in Frame /\ CallFrame(f).hooked
         /\ Cardinality(Hooked(Append(s, CallFrame(f)))) = Cardinality(Hooked(s)) + 1
         /\ Cardinality(Hooked(s)) \in Nat
         /\ Cardinality(Hooked(s)) = 0 <=> Hooked(s) = {}
<1>1. CallFrame(f) \in Frame /\ CallFrame(f).hooked
  BY DEF CallFrame, Frame
<1> QED
  BY <1>1, HookedPush, HookedFinite, FS_EmptySet

-----------------------------------------------------------------------------
(* Steps of one thread that record nothing.                                *)

(* What they leave alone, and what they do to the outermost call.          *)
Others(t) == OnlyOf(t) /\ \A u \in Threads \ {t} : event'[u] = event[u]

Quiet(t) ==
    /\ Others(t)
    /\ log' = log /\ inited' = inited /\ skewed \subseteq skewed' /\ made' = made
    /\ t \notin skewed' =>
          \A calls : Agrees(calls, Recorded(t)) => Agrees(calls, Recorded(t)')

(* The reader follows them.                                                *)
LEMMA QuietFollows ==
  ASSUME NEW t \in Threads, Quiet(t), Attributed
  PROVE  Attributed'
<1> DEFINE r == ReadTrace(log)
<1>1. r' = r
  BY DEF Quiet
<1>2. SUFFICES ASSUME inited', Follows(r) PROVE Follows(r)'
  BY DEF Quiet, Attributed
<1> HIDE DEF r
<1>3. ASSUME NEW u \in Threads \ skewed' PROVE Agrees(r.fun_stack[u], Recorded(u)')
  <2>1. Agrees(r.fun_stack[u], Recorded(u))
    BY <1>2 DEF Follows, Quiet
  <2>2. CASE u = t
    BY <2>1, <2>2 DEF Quiet
  <2>3. CASE u # t
    <3>1. Recorded(u)' = Recorded(u)
      BY <2>3 DEF Quiet, Others, OnlyOf, Recorded, Pending
    <3> QED
      BY <2>1, <3>1
  <2> QED
    BY <2>2, <2>3
<1> QED
  BY <1>1, <1>2, <1>3 DEF Follows, Quiet

(* The other threads stay where they are in their hooks.                   *)
LEMMA OtherEvents ==
  ASSUME HookEvents, NEW t \in Threads, Others(t), HookEvent(t)'
  PROVE  HookEvents'
<1> SUFFICES ASSUME NEW u \in Threads PROVE HookEvent(u)'
  BY DEF HookEvents
<1>1. CASE u = t
  BY <1>1
<1>2. CASE u # t
  <2>1. /\ pdepth'[u] = pdepth[u] /\ stack'[u] = stack[u] /\ pc'[u] = pc[u]
        /\ event'[u] = event[u] /\ HookEvent(u)
    BY <1>2 DEF Others, OnlyOf, HookEvents
  <2> QED
    BY <2>1 DEF HookEvent, Pending
<1> QED
  BY <1>1, <1>2

(* Pushing and popping.                                                    *)
LEMMA PushPop ==
  ASSUME NEW S, NEW s \in Seq(S), NEW x \in S
  PROVE  /\ Append(s, x) \in Seq(S) /\ Append(s, x) # <<>>
         /\ Last(Append(s, x)) = x /\ Front(Append(s, x)) = s
<1>1. /\ Append(s, x) \in Seq(S) /\ Len(Append(s, x)) = Len(s) + 1
      /\ SubSeq(Append(s, x), 1, Len(s)) = s /\ Append(s, x)[Len(s) + 1] = x
      /\ Len(s) \in Nat /\ (Len(s) + 1) - 1 = Len(s)
  OBVIOUS
<1> QED
  BY <1>1, AppendIsSeq DEF Front, Last

(* A frame of a hooked function is named.                                  *)
LEMMA HookedFrame ==
  ASSUME NEW x \in Frame, x.hooked
  PROVE  x.fun \in Functions /\ x = CallFrame(x.fun)
BY DEF Frame, CallFrame

(* What the program does between two hooks.                                *)
LEMMA ProgramQuiet ==
  ASSUME IInv, LogTypes, NEW t \in Threads, ProgramStep(t)
  PROVE  /\ Quiet(t) /\ HookEvent(t)' /\ event' \in [Threads -> Event \cup {EndEvent}]
         /\ skewed' \subseteq Threads
         /\ UNCHANGED <<buffer, offset, file>>
         /\ pc[t] = "run" /\ pc'[t] # "reset"
<1>1. /\ pc[t] = "run" /\ log' = log /\ made' = made /\ pdepth' = pdepth
      /\ buffer' = buffer /\ offset' = offset /\ file' = file /\ inited' = inited
  BY DEF ProgramStep, Call, CallUnhooked, CallBack, Return, ReturnUnhooked, Syscall, JumpPast,
         Unwind, Hook, NoHook, ProgramRuns, bufferVars, closeVars
<1>2. /\ stack[t] \in Seq(Frame) /\ pc \in [Threads -> Places] /\ skewed \subseteq Threads
      /\ stack \in [Threads -> Seq(Frame)] /\ event \in [Threads -> Event \cup {EndEvent}]
  BY DEF IInv, Types, LogTypes
<1>3. Recorded(t) = stack[t]
  BY <1>1 DEF Recorded, Pending
<1> DEFINE Kept == /\ Others(t) /\ skewed \subseteq skewed' /\ HookEvent(t)'
                   /\ event' \in [Threads -> Event \cup {EndEvent}] /\ skewed' \subseteq Threads
                   /\ pc'[t] # "reset"
                   /\ t \notin skewed' =>
                        \A calls : Agrees(calls, stack[t]) => Agrees(calls, Recorded(t)')
<1>4. SUFFICES Kept
  BY <1>1, <1>3, <1>4 DEF Quiet
<1> DEFINE Hooks(place, label, f) ==
              /\ pc' = [pc EXCEPT ![t] = place]
              /\ event' = [event EXCEPT ![t] = [label |-> label, tid |-> t, fun |-> f]]
<1>5. CASE Call(t)
  <2>1. PICK f \in Functions : /\ stack' = [stack EXCEPT ![t] = Append(@, CallFrame(f))]
                               /\ Hooks("before", "Call", f) /\ skewed' = skewed
    BY <1>5 DEF Call, Push, Hook, CallFrame
  <2>2. /\ stack'[t] = Append(stack[t], CallFrame(f)) /\ pc'[t] = "before"
        /\ event'[t] = [label |-> "Call", tid |-> t, fun |-> f]
    BY <1>2, <2>1
  <2>3. [label |-> "Call", tid |-> t, fun |-> f] \in Event
    BY DEF Event
  <2>4. /\ stack'[t] # <<>> /\ Last(stack'[t]) = CallFrame(f)
        /\ Front(stack'[t]) = stack[t]
    BY <1>2, <2>2, CountedCall, PushPop
  <2>5. Recorded(t)' = stack[t]
    BY <2>2, <2>4 DEF Recorded, Pending
  <2>6. HookEvent(t)'
    BY <2>2, <2>3, <2>4 DEF HookEvent, Pending
  <2>7. Others(t)
    BY <1>1, <1>2, <2>1 DEF Others, OnlyOf
  <2> QED
    BY <1>2, <2>1, <2>2, <2>3, <2>5, <2>6, <2>7
<1>6. CASE CallUnhooked(t) \/ CallBack(t)
  <2> DEFINE x == [fun |-> NoFunction, hooked |-> FALSE]
  <2>1. /\ stack' = [stack EXCEPT ![t] = Append(@, x)]
        /\ pc' = pc /\ event' = event /\ skewed' = skewed
    BY <1>6 DEF CallUnhooked, CallBack, Push, NoHook
  <2>2. x \in Frame /\ ~x.hooked
    BY DEF Frame
  <2>3. stack'[t] = Append(stack[t], x)
    BY <1>2, <2>1
  <2>4. Recorded(t)' = Append(stack[t], x)
    BY <1>1, <2>1, <2>3 DEF Recorded, Pending
  <2> HIDE DEF x
  <2>5. \A calls : Agrees(calls, stack[t]) => Agrees(calls, Recorded(t)')
    BY <1>2, <2>2, <2>4, AgreesPush
  <2> QED
    BY <1>1, <1>2, <2>1, <2>5 DEF Others, OnlyOf, HookEvent, Pending
<1>7. CASE Return(t)
  <2>1. stack[t] # <<>>
    <3>1. Len(stack[t]) % 2 = 1
      BY <1>7 DEF Return, External
    <3>2. 0 % 2 = 0
      OBVIOUS
    <3> SUFFICES ASSUME Len(stack[t]) = 0 PROVE FALSE
      BY <1>2
    <3>3. 0 % 2 = 1
      BY <3>1
    <3> QED
      BY <3>2, <3>3
  <2> DEFINE f == Last(stack[t]).fun
  <2>2. /\ Last(stack[t]).hooked /\ stack' = [stack EXCEPT ![t] = Front(@)]
        /\ Hooks("after", "Return", f) /\ skewed' = skewed
    BY <1>7 DEF Return, Pop, Hook
  <2>3. /\ Front(stack[t]) \in Seq(Frame) /\ Last(stack[t]) \in Frame
        /\ stack[t] = Append(Front(stack[t]), Last(stack[t]))
    BY <1>2, <2>1, PopType
  <2>4. f \in Functions /\ Last(stack[t]) = CallFrame(f)
    BY <2>2, <2>3, HookedFrame
  <2> HIDE DEF f
  <2>5. /\ stack'[t] = Front(stack[t]) /\ pc'[t] = "after"
        /\ event'[t] = [label |-> "Return", tid |-> t, fun |-> f]
    BY <1>2, <2>2
  <2>6. [label |-> "Return", tid |-> t, fun |-> f] \in Event
    BY <2>4 DEF Event
  <2>7. Recorded(t)' = stack[t]
    BY <2>3, <2>4, <2>5 DEF Recorded, Pending
  <2>8. HookEvent(t)'
    BY <2>5, <2>6 DEF HookEvent, Pending
  <2>9. Others(t)
    BY <1>1, <1>2, <2>2 DEF Others, OnlyOf
  <2> QED
    BY <1>2, <2>2, <2>5, <2>6, <2>7, <2>8, <2>9
<1>8. CASE ReturnUnhooked(t)
  <2>1. /\ stack[t] # <<>> /\ ~Last(stack[t]).hooked
        /\ stack' = [stack EXCEPT ![t] = Front(@)]
        /\ pc' = pc /\ event' = event /\ skewed' = skewed
    BY <1>8 DEF ReturnUnhooked, Pop, NoHook
  <2>2. /\ Front(stack[t]) \in Seq(Frame) /\ Last(stack[t]) \in Frame
        /\ stack[t] = Append(Front(stack[t]), Last(stack[t]))
    BY <1>2, <2>1, PopType
  <2>3. Recorded(t)' = Front(stack[t])
    BY <1>1, <1>2, <2>1 DEF Recorded, Pending
  <2>4. \A calls : Agrees(calls, stack[t]) => Agrees(calls, Recorded(t)')
    BY <2>1, <2>2, <2>3, AgreesPush
  <2> QED
    BY <1>1, <1>2, <2>1, <2>4 DEF Others, OnlyOf, HookEvent, Pending
<1>9. CASE Syscall(t)
  <2>1. /\ stack' = stack /\ Hooks("syscall", "Syscall", NoFunction) /\ skewed' = skewed
    BY <1>9 DEF Syscall, Hook
  <2>2. [label |-> "Syscall", tid |-> t, fun |-> NoFunction] \in Event
    BY DEF Event
  <2>3. pc'[t] = "syscall" /\ event'[t] = [label |-> "Syscall", tid |-> t, fun |-> NoFunction]
    BY <1>2, <2>1
  <2>4. Recorded(t)' = stack[t]
    BY <2>1, <2>3 DEF Recorded, Pending
  <2>5. HookEvent(t)'
    BY <2>2, <2>3 DEF HookEvent, Pending
  <2> QED
    BY <1>1, <1>2, <2>1, <2>2, <2>3, <2>4, <2>5 DEF Others, OnlyOf
<1>10. CASE JumpPast(t)
  <2>1. PICK f \in Functions : /\ stack' = stack /\ Hooks("after", "Return", f)
                               /\ skewed' = skewed \cup {t}
    BY <1>10 DEF JumpPast, Hook
  <2>2. [label |-> "Return", tid |-> t, fun |-> f] \in Event
    BY DEF Event
  <2>3. pc'[t] = "after" /\ event'[t] = [label |-> "Return", tid |-> t, fun |-> f]
    BY <1>2, <2>1
  <2>4. HookEvent(t)'
    BY <2>2, <2>3 DEF HookEvent, Pending
  <2> QED
    BY <1>1, <1>2, <2>1, <2>2, <2>3, <2>4 DEF Others, OnlyOf
<1>11. CASE Unwind(t)
  <2>1. PICK n \in 0 .. Len(stack[t]) - 1 :
          /\ stack' = [stack EXCEPT ![t] = SubSeq(@, 1, n)] /\ pc' = pc /\ event' = event
          /\ skewed' = skewed \cup
                {u \in {t} : \E i \in n + 1 .. Len(stack[t]) : stack[t][i].hooked}
    BY <1>11 DEF Unwind, NoHook
  <2>2. Recorded(t)' = SubSeq(stack[t], 1, n)
    BY <1>1, <1>2, <2>1 DEF Recorded, Pending
  <2>3. t \notin skewed' => \A i \in n + 1 .. Len(stack[t]) : ~stack[t][i].hooked
    BY <2>1
  <2>4. t \notin skewed' =>
           \A calls : Agrees(calls, stack[t]) => Agrees(calls, Recorded(t)')
    BY <1>2, <2>2, <2>3, OuterUnwind DEF Agrees
  <2> QED
    BY <1>1, <1>2, <2>1, <2>4 DEF Others, OnlyOf, HookEvent, Pending
<1> QED
  BY <1>5, <1>6, <1>7, <1>8, <1>9, <1>10, <1>11 DEF ProgramStep

-----------------------------------------------------------------------------
(* The hooks.                                                              *)

(* While the hooks of a thread are paired its counter tells whether the    *)
(* call that is recorded is the outermost one.                             *)
LEMMA CounterTells ==
  ASSUME IInv, NEW t \in Threads \ skewed
  PROVE  /\ pdepth[t] = OpenCalls(stack[t], pc[t])
         /\ stack[t] \in Seq(Frame) /\ Cardinality(Hooked(stack[t])) \in Nat
         /\ Hooked(stack[t]) = {} <=> Cardinality(Hooked(stack[t])) = 0
BY DepthOpen, HookedFinite, FS_EmptySet DEF IInv, Types

(* The call that is recorded is on top of those that have been.            *)
LEMMA PendingCall ==
  ASSUME IInv, HookEvents, NEW t \in Threads, Pending(t, "Call")
  PROVE  /\ event[t].fun \in Functions /\ Recorded(t) \in Seq(Frame)
         /\ stack[t] = Append(Recorded(t), CallFrame(event[t].fun))
<1>1. /\ stack[t] # <<>> /\ Last(stack[t]) = CallFrame(event[t].fun) /\ event[t] \in Event
      /\ event[t].label = "Call" /\ stack[t] \in Seq(Frame)
  BY DEF HookEvents, HookEvent, Pending, IInv, Types
<1>2. Recorded(t) = Front(stack[t])
  BY DEF Recorded
<1> QED
  BY <1>1, <1>2, PopType DEF Event

(* BeforeCall, AfterCall and SyscallEntry before they append, and the      *)
(* steps of Append and Unlock that append nothing.                         *)
LEMMA HookQuiet ==
  ASSUME IInv, IInv', LogTypes, HookEvents, NEW t \in Threads,
         (HookStep(t) \/ HoldsLock(t)) /\ ~Copy(t)
  PROVE  /\ Quiet(t) /\ HookEvent(t)' /\ event' \in [Threads -> Event \cup {EndEvent}]
         /\ skewed' = skewed
<1>1. /\ stack[t] \in Seq(Frame) /\ pc \in [Threads -> Places]
      /\ stack' = stack /\ skewed' = skewed /\ log' = log /\ inited' = inited
      /\ pdepth \in [Threads -> Int] /\ event \in [Threads -> Event \cup {EndEvent}]
      /\ HookEvent(t)
  BY DEF IInv, Types, LogTypes, HookEvents, HookStep, HoldsLock, BeforeCall, AfterCall, NotCounted,
         SyscallEntry, WriteLength, WriteData, WriteTrailer, Flushes, Reset, Copy, Unlock,
         programVars, bufferVars, closeVars
<1> DEFINE Kept == /\ Others(t) /\ made' = made /\ HookEvent(t)'
                   /\ event' \in [Threads -> Event \cup {EndEvent}]
                   /\ t \notin skewed =>
                        \A calls : Agrees(calls, Recorded(t)) => Agrees(calls, Recorded(t)')
<1>2. SUFFICES Kept
  BY <1>1, <1>2 DEF Quiet
<1>3. CASE BeforeCall(t)
  <2>1. /\ pc[t] = "before" /\ pc' = [pc EXCEPT ![t] = IF pdepth'[t] = 1 THEN "append" ELSE "unlock"]
        /\ pdepth' = [pdepth EXCEPT ![t] = @ + 1] /\ event' = event /\ made' = made
    BY <1>3 DEF BeforeCall
  <2>2. Pending(t, "Call") /\ event[t].label = "Call"
    BY <1>1, <2>1 DEF Pending, HookEvent
  <2>3. CASE pdepth'[t] = 1
    <3>1. pc'[t] = "append" /\ Pending(t, "Call")'
      BY <1>1, <2>1, <2>2, <2>3 DEF Pending
    <3>2. Recorded(t)' = Recorded(t)
      BY <1>1, <2>2, <3>1 DEF Recorded
    <3>3. HookEvent(t)'
      BY <1>1, <2>1, <2>2, <2>3, <3>1 DEF HookEvent, Pending
    <3> QED
      BY <1>1, <2>1, <3>2, <3>3 DEF Others, OnlyOf
  <2>4. CASE pdepth'[t] # 1
    <3>1. pc'[t] = "unlock" /\ Recorded(t)' = stack[t]
      BY <1>1, <2>1, <2>4 DEF Recorded, Pending
    <3>2. /\ event[t].fun \in Functions /\ Recorded(t) \in Seq(Frame)
          /\ stack[t] = Append(Recorded(t), CallFrame(event[t].fun))
      BY <2>2, PendingCall
    <3>3. ASSUME t \notin skewed, NEW calls, Agrees(calls, Recorded(t))
          PROVE  Agrees(calls, stack[t])
      <4>1. pdepth'[t] = Cardinality(Hooked(stack[t]))
        <5>1. pdepth'[t] = OpenCalls(stack[t], "unlock")
          BY <1>1, <3>1, <3>3, SMTT(30) DEF IInv, DepthCounts, OpenCalls, HookedFrames, Hooked
        <5> QED
          BY <1>1, <5>1, HookedFinite DEF OpenCalls
      <4>2. Hooked(Recorded(t)) # {}
        BY <2>4, <3>2, <4>1, CountedCall
      <4> QED
        BY <3>2, <3>3, <4>2, CountedCall, AgreesPush
    <3>4. HookEvent(t)'
      BY <1>1, <2>1, <3>1 DEF HookEvent, Pending
    <3> QED
      BY <1>1, <2>1, <3>1, <3>3, <3>4 DEF Others, OnlyOf
  <2> QED
    BY <2>3, <2>4
<1>4. CASE AfterCall(t)
  <2>1. /\ pc[t] = "after" /\ pc' = [pc EXCEPT ![t] = IF pdepth'[t] = 0 THEN "append" ELSE "unlock"]
        /\ pdepth' = [pdepth EXCEPT ![t] = @ - 1] /\ event' = event /\ made' = made
    BY <1>4 DEF AfterCall
  <2>2. /\ event[t].label = "Return" /\ event[t] \in Event
        /\ Recorded(t) = Append(stack[t], CallFrame(event[t].fun))
    BY <1>1, <2>1 DEF Pending, HookEvent, Recorded
  <2>3. CASE pdepth'[t] = 0
    <3>1. pc'[t] = "append" /\ Recorded(t)' = Append(stack[t], CallFrame(event[t].fun))
      BY <1>1, <2>1, <2>2, <2>3 DEF Recorded, Pending
    <3>2. HookEvent(t)'
      BY <1>1, <2>1, <2>2, <2>3, <3>1 DEF HookEvent, Pending
    <3> QED
      BY <1>1, <2>1, <2>2, <3>1, <3>2 DEF Others, OnlyOf
  <2>4. CASE pdepth'[t] # 0
    <3>1. pc'[t] = "unlock" /\ Recorded(t)' = stack[t]
      BY <1>1, <2>1, <2>4 DEF Recorded, Pending
    <3>2. event[t].fun \in Functions
      BY <2>2 DEF Event
    <3>3. ASSUME t \notin skewed, NEW calls, Agrees(calls, Recorded(t))
          PROVE  Agrees(calls, stack[t])
      <4>1. pdepth'[t] = Cardinality(Hooked(stack[t]))
        <5>1. pdepth'[t] = OpenCalls(stack[t], "unlock")
          BY <1>1, <3>1, <3>3, SMTT(30) DEF IInv, DepthCounts, OpenCalls, HookedFrames, Hooked
        <5> QED
          BY <1>1, <5>1, HookedFinite DEF OpenCalls
      <4>2. Hooked(stack[t]) # {}
        BY <1>1, <2>4, <3>2, <4>1, CountedCall
      <4>3. stack[t] \in Seq(Frame) /\ CallFrame(event[t].fun) \in Frame
        BY <1>1, <3>2, CountedCall
      <4>4. Agrees(calls, Append(stack[t], CallFrame(event[t].fun))) <=> Agrees(calls, stack[t])
        BY <4>2, <4>3, AgreesPush
      <4> QED
        BY <2>2, <3>3, <4>4
    <3>4. HookEvent(t)'
      BY <1>1, <2>1, <2>2, <3>1 DEF HookEvent, Pending
    <3> QED
      BY <1>1, <2>1, <3>1, <3>3, <3>4 DEF Others, OnlyOf
  <2> QED
    BY <2>3, <2>4
<1>5. CASE SyscallEntry(t)
  <2>1. /\ pc[t] = "syscall" /\ pdepth[t] # 0 /\ pc' = [pc EXCEPT ![t] = "append"]
        /\ pdepth' = pdepth /\ event' = event /\ made' = made
    BY <1>5 DEF SyscallEntry
  <2>2. event[t].label = "Syscall" /\ pc'[t] = "append"
    BY <1>1, <2>1 DEF HookEvent
  <2>3. Recorded(t)' = Recorded(t) /\ HookEvent(t)'
    BY <1>1, <2>1, <2>2 DEF Recorded, Pending, HookEvent
  <2> QED
    BY <1>1, <2>1, <2>3 DEF Others, OnlyOf
<1>6. CASE NotCounted(t) \/ Unlock(t)
  <2>1. /\ pc' = [pc EXCEPT ![t] = "run"] /\ event' = [event EXCEPT ![t] = EndEvent]
        /\ pdepth' = pdepth /\ pc[t] \in {"syscall", "unlock"}
        /\ pc[t] = "syscall" => pdepth[t] = 0
    BY <1>6 DEF NotCounted, Unlock, LeaveHook
  <2>2. pc'[t] = "run" /\ Recorded(t)' = stack[t]
    BY <1>1, <2>1 DEF Recorded, Pending
  <2>3. Recorded(t) = stack[t]
    BY <1>1, <2>1 DEF Recorded, Pending, HookEvent
  <2>4. made' = made
    <3>1. CASE Unlock(t)
      BY <3>1 DEF Unlock
    <3>2. CASE NotCounted(t) /\ t \in skewed
      BY <3>2 DEF NotCounted, Made
    <3>3. CASE NotCounted(t) /\ t \notin skewed
      <4>1. pc[t] = "syscall" /\ pdepth[t] = 0
        BY <3>3 DEF NotCounted
      <4>2. Hooked(stack[t]) = {}
        <5>1. pdepth[t] = OpenCalls(stack[t], "syscall")
          BY <3>3, <4>1, CounterTells
        <5>2. Cardinality(Hooked(stack[t])) = 0
          BY <1>1, <4>1, <5>1, HookedFinite DEF OpenCalls
        <5> QED
          BY <3>3, <5>2, CounterTells
      <4>3. HookedFrames(t) = {}
        BY <4>2 DEF HookedFrames, Hooked
      <4>4. Outermost(t) = {}
        BY <4>3 DEF Outermost
      <4> QED
        BY <3>3, <4>4 DEF NotCounted, Made
    <3> QED
      BY <1>6, <3>1, <3>2, <3>3
  <2>5. HookEvent(t)'
    BY <2>2 DEF HookEvent, Pending
  <2> QED
    BY <1>1, <2>1, <2>2, <2>3, <2>4, <2>5 DEF Others, OnlyOf
<1>7. CASE WriteLength(t) \/ WriteData(t) \/ WriteTrailer(t) \/ Reset(t)
  <2>1. /\ pc[t] \in {"append", "data", "trailer", "reset"}
        /\ pdepth' = pdepth /\ event' = event /\ made' = made
        /\ \E place \in {"append", "data", "trailer", "reset"} : pc' = [pc EXCEPT ![t] = place]
    BY <1>7 DEF WriteLength, WriteData, WriteTrailer, Flushes, Reset
  <2>2. pc'[t] \in {"append", "data", "trailer", "reset"}
    BY <1>1, <2>1
  <2>3. Recorded(t)' = Recorded(t) /\ HookEvent(t)'
    BY <1>1, <2>1, <2>2 DEF Recorded, Pending, HookEvent
  <2> QED
    BY <1>1, <2>1, <2>3 DEF Others, OnlyOf
<1> QED
  BY <1>3, <1>4, <1>5, <1>6, <1>7 DEF HookStep, HoldsLock

(* The copy of an event: a call that is recorded is the first one on the   *)
(* stack, a return leaves none, and a system call has one.                 *)
LEMMA CopyFollows ==
  ASSUME IInv, LogTypes, HookEvents, Attributed, NEW t \in Threads, Copy(t), inited
  PROVE  Attributed' /\ HookEvent(t)' /\ Others(t) /\ made' \subseteq Functions
<1> DEFINE e == event[t]
           s == stack[t]
           r == ReadTrace(log)
           q == ReadEvent(r, e)
<1>1. /\ pc[t] = "append" /\ pc' = [pc EXCEPT ![t] = "unlock"] /\ inited' = inited
      /\ stack' = stack /\ skewed' = skewed /\ pdepth' = pdepth /\ event' = event
      /\ log' = Append(log, e) /\ Made(t)
  BY DEF Copy, programVars, closeVars
<1>2. /\ s \in Seq(Frame) /\ pc \in [Threads -> Places] /\ HookEvent(t)
      /\ e \in Event /\ e.tid = t /\ log \in Seq(Event) /\ made \subseteq Functions
  BY <1>1 DEF IInv, Types, LogTypes, HookEvents, HookEvent
<1>3. r \in Reader /\ Follows(r) /\ ~r.ended
  <2>1. log \in Seq(Event \cup {EndEvent})
    BY DEF LogTypes
  <2> QED
    BY <2>1, ReadType DEF Attributed, Follows
<1>4. ReadTrace(log') = q
  BY <1>1, <1>2, ReadTraceAppend
<1>5. Others(t) /\ pc'[t] = "unlock" /\ Recorded(t)' = s
  BY <1>1, <1>2 DEF Others, OnlyOf, Recorded, Pending
<1>6. HookEvent(t)'
  BY <1>1, <1>2, <1>5 DEF HookEvent, Pending
<1> HIDE DEF e, s, r, q
<1>7. /\ ~q.ended /\ \A u \in Threads \ {t} : q.fun_stack[u] = r.fun_stack[u]
      /\ e.label = "Call" => q.fun_stack[t] = Append(r.fun_stack[t], e.fun)
      /\ e.label = "Return" => q.fun_stack[t] = PopTo(r.fun_stack[t], e.fun)
      /\ e.label = "Syscall" => q.fun_stack[t] = r.fun_stack[t]
      /\ q.impactful_fun_call = r.impactful_fun_call \cup
            IF e.label = "Syscall" /\ r.fun_stack[t] # <<>> THEN {Last(r.fun_stack[t])} ELSE {}
  BY <1>2, <1>3, ReadOne DEF q
<1>8. ASSUME NEW u \in Threads \ skewed, u # t
      PROVE  Agrees(q.fun_stack[u], Recorded(u)')
  <2>1. Agrees(r.fun_stack[u], Recorded(u))
    BY <1>3, <1>8 DEF Follows
  <2>2. Recorded(u)' = Recorded(u)
    BY <1>1, <1>5, <1>8 DEF Others, OnlyOf, Recorded, Pending
  <2> QED
    BY <1>7, <1>8, <2>1, <2>2
<1>9. ASSUME t \notin skewed
      PROVE  /\ Agrees(q.fun_stack[t], s)
             /\ e.label = "Syscall" => \E f \in Functions : /\ r.fun_stack[t] = <<f>>
                                                            /\ Outermost(t) = {f}
  <2>1. /\ pdepth[t] = Cardinality(Hooked(s)) /\ Cardinality(Hooked(s)) \in Nat
        /\ Hooked(s) = {} <=> Cardinality(Hooked(s)) = 0
    <3>1. /\ pdepth[t] = OpenCalls(s, "append") /\ Cardinality(Hooked(s)) \in Nat
          /\ Hooked(s) = {} <=> Cardinality(Hooked(s)) = 0
      BY <1>1, <1>9, CounterTells DEF s
    <3> QED
      BY <3>1 DEF OpenCalls
  <2>2. Agrees(r.fun_stack[t], Recorded(t))
    BY <1>3, <1>9 DEF Follows
  <2>3. CASE e.label = "Call"
    <3>1. Pending(t, "Call") /\ pdepth[t] = 1
      BY <1>1, <1>2, <2>3 DEF Pending, HookEvent, e
    <3>2. /\ e.fun \in Functions /\ Recorded(t) \in Seq(Frame)
          /\ s = Append(Recorded(t), CallFrame(e.fun))
      BY <3>1, PendingCall DEF e, s
    <3>3. Hooked(Recorded(t)) = {}
      <4> DEFINE d == Recorded(t)
                 n == Cardinality(Hooked(d))
      <4>1. Cardinality(Hooked(s)) = n + 1 /\ n \in Nat /\ (n = 0 <=> Hooked(d) = {})
        BY <3>2, CountedCall
      <4>2. n + 1 = 1
        BY <2>1, <3>1, <4>1
      <4> HIDE DEF n
      <4>3. n = 0
        BY <4>1, <4>2
      <4> QED
        BY <4>1, <4>3
    <3>4. r.fun_stack[t] = <<>>
      BY <2>2, <3>3 DEF Agrees
    <3>5. q.fun_stack[t] = <<e.fun>>
      BY <1>7, <2>3, <3>4
    <3>6. Outer(s) = {e.fun} /\ Hooked(s) # {}
      BY <3>2, <3>3, OuterFirst
    <3> QED
      BY <2>3, <3>2, <3>5, <3>6 DEF Agrees
  <2>4. CASE e.label = "Return"
    <3>1. pdepth[t] = 0 /\ e.fun \in Functions
      BY <1>1, <1>2, <2>4 DEF HookEvent, Event, e
    <3>2. Recorded(t) = Append(s, CallFrame(e.fun))
      BY <1>1, <2>4 DEF Recorded, Pending, e, s
    <3>3. Hooked(s) = {}
      BY <2>1, <3>1
    <3>4. r.fun_stack[t] = <<e.fun>>
      <4>1. Outer(Recorded(t)) = {e.fun} /\ Hooked(Recorded(t)) # {}
        BY <1>2, <3>1, <3>2, <3>3, OuterFirst
      <4> QED
        BY <2>2, <4>1 DEF Agrees
    <3>5. q.fun_stack[t] = <<>>
      BY <1>7, <2>4, <3>1, <3>4, PopOutermost
    <3> QED
      BY <2>4, <3>3, <3>5 DEF Agrees
  <2>5. CASE e.label = "Syscall"
    <3>1. pdepth[t] # 0
      BY <1>1, <1>2, <2>5 DEF HookEvent, e
    <3>2. Recorded(t) = s
      BY <2>5 DEF Recorded, Pending, e, s
    <3>3. PICK f \in Functions : r.fun_stack[t] = <<f>> /\ Outer(s) = {f}
      BY <2>1, <2>2, <3>1, <3>2 DEF Agrees
    <3>4. Outermost(t) = Outer(s)
      BY DEF Outermost, Outer, First, HookedFrames, Hooked, s
    <3> QED
      BY <1>7, <2>2, <2>5, <3>2, <3>3, <3>4
  <2> QED
    BY <1>2, <2>3, <2>4, <2>5 DEF Event
<1>10. /\ made' \subseteq Functions /\ made' \subseteq q.impactful_fun_call
       /\ skewed' = {} => q.impactful_fun_call \subseteq made'
  <2>1. /\ made \subseteq r.impactful_fun_call
        /\ skewed = {} => r.impactful_fun_call \subseteq made
    BY <1>3 DEF Follows
  <2>2. CASE t \in skewed \/ e.label # "Syscall"
    <3>1. made' = made
      BY <1>1, <2>2 DEF Made, e
    <3>2. r.impactful_fun_call \subseteq q.impactful_fun_call
      BY <1>7
    <3>3. e.label # "Syscall" => q.impactful_fun_call = r.impactful_fun_call
      BY <1>7
    <3> QED
      BY <1>1, <1>2, <2>1, <2>2, <3>1, <3>2, <3>3
  <2>3. CASE t \notin skewed /\ e.label = "Syscall"
    <3>1. PICK f \in Functions : r.fun_stack[t] = <<f>> /\ Outermost(t) = {f}
      BY <1>9, <2>3
    <3>2. made' = made \cup {f}
      BY <1>1, <2>3, <3>1 DEF Made, e
    <3>3. q.impactful_fun_call = r.impactful_fun_call \cup {f}
      <4>1. <<f>> # <<>> /\ Last(<<f>>) = f
        BY DEF Last
      <4> QED
        BY <1>7, <2>3, <3>1, <4>1
    <3> QED
      BY <1>1, <1>2, <2>1, <3>2, <3>3
  <2> QED
    BY <2>2, <2>3
<1>11. Attributed'
  BY <1>1, <1>4, <1>5, <1>7, <1>8, <1>9, <1>10 DEF Attributed, Follows
<1> QED
  BY <1>5, <1>6, <1>10, <1>11

-----------------------------------------------------------------------------
(* The buffer and the file.                                                *)

(* A thread that writes or resets a block is alone in Append.              *)
LEMMA Alone ==
  ASSUME OneHook, NEW t \in Threads, Inside(t)
  PROVE  \A u \in Threads \ {t} : ~Inside(u)
BY DEF OneHook, Inside

(* The steps of Append keep the file and the buffer equal to the log.      *)
LEMMA AppendStored ==
  ASSUME IInv, LogTypes, HookEvents, Stored, NEW t \in Threads,
         WriteLength(t) \/ WriteData(t) \/ WriteTrailer(t) \/ Reset(t) \/ Copy(t)
  PROVE  /\ Stored' /\ buffer' \in Seq(Event) /\ offset' = Bytes(buffer') /\ offset' <= BlockSize
         /\ file' \in Seq(Seq(Event \cup {EndEvent}))
         /\ inited => log' \in Seq(Event)
         /\ log' \in Seq(Event \cup {EndEvent})
<1> DEFINE E == Event \cup {EndEvent}
           flat == FlattenSeq(file)
<1>1. /\ buffer \in Seq(Event) /\ buffer \in Seq(E) /\ file \in Seq(Seq(E)) /\ log \in Seq(E)
      /\ inited => log \in Seq(Event)
      /\ offset = Bytes(buffer) /\ offset <= BlockSize /\ flat \in Seq(E)
      /\ pc \in [Threads -> Places]
  BY FlattenType DEF LogTypes, IInv, Types
<1>2. pc[t] \in {"append", "data", "trailer", "reset"} /\ inited' = inited
  BY DEF WriteLength, WriteData, WriteTrailer, Flushes, Reset, Copy, closeVars
<1>3. \A u \in Threads \ {t} : pc[u] # "reset" /\ pc'[u] = pc[u]
  <2>1. \A u \in Threads \ {t} : pc[u] # "reset"
    BY <1>2, Alone DEF IInv, Inside
  <2> QED
    BY <1>1, <2>1 DEF WriteLength, WriteData, WriteTrailer, Flushes, Reset, Copy
<1>4. /\ NobodyResets <=> pc[t] # "reset"
      /\ NobodyResets' <=> pc'[t] # "reset"
  BY <1>3 DEF NobodyResets
<1>5. Stored <=> (inited => log = flat \o IF pc[t] # "reset" THEN buffer ELSE <<>>)
  BY <1>4 DEF Stored, Written
<1>6. SUFFICES /\ inited => log' = FlattenSeq(file') \o IF pc'[t] # "reset" THEN buffer' ELSE <<>>
               /\ buffer' \in Seq(Event) /\ offset' = Bytes(buffer') /\ offset' <= BlockSize
               /\ file' \in Seq(Seq(E)) /\ log' \in Seq(E)
               /\ inited => log' \in Seq(Event)
  BY <1>2, <1>4, <1>6 DEF Stored, Written
<1>a. CASE WriteLength(t) \/ WriteData(t)
  <2>1. /\ pc[t] # "reset" /\ pc'[t] # "reset" /\ file' = file
        /\ buffer' = buffer /\ offset' = offset /\ log' = log
    BY <1>1, <1>a DEF WriteLength, WriteData, Flushes
  <2> QED
    BY <1>1, <1>5, <2>1
<1>7. CASE WriteTrailer(t)
  <2>1. /\ pc[t] # "reset" /\ pc'[t] = "reset" /\ file' = Append(file, buffer)
        /\ buffer' = buffer /\ offset' = offset /\ log' = log
    BY <1>1, <1>7 DEF WriteTrailer, Flushes
  <2>2. FlattenSeq(Append(file, buffer)) = flat \o buffer
    <3> HIDE DEF E
    <3> QED
      BY <1>1, FlattenAppend
  <2>3. (flat \o buffer) \o <<>> = flat \o buffer
    <3> HIDE DEF E, flat
    <3> QED
      BY <1>1
  <2>4. Append(file, buffer) \in Seq(Seq(E))
    <3> HIDE DEF E
    <3> QED
      BY <1>1
  <2> QED
    BY <1>1, <1>5, <2>1, <2>2, <2>3, <2>4
<1>8. CASE Reset(t)
  <2>1. /\ pc[t] = "reset" /\ pc'[t] # "reset" /\ buffer' = <<>> /\ offset' = 0
        /\ file' = file /\ log' = log
    BY <1>1, <1>8 DEF Reset, Flushes
  <2>2. Bytes(<<>>) = 0 /\ <<>> \in Seq(Event) /\ 0 <= BlockSize
    BY BytesEmpty, FitsAssumption
  <2> QED
    BY <1>1, <1>5, <2>1, <2>2
<1>9. CASE Copy(t)
  <2> DEFINE e == event[t]
  <2>1. /\ pc[t] = "append" /\ pc'[t] # "reset" /\ buffer' = Append(buffer, e)
        /\ offset' = offset + Length(e) /\ offset + Length(e) <= BlockSize
        /\ file' = file /\ log' = Append(log, e)
    BY <1>1, <1>9 DEF Copy, Fits
  <2>2. e \in Event
    BY <2>1 DEF HookEvents, HookEvent
  <2> HIDE DEF e
  <2>3. Bytes(Append(buffer, e)) = Bytes(buffer) + Length(e)
    BY <1>1, <2>2, BytesAppend
  <2>4. Append(flat \o buffer, e) = flat \o Append(buffer, e)
    <3>1. flat \in Seq(E) /\ buffer \in Seq(E) /\ e \in E
      BY <1>1, <2>2
    <3> HIDE DEF E, flat
    <3> QED
      BY <3>1
  <2>5. /\ Append(buffer, e) \in Seq(Event) /\ Append(log, e) \in Seq(E)
        /\ inited => Append(log, e) \in Seq(Event)
    BY <1>1, <2>2
  <2> QED
    BY <1>1, <1>5, <2>1, <2>3, <2>4, <2>5
<1> QED
  BY <1>a, <1>7, <1>8, <1>9

(* A close writes what is in the buffer, and the end event behind it.      *)
LEMMA CloseWrites ==
  ASSUME LogTypes, CloseBufferFile
  PROVE  /\ FlattenSeq(file') = FlattenSeq(file) \o Append(buffer, EndEvent)
         /\ file' \in Seq(Seq(Event \cup {EndEvent}))
<1> DEFINE E == Event \cup {EndEvent}
           last == <<EndEvent>>
<1>1. /\ file \in Seq(Seq(E)) /\ buffer \in Seq(E) /\ EndEvent \in E
  BY DEF LogTypes
<1> HIDE DEF E
<1>2. /\ last \in Seq(E) /\ Append(buffer, EndEvent) \in Seq(E)
      /\ Append(buffer, EndEvent) = buffer \o last
  BY <1>1
<1>3. CASE Fits(EndEvent)
  <2>1. file' = file \o <<Append(buffer, EndEvent)>>
    BY <1>3 DEF CloseBufferFile
  <2> DEFINE block == Append(buffer, EndEvent)
  <2>2. block \in Seq(E)
    BY <1>2
  <2> HIDE DEF block
  <2>3. file \o <<block>> = Append(file, block) /\ Append(file, block) \in Seq(Seq(E))
    BY <1>1, <2>2
  <2>4. FlattenSeq(Append(file, block)) = FlattenSeq(file) \o block
    BY <1>1, <2>2, FlattenAppend
  <2> QED
    BY <2>1, <2>3, <2>4 DEF block, E
<1>4. CASE ~Fits(EndEvent)
  <2>1. file' = file \o <<buffer, last>>
    BY <1>4 DEF CloseBufferFile
  <2> HIDE DEF last
  <2> DEFINE longer == Append(file, buffer)
             flat == FlattenSeq(file)
  <2>2. longer \in Seq(Seq(E)) /\ file \o <<buffer, last>> = Append(longer, last)
    BY <1>1, <1>2
  <2>3. FlattenSeq(longer) = flat \o buffer /\ flat \in Seq(E)
    BY <1>1, FlattenAppend, FlattenType
  <2> HIDE DEF longer, flat
  <2>4. FlattenSeq(Append(longer, last)) = FlattenSeq(longer) \o last
    BY <1>2, <2>2, FlattenAppend
  <2>5. (flat \o buffer) \o last = flat \o (buffer \o last)
    BY <1>1, <1>2, <2>3
  <2>6. Append(longer, last) \in Seq(Seq(E))
    BY <1>2, <2>2
  <2> QED
    BY <1>2, <2>1, <2>2, <2>3, <2>4, <2>5, <2>6 DEF flat, E
<1> QED
  BY <1>3, <1>4

-----------------------------------------------------------------------------
(* The specification.                                                      *)

(* Nothing has been recorded when the program starts.                      *)
LEMMA InitLog == PinInit => LogInv
<1> SUFFICES ASSUME PinInit PROVE LogInv
  OBVIOUS
<1>1. LogTypes
  <2>1. <<>> \in Seq(Event) /\ <<>> \in Seq(Event \cup {EndEvent}) /\ 0 <= BlockSize
    BY FitsAssumption
  <2>2. file \in Seq(Seq(Event \cup {EndEvent}))
    BY DEF PinInit
  <2> QED
    BY <2>1, <2>2, BytesEmpty DEF PinInit, LogTypes
<1>2. HookEvents
  BY DEF PinInit, HookEvents, HookEvent, Pending
<1>3. Stored
  <2>1. <<>> \o <<>> = <<>>
    OBVIOUS
  <2> QED
    BY <2>1, FlattenEmpty DEF PinInit, Stored, Written
<1>4. Attributed
  <2>1. \A t \in Threads : Recorded(t) = <<>>
    BY DEF PinInit, Recorded, Pending
  <2>2. Hooked(<<>>) = {}
    BY DEF Hooked
  <2>3. ReadTrace(log) = NothingRead
    BY ReadTraceEmpty DEF PinInit
  <2> QED
    BY <2>1, <2>2, <2>3 DEF PinInit, Attributed, Follows, Agrees, NothingRead
<1>5. Reported
  BY DEF PinInit, Reported, NoneMissed, OnlyImpactful
<1> QED
  BY <1>1, <1>2, <1>3, <1>4, <1>5 DEF LogInv

(* A step that touches no block, and is no write or reset of one, leaves   *)
(* the file and the buffer equal to the log.                               *)
LEMMA SameStored ==
  ASSUME Stored, Types, NEW t \in Threads, OnlyOf(t), pc[t] # "reset", pc'[t] # "reset",
         buffer' = buffer, file' = file, log' = log, inited' = inited
  PROVE  Stored'
<1>1. NobodyResets' <=> NobodyResets
  BY DEF NobodyResets, OnlyOf
<1> QED
  BY <1>1 DEF Stored, Written

(* The close, at any point of the hooks.                                   *)
LEMMA CloseReports ==
  ASSUME LogInv, inited, CloseBufferFile
  PROVE  LogInv'
<1> DEFINE E == Event \cup {EndEvent}
           r == ReadTrace(log)
           flat == FlattenSeq(file)
           flat2 == FlattenSeq(file')
<1>1. /\ inited /\ ~inited' /\ inited' = FALSE /\ log' = Append(log, EndEvent)
      /\ pc' = pc /\ event' = event /\ stack' = stack /\ pdepth' = pdepth /\ buffer' = buffer
      /\ offset' = offset /\ skewed' = skewed /\ made' = made
  BY DEF CloseBufferFile, programVars
<1>2. /\ log \in Seq(E) /\ buffer \in Seq(E) /\ flat \in Seq(E) /\ EndEvent \in E
  BY FlattenType DEF LogInv, LogTypes
<1>3. flat2 = flat \o Append(buffer, EndEvent) /\ file' \in Seq(Seq(E))
  BY CloseWrites DEF LogInv
<1>4. r \in Reader /\ Follows(r)
  BY <1>1, <1>2, ReadType DEF LogInv, Attributed
<1> DEFINE named == ReadTrace(flat2).impactful_fun_call
<1>5. ImpactfulFunCall' = named /\ log = flat \o IF NobodyResets THEN buffer ELSE <<>>
  BY <1>1 DEF ImpactfulFunCall, LogInv, Stored, Written
<1>6. /\ NobodyResets => flat2 = Append(log, EndEvent)
      /\ ~NobodyResets => flat2 = log \o Append(buffer, EndEvent)
  <2> HIDE DEF E, flat, flat2
  <2>1. flat \o Append(buffer, EndEvent) = Append(flat \o buffer, EndEvent)
    BY <1>2
  <2>2. flat \o <<>> = flat
    BY <1>2
  <2> QED
    BY <1>3, <1>5, <2>1, <2>2
<1>7. ReadTrace(Append(log, EndEvent)).impactful_fun_call = r.impactful_fun_call
  <2>1. ReadTrace(Append(log, EndEvent)) = ReadEvent(r, EndEvent)
    <3> HIDE DEF E
    <3> QED
      BY <1>2, ReadTraceAppend
  <2> QED
    BY <1>4, <2>1, ReadEnd
<1>8. r.impactful_fun_call \subseteq named
  <2>1. CASE NobodyResets
    BY <1>6, <1>7, <2>1
  <2>2. CASE ~NobodyResets
    <3>1. Append(buffer, EndEvent) \in Seq(E)
      BY <1>2
    <3> QED
      BY <1>2, <1>6, <2>2, <3>1, ReadGrows
  <2> QED
    BY <2>1, <2>2
<1>9. /\ NobodyFlushes' <=> NobodyFlushes
      /\ NobodyFlushes => NobodyResets
  BY <1>1 DEF NobodyFlushes, NobodyWrites, NobodyResets
<1>10. NoneMissed' /\ OnlyImpactful'
  <2>1. /\ made \subseteq r.impactful_fun_call
        /\ skewed = {} => r.impactful_fun_call \subseteq made
    BY <1>4 DEF Follows
  <2>2. NobodyResets => named = r.impactful_fun_call
    BY <1>6, <1>7
  <2> HIDE DEF named, r
  <2> QED
    BY <1>1, <1>5, <1>8, <1>9, <2>1, <2>2 DEF NoneMissed, OnlyImpactful
<1>11. WholeLog'
  <2>1. Append(log, EndEvent) \o <<>> = Append(log, EndEvent)
    BY <1>2
  <2> QED
    BY <1>1, <1>6, <1>9, <2>1 DEF WholeLog
<1>12. LogTypes'
  <2>1. Append(log, EndEvent) \in Seq(E)
    BY <1>2
  <2> QED
    BY <1>1, <1>3, <2>1 DEF LogInv, LogTypes
<1>13. HookEvents'
  BY <1>1 DEF LogInv, HookEvents, HookEvent, Pending
<1> QED
  BY <1>1, <1>10, <1>11, <1>12, <1>13 DEF LogInv, Stored, Attributed, Reported

(* Every step keeps the invariant.                                         *)
LEMMA NextLog == IInv /\ LogInv /\ [PinNext]_pinVars => LogInv'
<1> SUFFICES ASSUME IInv, LogInv, [PinNext]_pinVars PROVE LogInv'
  OBVIOUS
<1>1. IInv'
  BY NextInv
<1>2. LogTypes /\ HookEvents /\ Stored /\ Attributed /\ Types
  BY DEF LogInv, IInv
<1>3. CASE inited /\ CloseBufferFile
  BY <1>3, CloseReports
<1>4. CASE UNCHANGED pinVars \/ \E t \in Threads : EnterClose(t) \/ Race(t)
  <2>1. /\ UNCHANGED <<lock, pdepth, buffer, offset, file, inited, pc, event, stack, skewed>>
        /\ log' = log /\ made' = made
    BY <1>4 DEF EnterClose, Race, pinVars, bufferVars, closeVars, programVars
  <2>2. /\ NobodyFlushes' <=> NobodyFlushes
        /\ NobodyWrites' <=> NobodyWrites
        /\ NobodyResets' <=> NobodyResets
        /\ ImpactfulFunCall' = ImpactfulFunCall
    BY <2>1 DEF NobodyFlushes, NobodyWrites, NobodyResets, ImpactfulFunCall
  <2>3. LogTypes' /\ HookEvents' /\ Stored'
    BY <1>2, <2>1, <2>2 DEF LogTypes, HookEvents, HookEvent, Pending, Stored, Written
  <2>4. Attributed'
    BY <1>2, <2>1 DEF Attributed, Follows, Recorded, Pending
  <2>5. Reported'
    BY <2>1, <2>2 DEF LogInv, Reported, NoneMissed, OnlyImpactful, WholeLog
  <2> QED
    BY <2>3, <2>4, <2>5 DEF LogInv
<1>5. ASSUME NEW t \in Threads, inited, ProgramStep(t) \/ HookStep(t) \/ HoldsLock(t)
      PROVE  LogInv'
  <2>1. CASE ProgramStep(t)
    <3>1. /\ Quiet(t) /\ HookEvent(t)' /\ event' \in [Threads -> Event \cup {EndEvent}]
          /\ skewed' \subseteq Threads /\ UNCHANGED <<buffer, offset, file>>
          /\ pc[t] = "run" /\ pc'[t] # "reset"
      BY <1>2, <2>1, ProgramQuiet
    <3>2. LogTypes' /\ inited'
      BY <1>2, <1>5, <3>1 DEF LogTypes, Quiet
    <3>3. HookEvents' /\ Attributed'
      BY <1>2, <3>1, OtherEvents, QuietFollows DEF Quiet
    <3>4. Stored'
      BY <1>2, <3>1, SameStored DEF Quiet, Others
    <3> QED
      BY <3>2, <3>3, <3>4 DEF LogInv, Reported, NoneMissed, OnlyImpactful
  <2>2. CASE (HookStep(t) \/ HoldsLock(t)) /\ ~Copy(t)
    <3>1. /\ Quiet(t) /\ HookEvent(t)' /\ event' \in [Threads -> Event \cup {EndEvent}]
          /\ skewed' = skewed
      BY <1>1, <1>2, <2>2, HookQuiet
    <3>2. HookEvents' /\ Attributed'
      BY <1>2, <3>1, OtherEvents, QuietFollows DEF Quiet
    <3>3. CASE WriteLength(t) \/ WriteData(t) \/ WriteTrailer(t) \/ Reset(t)
      <4>1. /\ Stored' /\ buffer' \in Seq(Event) /\ offset' = Bytes(buffer')
            /\ offset' <= BlockSize /\ file' \in Seq(Seq(Event \cup {EndEvent}))
        BY <1>2, <3>3, AppendStored
      <4>2. LogTypes' /\ inited'
        BY <1>2, <1>5, <3>1, <4>1 DEF LogTypes, Quiet
      <4> QED
        BY <3>2, <4>1, <4>2 DEF LogInv, Reported, NoneMissed, OnlyImpactful
    <3>4. CASE ~(WriteLength(t) \/ WriteData(t) \/ WriteTrailer(t) \/ Reset(t))
      <4>1. /\ UNCHANGED <<buffer, offset, file>> /\ pc[t] # "reset" /\ pc'[t] # "reset"
        BY <1>2, <2>2, <3>4 DEF HookStep, HoldsLock, BeforeCall, AfterCall, NotCounted, LeaveHook,
                                SyscallEntry, Unlock, bufferVars, closeVars, Types
      <4>2. LogTypes' /\ inited'
        BY <1>2, <1>5, <3>1, <4>1 DEF LogTypes, Quiet
      <4>3. Stored'
        BY <1>2, <3>1, <4>1, SameStored DEF Quiet, Others
      <4> QED
        BY <3>2, <4>2, <4>3 DEF LogInv, Reported, NoneMissed, OnlyImpactful
    <3> QED
      BY <3>3, <3>4
  <2>3. CASE Copy(t)
    <3>1. Attributed' /\ HookEvent(t)' /\ Others(t) /\ made' \subseteq Functions
      BY <1>2, <1>5, <2>3, CopyFollows
    <3>2. /\ Stored' /\ buffer' \in Seq(Event) /\ offset' = Bytes(buffer')
          /\ offset' <= BlockSize /\ file' \in Seq(Seq(Event \cup {EndEvent}))
          /\ log' \in Seq(Event) /\ log' \in Seq(Event \cup {EndEvent})
      BY <1>2, <1>5, <2>3, AppendStored
    <3>3. HookEvents'
      BY <1>2, <3>1, OtherEvents
    <3>4. inited' = inited /\ event' = event /\ skewed' = skewed
      BY <2>3 DEF Copy, programVars, closeVars
    <3>5. LogTypes'
      BY <1>2, <3>1, <3>2, <3>4 DEF LogTypes
    <3> QED
      BY <1>5, <3>1, <3>2, <3>3, <3>4, <3>5 DEF LogInv, Reported, NoneMissed, OnlyImpactful
  <2> QED
    BY <1>5, <2>1, <2>2, <2>3
<1> QED
  BY <1>3, <1>4, <1>5 DEF PinNext, Open

(* The invariant holds throughout.                                         *)
THEOREM LogInvariance == PinSpec => [](IInv /\ LogInv)
<1>1. PinInit => IInv /\ LogInv
  BY InitInv, InitLog
<1>2. IInv /\ LogInv /\ [PinNext]_pinVars => (IInv /\ LogInv)'
  BY NextInv, NextLog
<1> QED
  BY <1>1, <1>2, PTL DEF PinSpec

(* Type correctness; the buffer never exceeds a block (the assert of       *)
(* Append), and offset is the size of what is in it.                       *)
THEOREM TypeCorrect == PinSpec => []PinTypeOK
<1>1. IInv /\ LogInv => PinTypeOK
  BY DEF IInv, Types, Places, LogInv, LogTypes, PinTypeOK
<1> QED
  BY <1>1, LogInvariance, PTL

(* Whatever the threads do, and wherever the close finds them unless one   *)
(* of them is in the middle of a flush, the file and the buffer are the    *)
(* events in the order of their appends (Append, CloseBufferFile).         *)
THEOREM WholeLogTheorem == PinSpec => []WholeLog
<1>1. IInv /\ LogInv => WholeLog
  BY DEF LogInv, LogTypes, Stored, Written, Reported, WholeLog, NobodyFlushes, NobodyResets
<1> QED
  BY <1>1, LogInvariance, PTL

(* Wherever the close finds the threads, a block that is written twice     *)
(* included, but with no part of a block in the file, the reader names the *)
(* outermost hooked function of each system call of a thread with paired   *)
(* hooks (BeforeCall, AfterCall, SyscallEntry, ExtractImpactfulFunCall).   *)
THEOREM NoneMissedTheorem == PinSpec => []NoneMissed
<1>1. IInv /\ LogInv => NoneMissed
  BY DEF LogInv, Reported
<1> QED
  BY <1>1, LogInvariance, PTL

(* It names no others when all hooks are paired and no flush is cut short. *)
THEOREM OnlyImpactfulTheorem == PinSpec => []OnlyImpactful
<1>1. IInv /\ LogInv => OnlyImpactful
  BY DEF LogInv, Reported
<1> QED
  BY <1>1, LogInvariance, PTL
=============================================================================
