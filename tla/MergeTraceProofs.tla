-------------------------- MODULE MergeTraceProofs --------------------------
(***************************************************************************)
(* Proofs about MergeTrace, for any instrumented program: any control flow *)
(* graph, threads, calls and recursion, and any interleaving of the events *)
(* of the threads.  Unless SplitCalls lets a block of the trace end, or    *)
(* EndEvent come, between a call and the first event of the callee, the    *)
(* call stack that MergeTrace keeps for a thread is that of the program,   *)
(* ahead of it by the instructions that record nothing.  With SplitCalls   *)
(* or without, the arguments of an external call are its own.  The second  *)
(* part is about the blocks: they replay the execution; the third about    *)
(* their marks, which say where a function starts and ends.                *)
(***************************************************************************)
EXTENDS MergeTrace, SequenceLemmas, SequenceTheorems

(* The frames of the program and of MergeTrace.                            *)
ProgramFrames ==
    {f \in [bb : DOMAIN BB2Ins, last : DOMAIN BB2Ins \cup {-1}, index : Int] :
        /\ f.index \in -1 .. Size(f.bb) - 1
        /\ f.last # -1 => Type[Ins(f.last, Size(f.last) - 1)] = "TerminatorInst"}
StackFrames ==
    {f \in [BBID : DOMAIN BB2Ins, LastBBID : DOMAIN BB2Ins \cup {-1}, CurIndex : Nat] :
        f.CurIndex <= Size(f.BBID)}

IsCall(i) == Type[i] = "CallInst" /\ Fun[i] \notin Intrinsic
Records(i) == Type[i] \notin Continuous /\ ~IsCall(i)
Calls(f) == f.index > 0 /\ IsCall(Ins(f.bb, f.index - 1))

(* Below its top frame a stack of the program has frames that call.        *)
Stack(P) == P \in Seq(ProgramFrames) /\ \A k \in 1 .. Len(P) - 1 : Calls(P[k])

(* A frame of the program as MergeTrace has it right after an event, and   *)
(* after it has gone on to the next instruction that records one.          *)
Exact(f) == [BBID |-> f.bb, LastBBID |-> f.last, CurIndex |-> f.index]
Ahead(f) == [BBID |-> f.bb, LastBBID |-> f.last, CurIndex |-> EndIndex(f.bb, f.index)]

(* A frame that records nothing more before its function returns. *)
Returning(f) == f.index >= 0 /\ ReturnsAt(f.bb, EndIndex(f.bb, f.index))

(* The frames above the m-th are returning, the ones up to k are the same. *)
Above(P, m) == m \in 0 .. Len(P) /\ \A k \in m + 1 .. Len(P) : Returning(P[k])
Below(P, n, M) == \A k \in 1 .. n : M[k] = Exact(P[k])

(* In the while loop: the frames above have been closed.                   *)
Closed(P, m, M) ==
    /\ Above(P, m) /\ Len(M) = m /\ Below(P, m, M)
    /\ m > 0 => P[m].index >= 0

(* Behind it: the top frame is at the next event.  A block that the        *)
(* program has not entered yet is either that of a callee, which has no    *)
(* frame yet, or comes after another one of the same function.             *)
AtEvent(P, m, M) ==
    /\ Above(P, m)
    /\ m = 0 => M = <<>>
    /\ m > 0 =>
          /\ ~Returning(P[m]) /\ Below(P, m - 1, M)
          /\ P[m].index >= 0 => Len(M) = m /\ M[m] = Ahead(P[m])
          /\ P[m].index = -1 /\ P[m].last = -1 => Len(M) = m - 1
          /\ P[m].index = -1 /\ P[m].last # -1 =>
                Len(M) = m /\ M[m].BBID = P[m].last /\ M[m].CurIndex = Size(P[m].last)

InStep(P, M) == \E m \in 0 .. Len(P) : AtEvent(P, m, M)
InLoop(P, M) == \E m \in 0 .. Len(P) : Closed(P, m, M)

(* The while loop has nothing to do for a thread.                          *)
Stays(M) ==
    M # <<>> => LET info == Top(M)
                IN  EndIndex(info.BBID, info.CurIndex) = info.CurIndex
                    /\ ~ReturnsAt(info.BBID, info.CurIndex)

(* An event is about to be read: the stack is in step with the program     *)
(* before it, and the event is the one of the instruction that is next.    *)
Steps == {"Memory", "Memset", "Memmove", "Return"}
OnTheWay(e, t) == e.label \in Steps \cup {"BasicBlock"} /\ e.tid = t
Before(P) == SetTop(P, [Top(P) EXCEPT !.index = @ - 1])
Announced(e, P, M) ==
    /\ P # <<>> /\ Top(P).index >= 0 /\ AtEvent(Before(P), Len(P), M)
    /\ e.label = "BasicBlock" => Top(P).index = 0 /\ e.id = Top(P).bb
    /\ e.label \in Steps => /\ Top(P).index > 0 /\ e.id = Ins(Top(P).bb, Top(P).index - 1)
                            /\ Records(e.id)

Synchronised ==
    place \in {"next", "loop"} =>
        \A t \in Threads :
            IF OnTheWay(event, t) THEN Announced(event, exec[t], call_stack[t])
            ELSE IF place = "loop" /\ t = tid_ptr
                 THEN \/ InLoop(exec[t], call_stack[t])
                      \/ InStep(exec[t], call_stack[t]) /\ Stays(call_stack[t])
            ELSE InStep(exec[t], call_stack[t])

Stacks ==
    /\ DOMAIN exec = Threads /\ \A t \in Threads : Stack(exec[t])
    /\ call_stack \in [Threads -> Seq(StackFrames)]

Events ==
    \/ event \in {NoEvent, [label |-> "PlaceHolder"]}
    \/ event \in [label : {"End"}, opens : BOOLEAN]
    \/ event \in [label : {"Declare"}, tid : Threads \cup {0}]
    \/ event \in [label : {"BasicBlock"}, tid : Threads, id : DOMAIN BB2Ins]
    \/ event \in [label : Steps, tid : Threads, id : Instructions]
    \/ \E t \in Threads : \E a : event = [label |-> "Argument", tid |-> t, addr |-> a]

Pointers ==
    /\ last_tid \in Threads \cup {0} /\ tid_ptr \in Threads \cup {0}
    /\ place \in {"next", "loop", "finish", "done", "crashed"}
    /\ place # "next" => event = NoEvent
    /\ place = "loop" => tid_ptr \in Threads
    /\ place \in {"next", "loop"} =>
        /\ event.label \in {"none", "PlaceHolder", "End"} => tid_ptr \in {0, last_tid}
        /\ event.label \notin {"none", "PlaceHolder", "End"} => event.tid = last_tid
        /\ event.label \in {"PlaceHolder", "End"} /\ ~OpensBlock(event) /\ tid_ptr # 0 =>
              Stays(call_stack[tid_ptr])
        /\ event.label = "Declare" /\ event.tid # 0 => Stays(call_stack[event.tid])

(* At the end the frames that are left are waiting for their callees.      *)
Waiting ==
    place = "finish" =>
        \A t \in Threads : \A k \in 1 .. Len(call_stack[t]) - 1 :
            call_stack[t][k].CurIndex < Size(call_stack[t][k].BBID)

IsFirsts == is_first \in [Threads -> (0 .. 2) \X (Instructions \cup {0})]

SInv == Stacks /\ Events /\ Pointers /\ Synchronised /\ Waiting /\ IsFirsts /\ failed = FALSE

-----------------------------------------------------------------------------
(* The next event in a block                                               *)

(* A basic block is a nonempty sequence of instructions, and its last one  *)
(* is the only one that leaves it.                                         *)
LEMMA BlockFacts ==
  ASSUME NEW bb \in DOMAIN BB2Ins
  PROVE  /\ Size(bb) \in Nat \ {0} /\ bb \in Nat
         /\ \A k \in 0 .. Size(bb) - 1 :
              /\ Ins(bb, k) \in Instructions
              /\ Type[Ins(bb, k)] \in {"TerminatorInst", "ReturnInst"} <=> k = Size(bb) - 1
BY GraphAssumption DEF Size, Ins

(* EndIndex is where the first instructions that record no event end, or   *)
(* behind the call that comes next.                                        *)
LEMMA EndIndexDef ==
  ASSUME NEW bb \in DOMAIN BB2Ins, NEW s \in 0 .. Size(bb)
  PROVE  \E e \in s .. Size(bb) :
            /\ \A k \in s .. e - 1 : Type[Ins(bb, k)] \in Continuous
            /\ e < Size(bb) => Type[Ins(bb, e)] \notin Continuous
            /\ EndIndex(bb, s) =
                  IF e < Size(bb) /\ IsCall(Ins(bb, e)) THEN e + 1 ELSE e
<1> DEFINE Greatest(x) == x \in Stops(bb, s) /\ \A y \in Stops(bb, s) : y <= x
           e == CHOOSE x \in Stops(bb, s) : \A y \in Stops(bb, s) : y <= x
<1>1. Size(bb) \in Nat
  BY BlockFacts
<1>2. \E x : Greatest(x)
  <2>1. Stops(bb, s) \subseteq 0 .. Size(bb) /\ s \in Stops(bb, s)
    BY <1>1 DEF Stops
  <2> QED
    BY <1>1, <2>1, Maximum
<1>3. Greatest(e)
  BY <1>2
<1>4. EndIndex(bb, s) = IF e < Size(bb) /\ IsCall(Ins(bb, e)) THEN e + 1 ELSE e
  BY DEF EndIndex, IsCall
<1> HIDE DEF e
<1>5. e \in s .. Size(bb) /\ \A k \in s .. e - 1 : Type[Ins(bb, k)] \in Continuous
  BY <1>3 DEF Stops
<1>6. ASSUME e < Size(bb), Type[Ins(bb, e)] \in Continuous PROVE FALSE
  <2>1. e + 1 \in Stops(bb, s)
    BY <1>1, <1>5, <1>6 DEF Stops
  <2> QED
    BY <1>3, <1>5, <2>1
<1> QED
  BY <1>4, <1>5, <1>6

(* It stands still on an instruction with an event, and goes over the      *)
(* others one by one.                                                      *)
LEMMA EndIndexStep ==
  ASSUME NEW bb \in DOMAIN BB2Ins, NEW s \in 0 .. Size(bb)
  PROVE  /\ EndIndex(bb, s) \in s .. Size(bb)
         /\ s = Size(bb) => EndIndex(bb, s) = s
         /\ s < Size(bb) /\ Type[Ins(bb, s)] \in Continuous =>
               EndIndex(bb, s) = EndIndex(bb, s + 1)
         /\ s < Size(bb) /\ IsCall(Ins(bb, s)) => EndIndex(bb, s) = s + 1
         /\ s < Size(bb) /\ Records(Ins(bb, s)) => EndIndex(bb, s) = s
<1>1. Size(bb) \in Nat
  BY BlockFacts
<1>2. PICK e \in s .. Size(bb) :
            /\ \A k \in s .. e - 1 : Type[Ins(bb, k)] \in Continuous
            /\ e < Size(bb) => Type[Ins(bb, e)] \notin Continuous
            /\ EndIndex(bb, s) = IF e < Size(bb) /\ IsCall(Ins(bb, e)) THEN e + 1 ELSE e
  BY EndIndexDef
<1>3. EndIndex(bb, s) \in s .. Size(bb)
  BY <1>1, <1>2
<1>4. s = Size(bb) => EndIndex(bb, s) = s
  BY <1>1, <1>3
<1>5. ASSUME s < Size(bb), Type[Ins(bb, s)] \in Continuous
      PROVE  EndIndex(bb, s) = EndIndex(bb, s + 1)
  <2>1. PICK d \in s + 1 .. Size(bb) :
            /\ \A k \in s + 1 .. d - 1 : Type[Ins(bb, k)] \in Continuous
            /\ d < Size(bb) => Type[Ins(bb, d)] \notin Continuous
            /\ EndIndex(bb, s + 1) = IF d < Size(bb) /\ IsCall(Ins(bb, d)) THEN d + 1 ELSE d
    BY <1>1, <1>5, EndIndexDef
  <2>2. e # s
    BY <1>2, <1>5
  <2>3. e <= d
    BY <1>1, <1>2, <2>1, <2>2
  <2>4. d <= e
    BY <1>1, <1>2, <2>1, <2>2
  <2> QED
    BY <1>1, <1>2, <2>1, <2>3, <2>4
<1>6. ASSUME s < Size(bb), Type[Ins(bb, s)] \notin Continuous PROVE e = s
  BY <1>1, <1>2, <1>6
<1>7. IsCall(Ins(bb, s)) => Type[Ins(bb, s)] \notin Continuous
  BY DEF IsCall, Continuous
<1> QED
  BY <1>2, <1>3, <1>4, <1>5, <1>6, <1>7 DEF Records

(* Where the loop stops it has nothing more to do, except behind a call.   *)
LEMMA EndIndexTwice ==
  ASSUME NEW bb \in DOMAIN BB2Ins, NEW s \in 0 .. Size(bb), NEW d, d = EndIndex(bb, s),
         ~(d > 0 /\ IsCall(Ins(bb, d - 1)) /\ EndIndex(bb, d) > d)
  PROVE  EndIndex(bb, d) = d
<1>1. Size(bb) \in Nat
  BY BlockFacts
<1>2. PICK e \in s .. Size(bb) :
            /\ \A k \in s .. e - 1 : Type[Ins(bb, k)] \in Continuous
            /\ e < Size(bb) => Type[Ins(bb, e)] \notin Continuous
            /\ d = IF e < Size(bb) /\ IsCall(Ins(bb, e)) THEN e + 1 ELSE e
  BY EndIndexDef
<1>3. CASE e < Size(bb) /\ IsCall(Ins(bb, e))
  BY <1>1, <1>2, <1>3, EndIndexStep
<1>4. CASE e < Size(bb) /\ ~IsCall(Ins(bb, e))
  BY <1>1, <1>2, <1>4, EndIndexStep DEF Records
<1>5. CASE e = Size(bb)
  BY <1>1, <1>2, <1>5, EndIndexStep
<1> QED
  BY <1>1, <1>2, <1>3, <1>4, <1>5

-----------------------------------------------------------------------------
(* Stacks                                                                  *)

(* A stack with another top frame, with one more and with one less.        *)
LEMMA SetTopFacts ==
  ASSUME NEW S, NEW s \in Seq(S), s # <<>>, NEW x \in S
  PROVE  /\ SetTop(s, x) \in Seq(S) /\ Len(SetTop(s, x)) = Len(s) /\ Top(SetTop(s, x)) = x
         /\ Len(s) \in Nat \ {0} /\ SetTop(s, x)[Len(s)] = x /\ SetTop(s, x) # <<>>
         /\ \A k \in 1 .. Len(s) - 1 : SetTop(s, x)[k] = s[k]
BY DEF SetTop, Top

(* A sequence with a new top.                                              *)
LEMMA PushFacts ==
  ASSUME NEW S, NEW s \in Seq(S), NEW x \in S
  PROVE  /\ Append(s, x) \in Seq(S) /\ Len(Append(s, x)) = Len(s) + 1
         /\ Append(s, x)[Len(s) + 1] = x /\ Append(s, x) # <<>> /\ Top(Append(s, x)) = x
         /\ Len(s) \in Nat /\ \A k \in 1 .. Len(s) : Append(s, x)[k] = s[k]
BY DEF Top

(* A sequence without its top.                                             *)
LEMMA PopFacts ==
  ASSUME NEW S, NEW s \in Seq(S), s # <<>>
  PROVE  /\ Pop(s) \in Seq(S) /\ Len(Pop(s)) = Len(s) - 1 /\ Len(s) \in Nat \ {0}
         /\ \A k \in 1 .. Len(s) - 1 : Pop(s)[k] = s[k]
         /\ Pop(s) # <<>> => Top(Pop(s)) = s[Len(s) - 1]
BY DEF Pop, Top

(* The top of a sequence.                                                  *)
LEMMA TopFacts ==
  ASSUME NEW S, NEW s \in Seq(S), s # <<>>
  PROVE  Top(s) \in S /\ Top(s) = s[Len(s)] /\ Len(s) \in Nat \ {0}
BY DEF Top

(* Two sequences are the same when their elements are.                     *)
LEMMA SameSeq ==
  ASSUME NEW S, NEW s \in Seq(S), NEW t \in Seq(S), Len(s) = Len(t),
         \A k \in 1 .. Len(s) : s[k] = t[k]
  PROVE  s = t
OBVIOUS

(* What a frame of the program is.                                         *)
LEMMA FrameFacts ==
  ASSUME NEW f \in ProgramFrames
  PROVE  /\ f.bb \in DOMAIN BB2Ins /\ f.index \in -1 .. Size(f.bb) - 1
         /\ f = [bb |-> f.bb, last |-> f.last, index |-> f.index]
         /\ f.last \in DOMAIN BB2Ins \cup {-1}
         /\ f.last # -1 => ~ReturnsAt(f.last, Size(f.last))
         /\ f.index >= 0 => Exact(f) \in StackFrames /\ Ahead(f) \in StackFrames
         /\ ~ReturnsAt(f.bb, f.index)
<1>1. /\ f.bb \in DOMAIN BB2Ins /\ f.index \in -1 .. Size(f.bb) - 1 /\ f.index \in Int
      /\ f = [bb |-> f.bb, last |-> f.last, index |-> f.index]
      /\ f.last \in DOMAIN BB2Ins \cup {-1}
  BY DEF ProgramFrames
<1>2. Size(f.bb) \in Nat \ {0}
  BY <1>1, BlockFacts
<1>3. ASSUME f.last # -1 PROVE ~ReturnsAt(f.last, Size(f.last))
  BY <1>3 DEF ProgramFrames, ReturnsAt
<1>4. ASSUME f.index >= 0 PROVE Exact(f) \in StackFrames
  BY <1>1, <1>2, <1>4 DEF StackFrames, Exact
<1>5. ASSUME f.index >= 0 PROVE Ahead(f) \in StackFrames
  <2>1. EndIndex(f.bb, f.index) \in 0 .. Size(f.bb)
    BY <1>1, <1>2, <1>5, EndIndexStep
  <2> QED
    BY <1>1, <1>2, <2>1 DEF StackFrames, Ahead
<1>6. ~ReturnsAt(f.bb, f.index)
  BY <1>1, <1>2 DEF ReturnsAt
<1> QED
  BY <1>1, <1>3, <1>4, <1>5, <1>6

(* Every frame of a stack is one, a frame below the top has a call, and    *)
(* only the top frame can be about to enter its block.                     *)
LEMMA StackFacts ==
  ASSUME NEW P, Stack(P)
  PROVE  /\ P \in Seq(ProgramFrames) /\ Len(P) \in Nat
         /\ \A k \in 1 .. Len(P) : P[k] \in ProgramFrames
         /\ \A k \in 1 .. Len(P) - 1 : Calls(P[k]) /\ P[k].index > 0
BY DEF Stack, Calls

(* The stack of a thread after its top frame changes, calls and returns.   *)
LEMMA StackSetTop ==
  ASSUME NEW P, Stack(P), P # <<>>, NEW g \in ProgramFrames
  PROVE  /\ Stack(SetTop(P, g)) /\ Len(SetTop(P, g)) = Len(P) /\ Len(P) \in Nat \ {0}
         /\ SetTop(P, g)[Len(P)] = g /\ \A k \in 1 .. Len(P) - 1 : SetTop(P, g)[k] = P[k]
<1>1. P \in Seq(ProgramFrames) /\ \A k \in 1 .. Len(P) - 1 : Calls(P[k])
  BY DEF Stack
<1>2. /\ SetTop(P, g) \in Seq(ProgramFrames) /\ Len(SetTop(P, g)) = Len(P)
      /\ Len(P) \in Nat \ {0} /\ SetTop(P, g)[Len(P)] = g
      /\ \A k \in 1 .. Len(P) - 1 : SetTop(P, g)[k] = P[k]
  BY <1>1, SetTopFacts
<1> QED
  BY <1>1, <1>2 DEF Stack

(* A callee's frame is pushed on top of the frame that calls it.           *)
LEMMA StackPush ==
  ASSUME NEW P, Stack(P), P # <<>> => Calls(P[Len(P)]), NEW g \in ProgramFrames
  PROVE  /\ Stack(Append(P, g)) /\ Len(Append(P, g)) = Len(P) + 1 /\ Len(P) \in Nat
         /\ Append(P, g)[Len(P) + 1] = g /\ \A k \in 1 .. Len(P) : Append(P, g)[k] = P[k]
<1>1. P \in Seq(ProgramFrames) /\ \A k \in 1 .. Len(P) - 1 : Calls(P[k])
  BY DEF Stack
<1>2. /\ Append(P, g) \in Seq(ProgramFrames) /\ Len(Append(P, g)) = Len(P) + 1
      /\ Len(P) \in Nat /\ Append(P, g)[Len(P) + 1] = g
      /\ \A k \in 1 .. Len(P) : Append(P, g)[k] = P[k]
  BY <1>1, PushFacts
<1>3. \A k \in 1 .. Len(P) : Calls(P[k])
  <2>1. Len(P) # 0 => P # <<>>
    BY <1>1
  <2> QED
    BY <1>1, <1>2, <2>1
<1> QED
  BY <1>2, <1>3 DEF Stack

(* The frames below the top one are still a stack.                         *)
LEMMA StackPop ==
  ASSUME NEW P, Stack(P), P # <<>>
  PROVE  /\ Stack(Pop(P)) /\ Len(Pop(P)) = Len(P) - 1 /\ Len(P) \in Nat \ {0}
         /\ \A k \in 1 .. Len(P) - 1 : Pop(P)[k] = P[k]
<1>1. P \in Seq(ProgramFrames) /\ \A k \in 1 .. Len(P) - 1 : Calls(P[k])
  BY DEF Stack
<1>2. /\ Pop(P) \in Seq(ProgramFrames) /\ Len(Pop(P)) = Len(P) - 1 /\ Len(P) \in Nat \ {0}
      /\ \A k \in 1 .. Len(P) - 1 : Pop(P)[k] = P[k]
  BY <1>1, PopFacts
<1> QED
  BY <1>1, <1>2 DEF Stack

(* The top frame of the program is inside its block.                       *)
LEMMA StackTop ==
  ASSUME NEW P, Stack(P), P # <<>>
  PROVE  /\ Top(P) \in ProgramFrames /\ Top(P) = P[Len(P)] /\ Len(P) \in Nat \ {0}
         /\ Top(P).bb \in DOMAIN BB2Ins /\ Size(Top(P).bb) \in Nat \ {0}
         /\ Top(P).index \in -1 .. Size(Top(P).bb) - 1
<1>1. Top(P) \in ProgramFrames /\ Top(P) = P[Len(P)] /\ Len(P) \in Nat \ {0}
  BY TopFacts DEF Stack
<1> QED
  BY <1>1, FrameFacts, BlockFacts

(* A stack in step is so up to its top frame when that has not to return.  *)
LEMMA TopIsAt ==
  ASSUME NEW P, Stack(P), P # <<>>, NEW M, InStep(P, M), ~Returning(Top(P))
  PROVE  AtEvent(P, Len(P), M) /\ Len(P) \in Nat \ {0}
<1>1. Top(P) = P[Len(P)] /\ Len(P) \in Nat \ {0}
  BY StackTop
<1>2. PICK m \in 0 .. Len(P) : AtEvent(P, m, M)
  BY DEF InStep
<1>3. m = Len(P)
  BY <1>1, <1>2 DEF AtEvent, Above
<1> QED
  BY <1>1, <1>2, <1>3

-----------------------------------------------------------------------------
(* Steps of the program that record nothing                                *)

(* An instruction that the while loop goes over.                           *)
LEMMA KeepsStep ==
  ASSUME NEW P, NEW Q, NEW M, NEW n \in Nat \ {0}, Len(P) = n, Len(Q) = n,
         \A k \in 1 .. n - 1 : Q[k] = P[k], P[n].index >= 0, Q[n].index >= 0,
         Ahead(Q[n]) = Ahead(P[n]), Returning(Q[n]) <=> Returning(P[n]), InStep(P, M)
  PROVE  InStep(Q, M)
<1>1. PICK m \in 0 .. n : AtEvent(P, m, M)
  BY DEF InStep
<1>2. \A k \in 1 .. n : Returning(Q[k]) <=> Returning(P[k])
  OBVIOUS
<1>3. Above(Q, m)
  BY <1>1, <1>2 DEF AtEvent, Above
<1>4. m > 0 => ~Returning(Q[m]) /\ Below(Q, m - 1, M)
  BY <1>1, <1>2 DEF AtEvent, Below
<1>5. AtEvent(Q, m, M)
  <2>1. CASE m = n
    BY <1>1, <1>3, <1>4, <2>1 DEF AtEvent
  <2>2. CASE m < n
    BY <1>1, <1>3, <1>4, <2>2 DEF AtEvent
  <2> QED
    BY <2>1, <2>2
<1> QED
  BY <1>5 DEF InStep

(* An instruction that records nothing keeps the stacks in step.           *)
LEMMA InStepPlain ==
  ASSUME NEW P, Stack(P), P # <<>>, NEW M, InStep(P, M), Top(P).index >= 0,
         Type[Ins(Top(P).bb, Top(P).index)] \in Plain
  PROVE  /\ Stack(SetTop(P, [Top(P) EXCEPT !.index = @ + 1]))
         /\ InStep(SetTop(P, [Top(P) EXCEPT !.index = @ + 1]), M)
<1> DEFINE f == Top(P)
           g == [f EXCEPT !.index = @ + 1]
           Q == SetTop(P, g)
<1>1. /\ f \in ProgramFrames /\ f = P[Len(P)] /\ Len(P) \in Nat \ {0}
      /\ f.bb \in DOMAIN BB2Ins /\ Size(f.bb) \in Nat \ {0}
      /\ f.index \in 0 .. Size(f.bb) - 1 /\ Type[Ins(f.bb, f.index)] \in Plain
  BY StackTop
<1> HIDE DEF f
<1>2. f.index + 1 \in 0 .. Size(f.bb) - 1
  BY <1>1, BlockFacts DEF Plain
<1>3. g \in ProgramFrames /\ g.bb = f.bb /\ g.last = f.last /\ g.index = f.index + 1
  BY <1>1, <1>2 DEF ProgramFrames
<1> HIDE DEF g
<1>4. EndIndex(f.bb, f.index) = EndIndex(f.bb, f.index + 1)
  <2>1. f.index \in 0 .. Size(f.bb) /\ f.index < Size(f.bb)
    BY <1>1
  <2> QED
    BY <1>1, <2>1, EndIndexStep DEF Plain, Continuous
<1>5. Ahead(g) = Ahead(f) /\ (Returning(g) <=> Returning(f)) /\ g.index >= 0
  BY <1>1, <1>2, <1>3, <1>4 DEF Ahead, Returning
<1>6. /\ Stack(Q) /\ Len(Q) = Len(P) /\ Q[Len(P)] = g
      /\ \A k \in 1 .. Len(P) - 1 : Q[k] = P[k]
  BY <1>3, StackSetTop
<1> HIDE DEF Q
<1>7. InStep(Q, M)
  <2> DEFINE n == Len(P)
  <2>1. /\ n \in Nat \ {0} /\ Len(P) = n /\ Len(Q) = n
        /\ \A k \in 1 .. n - 1 : Q[k] = P[k]
        /\ P[n] = f /\ Q[n] = g
    BY <1>1, <1>6
  <2>2. f.index >= 0 /\ g.index >= 0
    BY <1>1, <1>5
  <2> HIDE DEF n
  <2> QED
    BY <1>5, <2>1, <2>2, KeepsStep
<1>8. Stack(Q) /\ InStep(Q, M)
  BY <1>6, <1>7
<1> QED
  BY <1>8, Zenon DEF Q, g, f

(* A call, behind which the loop has stopped, or the start of a thread.    *)
LEMMA EntersStep ==
  ASSUME NEW P, NEW Q, NEW M, NEW n \in Nat, Len(P) = n, Len(Q) = n + 1,
         \A k \in 1 .. n - 1 : Q[k] = P[k],
         n > 0 => P[n].index >= 0 /\ ~Returning(P[n]) /\ Ahead(P[n]) = Exact(Q[n]),
         Q[n + 1].index = -1, Q[n + 1].last = -1, M = <<>> => Len(M) = 0, InStep(P, M)
  PROVE  InStep(Q, M)
<1>1. PICK m \in 0 .. n : AtEvent(P, m, M)
  BY DEF InStep
<1>2. m = n
  <2>1. n > m => Returning(P[n])
    BY <1>1 DEF AtEvent, Above
  <2> QED
    BY <1>1, <2>1
<1>3. n > 0 => /\ Len(M) = n /\ M[n] = Exact(Q[n])
               /\ \A k \in 1 .. n - 1 : M[k] = Exact(P[k])
  BY <1>1, <1>2 DEF AtEvent, Below
<1>4. Below(Q, n, M)
  BY <1>3 DEF Below
<1>5. Len(M) = n
  BY <1>1, <1>2, <1>3 DEF AtEvent
<1>6. ~Returning(Q[n + 1]) /\ Above(Q, n + 1)
  BY DEF Returning, Above
<1>7. AtEvent(Q, n + 1, M)
  BY <1>4, <1>5, <1>6 DEF AtEvent
<1> QED
  BY <1>7 DEF InStep

(* A branch, at which the loop has stopped.                                *)
LEMMA BranchStep ==
  ASSUME NEW P, NEW Q, NEW M, NEW n \in Nat \ {0}, Len(P) = n, Len(Q) = n,
         \A k \in 1 .. n - 1 : Q[k] = P[k], P[n].index >= 0, ~Returning(P[n]),
         EndIndex(P[n].bb, P[n].index) = Size(P[n].bb),
         Q[n].index = -1, Q[n].last = P[n].bb, Q[n].last # -1, InStep(P, M)
  PROVE  InStep(Q, M)
<1>1. PICK m \in 0 .. n : AtEvent(P, m, M)
  BY DEF InStep
<1>2. m = n
  <2>1. n > m => Returning(P[n])
    BY <1>1 DEF AtEvent, Above
  <2> QED
    BY <1>1, <2>1
<1>3. /\ Len(M) = n /\ M[n] = Ahead(P[n])
      /\ \A k \in 1 .. n - 1 : M[k] = Exact(P[k])
  BY <1>1, <1>2 DEF AtEvent, Below
<1>4. Below(Q, n - 1, M)
  BY <1>3 DEF Below
<1>5. M[n].BBID = Q[n].last /\ M[n].CurIndex = Size(Q[n].last)
  BY <1>3 DEF Ahead
<1>6. ~Returning(Q[n]) /\ Above(Q, n)
  BY DEF Returning, Above
<1>7. AtEvent(Q, n, M)
  BY <1>3, <1>4, <1>5, <1>6 DEF AtEvent
<1> QED
  BY <1>7 DEF InStep

(* A return, of a frame that the loop has closed.                          *)
LEMMA ReturnStep ==
  ASSUME NEW P, NEW Q, NEW M, NEW n \in Nat \ {0}, Len(P) = n, Len(Q) = n - 1,
         \A k \in 1 .. n - 1 : Q[k] = P[k], Returning(P[n]), InStep(P, M)
  PROVE  InStep(Q, M)
<1>1. PICK m \in 0 .. n : AtEvent(P, m, M)
  BY DEF InStep
<1>2. m < n
  BY <1>1 DEF AtEvent
<1>3. Above(Q, m) /\ (m > 0 => Q[m] = P[m])
  BY <1>1, <1>2 DEF AtEvent, Above
<1>4. m > 0 => Below(Q, m - 1, M)
  BY <1>1, <1>2 DEF AtEvent, Below
<1>5. AtEvent(Q, m, M)
  BY <1>1, <1>2, <1>3, <1>4 DEF AtEvent
<1> QED
  BY <1>2, <1>5 DEF InStep

(* What the last instruction of a block does: the loop goes to its end.    *)
LEMMA AtTheEnd ==
  ASSUME NEW f \in ProgramFrames, f.index >= 0,
         Type[Ins(f.bb, f.index)] \in {"TerminatorInst", "ReturnInst"}
  PROVE  /\ EndIndex(f.bb, f.index) = Size(f.bb) /\ f.index = Size(f.bb) - 1
         /\ Returning(f) <=> Type[Ins(f.bb, f.index)] = "ReturnInst"
<1>1. f.bb \in DOMAIN BB2Ins /\ f.index \in 0 .. Size(f.bb) - 1 /\ Size(f.bb) \in Nat \ {0}
  BY FrameFacts, BlockFacts
<1>2. f.index = Size(f.bb) - 1
  BY <1>1, BlockFacts
<1>3. EndIndex(f.bb, f.index) = EndIndex(f.bb, Size(f.bb))
  <2>1. f.index \in 0 .. Size(f.bb) /\ f.index < Size(f.bb) /\ f.index + 1 = Size(f.bb)
    BY <1>1, <1>2
  <2> QED
    BY <1>1, <2>1, EndIndexStep DEF Continuous
<1>4. EndIndex(f.bb, Size(f.bb)) = Size(f.bb)
  <2>1. Size(f.bb) \in 0 .. Size(f.bb)
    BY <1>1
  <2> QED
    BY <1>1, <2>1, EndIndexStep
<1> QED
  BY <1>2, <1>3, <1>4 DEF Returning, ReturnsAt

(* So does the call of a function: its frame is not entered yet.           *)
LEMMA InStepCall ==
  ASSUME NEW P, Stack(P), P # <<>>, NEW M, M = <<>> => Len(M) = 0, InStep(P, M),
         Top(P).index >= 0, IsCall(Ins(Top(P).bb, Top(P).index)), NEW bb \in DOMAIN BB2Ins
  PROVE  LET Q == Append(SetTop(P, [Top(P) EXCEPT !.index = @ + 1]), Frame(bb, -1))
         IN  Stack(Q) /\ InStep(Q, M)
<1> DEFINE f == Top(P)
           g == [f EXCEPT !.index = @ + 1]
           c == Frame(bb, -1)
           R == SetTop(P, g)
           Q == Append(R, c)
<1>1. /\ f \in ProgramFrames /\ f = P[Len(P)] /\ Len(P) \in Nat \ {0}
      /\ f.bb \in DOMAIN BB2Ins /\ Size(f.bb) \in Nat \ {0}
      /\ f.index \in 0 .. Size(f.bb) - 1 /\ IsCall(Ins(f.bb, f.index))
  BY StackTop
<1> HIDE DEF f
<1>2. f.index + 1 \in 1 .. Size(f.bb) - 1
  BY <1>1, BlockFacts DEF IsCall
<1>3. g \in ProgramFrames /\ g.bb = f.bb /\ g.last = f.last /\ g.index = f.index + 1
  BY <1>1, <1>2 DEF ProgramFrames
<1>4. c \in ProgramFrames /\ c.index = -1 /\ c.last = -1
  BY BlockFacts DEF ProgramFrames, Frame
<1> HIDE DEF g, c
<1>5. EndIndex(f.bb, f.index) = f.index + 1
  <2>1. f.index \in 0 .. Size(f.bb) /\ f.index < Size(f.bb)
    BY <1>1
  <2> QED
    BY <1>1, <2>1, EndIndexStep
<1>6. Ahead(f) = Exact(g) /\ ~Returning(f)
  BY <1>1, <1>2, <1>3, <1>5 DEF Ahead, Exact, Returning, ReturnsAt
<1>7. Calls(g)
  BY <1>1, <1>2, <1>3 DEF Calls
<1>8. /\ Stack(R) /\ Len(R) = Len(P) /\ R[Len(P)] = g
      /\ \A k \in 1 .. Len(P) - 1 : R[k] = P[k]
  BY <1>3, StackSetTop
<1> HIDE DEF R
<1>9. /\ Stack(Q) /\ Len(Q) = Len(P) + 1 /\ Q[Len(P) + 1] = c
      /\ \A k \in 1 .. Len(P) : Q[k] = R[k]
  BY <1>4, <1>7, <1>8, StackPush
<1> HIDE DEF Q
<1>10. Q[Len(P)] = g /\ \A k \in 1 .. Len(P) - 1 : Q[k] = P[k]
  BY <1>1, <1>8, <1>9
<1>11. InStep(Q, M)
  <2> DEFINE n == Len(P)
  <2>1. /\ n \in Nat /\ Len(Q) = n + 1 /\ \A k \in 1 .. n - 1 : Q[k] = P[k]
        /\ P[n].index >= 0 /\ ~Returning(P[n]) /\ Ahead(P[n]) = Exact(Q[n])
        /\ Q[n + 1].index = -1 /\ Q[n + 1].last = -1
    BY <1>1, <1>4, <1>6, <1>9, <1>10
  <2> QED
    BY <2>1, EntersStep
<1> QED
  BY <1>9, <1>11 DEF Q, R, c, g, f

(* And the start of a thread.                                              *)
LEMMA InStepStart ==
  ASSUME NEW M, M = <<>> => Len(M) = 0, InStep(<<>>, M), NEW bb \in DOMAIN BB2Ins
  PROVE  Stack(<<Frame(bb, -1)>>) /\ InStep(<<Frame(bb, -1)>>, M)
<1> DEFINE c == Frame(bb, -1)
           Q == <<c>>
<1>1. c \in ProgramFrames /\ c.index = -1 /\ c.last = -1
  BY BlockFacts DEF ProgramFrames, Frame
<1> HIDE DEF c
<1>2. Stack(Q)
  BY <1>1 DEF Stack
<1>3. PICK n \in Nat : n = 0
  OBVIOUS
<1>4. /\ Len(<<>>) = n /\ Len(Q) = n + 1 /\ Q[n + 1] = c /\ ~(n > 0)
      /\ \A k \in 1 .. n - 1 : Q[k] = <<>>[k]
  BY <1>3
<1> HIDE DEF Q
<1>5. InStep(Q, M)
  BY <1>1, <1>4, EntersStep
<1> QED
  BY <1>2, <1>5 DEF Q, c

(* And a branch: the frame waits at the entry of the next block.           *)
LEMMA InStepBranch ==
  ASSUME NEW P, Stack(P), P # <<>>, NEW M, InStep(P, M), Top(P).index >= 0,
         Type[Ins(Top(P).bb, Top(P).index)] = "TerminatorInst", NEW bb \in DOMAIN BB2Ins
  PROVE  /\ Stack(SetTop(P, Frame(bb, Top(P).bb)))
         /\ InStep(SetTop(P, Frame(bb, Top(P).bb)), M)
<1> DEFINE f == Top(P)
           c == Frame(bb, f.bb)
           Q == SetTop(P, c)
<1>1. /\ f \in ProgramFrames /\ f = P[Len(P)] /\ Len(P) \in Nat \ {0}
      /\ f.bb \in DOMAIN BB2Ins /\ Size(f.bb) \in Nat \ {0} /\ f.bb # -1
      /\ f.index \in 0 .. Size(f.bb) - 1 /\ Type[Ins(f.bb, f.index)] = "TerminatorInst"
  BY StackTop, BlockFacts
<1> HIDE DEF f
<1>2. /\ EndIndex(f.bb, f.index) = Size(f.bb) /\ f.index = Size(f.bb) - 1 /\ ~Returning(f)
  BY <1>1, AtTheEnd
<1>3. c \in ProgramFrames /\ c.index = -1 /\ c.last = f.bb
  <2>1. -1 \in -1 .. Size(bb) - 1
    BY BlockFacts
  <2> QED
    BY <1>1, <1>2, <2>1 DEF ProgramFrames, Frame
<1> HIDE DEF c
<1>4. /\ Stack(Q) /\ Len(Q) = Len(P) /\ Q[Len(P)] = c
      /\ \A k \in 1 .. Len(P) - 1 : Q[k] = P[k]
  BY <1>3, StackSetTop
<1> HIDE DEF Q
<1>5. InStep(Q, M)
  <2> DEFINE n == Len(P)
  <2>1. /\ n \in Nat \ {0} /\ Len(Q) = n /\ \A k \in 1 .. n - 1 : Q[k] = P[k]
        /\ P[n].index >= 0 /\ ~Returning(P[n])
        /\ EndIndex(P[n].bb, P[n].index) = Size(P[n].bb)
        /\ Q[n].index = -1 /\ Q[n].last = P[n].bb /\ Q[n].last # -1
    BY <1>1, <1>2, <1>3, <1>4
  <2> QED
    BY <2>1, BranchStep
<1> QED
  BY <1>4, <1>5 DEF Q, c, f

(* And a return: MergeTrace keeps the frame until the next event.          *)
LEMMA InStepReturn ==
  ASSUME NEW P, Stack(P), P # <<>>, NEW M, InStep(P, M), Top(P).index >= 0,
         Type[Ins(Top(P).bb, Top(P).index)] = "ReturnInst"
  PROVE  Stack(Pop(P)) /\ InStep(Pop(P), M)
<1>1. /\ Top(P) \in ProgramFrames /\ Top(P) = P[Len(P)] /\ Len(P) \in Nat \ {0}
  BY StackTop
<1>2. Returning(P[Len(P)])
  BY <1>1, AtTheEnd
<1>3. /\ Stack(Pop(P)) /\ Len(Pop(P)) = Len(P) - 1
      /\ \A k \in 1 .. Len(P) - 1 : Pop(P)[k] = P[k]
  BY StackPop
<1>4. InStep(Pop(P), M)
  BY <1>1, <1>2, <1>3, ReturnStep
<1> QED
  BY <1>3, <1>4

-----------------------------------------------------------------------------
(* Steps of the program that record an event                               *)

(* The stack before a step of its top frame.                               *)
LEMMA BeforeFacts ==
  ASSUME NEW P, Stack(P), P # <<>>, Top(P).index >= 0
  PROVE  /\ Stack(Before(P)) /\ Len(Before(P)) = Len(P) /\ Len(P) \in Nat \ {0}
         /\ Top(P) = P[Len(P)] /\ Top(P) \in ProgramFrames
         /\ Before(P)[Len(P)] = [bb |-> Top(P).bb, last |-> Top(P).last,
                                 index |-> Top(P).index - 1]
         /\ \A k \in 1 .. Len(P) - 1 : Before(P)[k] = P[k]
<1> DEFINE f == Top(P)
           g == [f EXCEPT !.index = @ - 1]
<1>1. f \in ProgramFrames /\ f.index >= 0 /\ f = P[Len(P)] /\ Len(P) \in Nat \ {0}
  BY StackTop
<1> HIDE DEF f
<1>2. g = [bb |-> f.bb, last |-> f.last, index |-> f.index - 1]
  BY <1>1 DEF ProgramFrames
<1>3. g \in ProgramFrames
  BY <1>1, <1>2, FrameFacts, BlockFacts DEF ProgramFrames
<1> HIDE DEF g
<1>4. Before(P) = SetTop(P, g)
  BY DEF Before, g, f
<1> QED
  BY <1>1, <1>2, <1>3, <1>4, StackSetTop DEF f

(* The frame before an instruction, seen from behind it.                   *)
LEMMA BeforeAdvance ==
  ASSUME NEW P, Stack(P), P # <<>>, Top(P).index + 1 <= Size(Top(P).bb) - 1,
         NEW Q, Q = SetTop(P, [Top(P) EXCEPT !.index = @ + 1])
  PROVE  /\ Stack(Q) /\ Q # <<>> /\ Top(Q).bb = Top(P).bb /\ Len(Q) = Len(P)
         /\ Top(Q).index = Top(P).index + 1 /\ Top(Q).last = Top(P).last /\ Before(Q) = P
<1> DEFINE f == Top(P)
           g == [f EXCEPT !.index = @ + 1]
<1>1. /\ f \in ProgramFrames /\ f = P[Len(P)] /\ Len(P) \in Nat \ {0}
      /\ f.index \in -1 .. Size(f.bb) - 1 /\ Size(f.bb) \in Nat \ {0}
  BY StackTop
<1>2. f.index + 1 <= Size(f.bb) - 1
  OBVIOUS
<1>3. Q = SetTop(P, g)
  OBVIOUS
<1> HIDE DEF f
<1>4. g = [bb |-> f.bb, last |-> f.last, index |-> f.index + 1]
  BY <1>1 DEF ProgramFrames
<1>5. g \in ProgramFrames
  BY <1>1, <1>2, <1>4 DEF ProgramFrames
<1> HIDE DEF g
<1>6. /\ Stack(Q) /\ Len(Q) = Len(P) /\ Q[Len(P)] = g
      /\ \A k \in 1 .. Len(P) - 1 : Q[k] = P[k]
  <2>1. /\ Stack(SetTop(P, g)) /\ Len(SetTop(P, g)) = Len(P) /\ SetTop(P, g)[Len(P)] = g
        /\ \A k \in 1 .. Len(P) - 1 : SetTop(P, g)[k] = P[k]
    BY <1>5, StackSetTop
  <2> QED
    BY <1>3, <2>1
<1>7. Q # <<>> /\ Top(Q) = g /\ Top(Q).index >= 0
  <2>1. Q # <<>> /\ Top(Q) = g
    BY <1>1, <1>6 DEF Top
  <2> QED
    BY <1>1, <1>4, <2>1
<1>8. /\ Stack(Before(Q)) /\ Len(Before(Q)) = Len(P)
      /\ Before(Q)[Len(P)] = [bb |-> g.bb, last |-> g.last, index |-> g.index - 1]
      /\ \A k \in 1 .. Len(P) - 1 : Before(Q)[k] = P[k]
  BY <1>6, <1>7, BeforeFacts
<1>9. [bb |-> g.bb, last |-> g.last, index |-> g.index - 1] = f
  BY <1>1, <1>4 DEF ProgramFrames
<1>10. \A k \in 1 .. Len(P) : Before(Q)[k] = P[k]
  BY <1>1, <1>8, <1>9
<1>11. Before(Q) = P
  <2>1. P \in Seq(ProgramFrames) /\ Before(Q) \in Seq(ProgramFrames)
    BY <1>8 DEF Stack
  <2> QED
    BY <1>8, <1>10, <2>1, SameSeq
<1> QED
  BY <1>4, <1>6, <1>7, <1>11 DEF f

(* AccessStep, ExternalCall: the loop has stopped at the instruction.      *)
LEMMA AnnouncesAccess ==
  ASSUME NEW P, Stack(P), P # <<>>, NEW M, InStep(P, M), Top(P).index >= 0,
         Records(Ins(Top(P).bb, Top(P).index)),
         NEW Q, Q = SetTop(P, [Top(P) EXCEPT !.index = @ + 1]),
         NEW e, e.label \in Steps, e.id = Ins(Top(P).bb, Top(P).index)
  PROVE  Stack(Q) /\ Announced(e, Q, M)
<1>1. /\ Top(P) \in ProgramFrames /\ Top(P) = P[Len(P)] /\ Len(P) \in Nat \ {0}
      /\ Top(P).bb \in DOMAIN BB2Ins /\ Size(Top(P).bb) \in Nat \ {0}
      /\ Top(P).index \in 0 .. Size(Top(P).bb) - 1
  BY StackTop
<1>2. Top(P).index + 1 <= Size(Top(P).bb) - 1
  BY <1>1, BlockFacts DEF Records, Continuous
<1>3. EndIndex(Top(P).bb, Top(P).index) = Top(P).index
  <2>1. /\ Top(P).index \in 0 .. Size(Top(P).bb) /\ Top(P).index < Size(Top(P).bb)
    BY <1>1
  <2> QED
    BY <1>1, <2>1, EndIndexStep
<1>4. ~Returning(Top(P))
  BY <1>1, <1>2, <1>3 DEF Returning, ReturnsAt
<1>5. AtEvent(P, Len(P), M)
  BY <1>4, TopIsAt
<1>6. /\ Stack(Q) /\ Q # <<>> /\ Top(Q).bb = Top(P).bb /\ Len(Q) = Len(P)
      /\ Top(Q).index = Top(P).index + 1 /\ Before(Q) = P
  BY <1>2, BeforeAdvance
<1>7. Ins(Top(Q).bb, Top(Q).index - 1) = e.id /\ Top(Q).index > 0
  BY <1>1, <1>6
<1>8. e.label # "BasicBlock"
  BY DEF Steps
<1> QED
  <2>1. Top(Q).index >= 0 /\ Records(e.id) /\ AtEvent(Before(Q), Len(Q), M)
    BY <1>1, <1>5, <1>6
  <2> QED
    BY <1>6, <1>7, <1>8, <2>1 DEF Announced

(* EnterBlock. *)
LEMMA AnnouncesBlock ==
  ASSUME NEW P, Stack(P), P # <<>>, NEW M, InStep(P, M), Top(P).index = -1,
         NEW Q, Q = SetTop(P, [Top(P) EXCEPT !.index = 0]),
         NEW e, e.label = "BasicBlock", e.id = Top(P).bb
  PROVE  Stack(Q) /\ Announced(e, Q, M)
<1>1. /\ Top(P) \in ProgramFrames /\ Top(P) = P[Len(P)] /\ Len(P) \in Nat \ {0}
      /\ Top(P).bb \in DOMAIN BB2Ins /\ Size(Top(P).bb) \in Nat \ {0}
  BY StackTop
<1>2. Top(P).index + 1 <= Size(Top(P).bb) - 1 /\ Top(P).index + 1 = 0
  BY <1>1
<1>3. AtEvent(P, Len(P), M)
  <2>1. ~Returning(Top(P))
    BY DEF Returning
  <2> QED
    BY <2>1, TopIsAt
<1>4. Q = SetTop(P, [Top(P) EXCEPT !.index = @ + 1])
  BY <1>2
<1>5. /\ Stack(Q) /\ Q # <<>> /\ Top(Q).bb = Top(P).bb /\ Len(Q) = Len(P)
      /\ Top(Q).index = 0 /\ Before(Q) = P
  BY <1>2, <1>4, BeforeAdvance
<1>6. e.label \notin Steps
  BY DEF Steps
<1> QED
  BY <1>3, <1>5, <1>6 DEF Announced

-----------------------------------------------------------------------------
(* Reading an event                                                        *)

(* A frame that is exactly as the program has it, after it.                *)
LEMMA LoopsAt ==
  ASSUME NEW P, NEW M, NEW n \in Nat \ {0}, Len(P) = n, Len(M) = n, P[n].index >= 0,
         M[n] = Exact(P[n]), \A k \in 1 .. n - 1 : M[k] = Exact(P[k])
  PROVE  InLoop(P, M)
<1>1. Below(P, n, M) /\ Above(P, n)
  BY DEF Below, Above
<1> QED
  BY <1>1 DEF InLoop, Closed

(* The stack before an event that has been announced.                      *)
LEMMA AnnouncedFacts ==
  ASSUME NEW P, Stack(P), NEW M, NEW e, Announced(e, P, M)
  PROVE  LET n == Len(P)
             f == Top(P) IN
         /\ n \in Nat \ {0} /\ f = P[n] /\ f \in ProgramFrames /\ f.index >= 0
         /\ \A k \in 1 .. n - 1 : M[k] = Exact(P[k]) /\ Calls(P[k]) /\ P[k] \in ProgramFrames
         /\ f.index > 0 => Len(M) = n /\ M[n] = Ahead([f EXCEPT !.index = @ - 1])
         /\ f.index = 0 /\ f.last = -1 => Len(M) = n - 1
         /\ f.index = 0 /\ f.last # -1 =>
               Len(M) = n /\ M[n].BBID = f.last /\ M[n].CurIndex = Size(f.last)
<1> DEFINE n == Len(P)
           f == Top(P)
           Q == Before(P)
           g == [f EXCEPT !.index = @ - 1]
<1>1. P # <<>> /\ f.index >= 0 /\ AtEvent(Q, n, M)
  BY DEF Announced
<1>2. /\ n \in Nat \ {0} /\ f = P[n] /\ f \in ProgramFrames
      /\ Q[n] = [bb |-> f.bb, last |-> f.last, index |-> f.index - 1]
      /\ \A k \in 1 .. n - 1 : Q[k] = P[k]
  BY <1>1, BeforeFacts
<1>3. \A k \in 1 .. n - 1 : Calls(P[k]) /\ P[k] \in ProgramFrames
  BY StackFacts
<1>4. g = [bb |-> f.bb, last |-> f.last, index |-> f.index - 1]
  BY <1>2 DEF ProgramFrames
<1>5. f.index \in Int
  BY <1>2 DEF ProgramFrames
<1> HIDE DEF n, f, Q, g
<1>6. Q[n] = g /\ g.index = f.index - 1 /\ g.last = f.last
  BY <1>2, <1>4
<1>7. \A k \in 1 .. n - 1 : M[k] = Exact(Q[k])
  BY <1>1, <1>2 DEF AtEvent, Below
<1>8. f.index > 0 => Len(M) = n /\ M[n] = Ahead(g)
  BY <1>1, <1>2, <1>5, <1>6 DEF AtEvent
<1>9. f.index = 0 /\ f.last = -1 => Len(M) = n - 1
  BY <1>1, <1>2, <1>5, <1>6 DEF AtEvent
<1>10. f.index = 0 /\ f.last # -1 =>
          Len(M) = n /\ M[n].BBID = f.last /\ M[n].CurIndex = Size(f.last)
  BY <1>1, <1>2, <1>5, <1>6 DEF AtEvent
<1> QED
  BY <1>1, <1>2, <1>3, <1>7, <1>8, <1>9, <1>10 DEF n, f, g

(* ReadAccess, ReadReturn: the instruction is the expected one.            *)
LEMMA ReadsAccess ==
  ASSUME NEW P, Stack(P), NEW M \in Seq(StackFrames), NEW e, Announced(e, P, M),
         e.label \in Steps
  PROVE  /\ M # <<>> /\ Top(M).CurIndex < Size(Top(M).BBID)
         /\ Ins(Top(M).BBID, Top(M).CurIndex) = e.id
         /\ InLoop(P, SetTop(M, [Top(M) EXCEPT !.CurIndex = @ + 1]))
<1> DEFINE n == Len(P)
           f == Top(P)
           g == [f EXCEPT !.index = @ - 1]
           N == SetTop(M, [Top(M) EXCEPT !.CurIndex = @ + 1])
<1>1. /\ n \in Nat \ {0} /\ f = P[n] /\ f \in ProgramFrames /\ f.index >= 0
      /\ \A k \in 1 .. n - 1 : M[k] = Exact(P[k])
      /\ f.index > 0 => Len(M) = n /\ M[n] = Ahead(g)
  BY AnnouncedFacts
<1>2. f.index > 0 /\ e.id = Ins(f.bb, f.index - 1) /\ Records(e.id)
  BY DEF Announced
<1>3. /\ f.bb \in DOMAIN BB2Ins /\ f.index \in 1 .. Size(f.bb) - 1 /\ Size(f.bb) \in Nat \ {0}
      /\ g = [bb |-> f.bb, last |-> f.last, index |-> f.index - 1]
  <2> HIDE DEF f
  <2>1. f.bb \in DOMAIN BB2Ins /\ f.index \in -1 .. Size(f.bb) - 1
    BY <1>1, FrameFacts
  <2>2. Size(f.bb) \in Nat \ {0}
    BY <2>1, BlockFacts
  <2>3. g = [bb |-> f.bb, last |-> f.last, index |-> f.index - 1]
    BY <1>1 DEF ProgramFrames
  <2> QED
    BY <1>2, <2>1, <2>2, <2>3
<1> HIDE DEF f
<1>4. EndIndex(f.bb, f.index - 1) = f.index - 1
  <2>1. /\ f.index - 1 \in 0 .. Size(f.bb) /\ f.index - 1 < Size(f.bb)
    BY <1>3
  <2> QED
    BY <1>2, <1>3, <2>1, EndIndexStep
<1>5. /\ Len(M) = n
      /\ M[n] = [BBID |-> f.bb, LastBBID |-> f.last, CurIndex |-> f.index - 1]
  BY <1>1, <1>2, <1>3, <1>4 DEF Ahead
<1>6. /\ M # <<>> /\ Top(M) = M[n]
  BY <1>1, <1>5 DEF Top
<1>7. [Top(M) EXCEPT !.CurIndex = @ + 1] = Exact(f)
  BY <1>3, <1>5, <1>6 DEF Exact
<1>8. Exact(f) \in StackFrames
  BY <1>1, FrameFacts
<1>9. Len(N) = n /\ N[n] = Exact(f) /\ \A k \in 1 .. n - 1 : N[k] = M[k]
  <2>1. /\ Len(SetTop(M, Exact(f))) = Len(M) /\ SetTop(M, Exact(f))[Len(M)] = Exact(f)
        /\ \A k \in 1 .. Len(M) - 1 : SetTop(M, Exact(f))[k] = M[k]
    BY <1>6, <1>8, SetTopFacts
  <2> QED
    BY <1>5, <1>7, <2>1
<1> HIDE DEF N, n
<1>10. InLoop(P, N)
  <2>1. Len(P) = n
    BY DEF n
  <2>2. \A k \in 1 .. n - 1 : N[k] = Exact(P[k])
    BY <1>1, <1>9
  <2> QED
    BY <1>1, <1>5, <1>9, <2>1, <2>2, LoopsAt
<1> QED
  BY <1>2, <1>3, <1>5, <1>6, <1>10 DEF N

(* ReadBasicBlock: a new thread, a block of the same function or a callee. *)
LEMMA ReadsBlock ==
  ASSUME NEW P, Stack(P), NEW M \in Seq(StackFrames), NEW e, Announced(e, P, M),
         e.label = "BasicBlock"
  PROVE  /\ M = <<>> => InLoop(P, <<StackInfo(e.id, -1, 0)>>)
         /\ M # <<>> /\ Top(M).CurIndex >= Size(Top(M).BBID) =>
               InLoop(P, SetTop(M, StackInfo(e.id, Top(M).BBID, 0)))
         /\ M # <<>> /\ ~(Top(M).CurIndex >= Size(Top(M).BBID)) =>
               /\ InLoop(P, Append(M, StackInfo(e.id, -1, 0)))
               /\ Ins(Top(M).BBID, Top(M).CurIndex - 1) \in Instructions
<1> DEFINE n == Len(P)
           f == Top(P)
<1>1. /\ n \in Nat \ {0} /\ f = P[n] /\ f \in ProgramFrames /\ f.index >= 0
      /\ \A k \in 1 .. n - 1 : M[k] = Exact(P[k]) /\ Calls(P[k]) /\ P[k] \in ProgramFrames
      /\ f.index = 0 /\ f.last = -1 => Len(M) = n - 1
      /\ f.index = 0 /\ f.last # -1 =>
             Len(M) = n /\ M[n].BBID = f.last /\ M[n].CurIndex = Size(f.last)
  BY AnnouncedFacts
<1>2. f.index = 0 /\ e.id = f.bb
  BY DEF Announced
<1>3. /\ f.bb \in DOMAIN BB2Ins /\ f.last \in DOMAIN BB2Ins \cup {-1}
      /\ Exact(f) = StackInfo(f.bb, f.last, 0) /\ Exact(f) \in StackFrames
  BY <1>1, <1>2, FrameFacts DEF Exact, StackInfo
<1>4. Len(M) \in Nat /\ (M = <<>> <=> Len(M) = 0) /\ (M # <<>> => Top(M) = M[Len(M)])
  BY DEF Top
<1> HIDE DEF f, n
<1>5. Len(P) = n
  BY DEF n
<1>6. CASE f.last = -1
  <2>1. Len(M) = n - 1
    BY <1>1, <1>2, <1>6
  <2>2. ASSUME M # <<>>
        PROVE  /\ Top(M) = Exact(P[n - 1]) /\ P[n - 1] \in ProgramFrames /\ Calls(P[n - 1])
    BY <1>1, <1>4, <2>1, <2>2
  <2>3. ASSUME M # <<>>
        PROVE  /\ ~(Top(M).CurIndex >= Size(Top(M).BBID))
               /\ Ins(Top(M).BBID, Top(M).CurIndex - 1) \in Instructions
    <3> DEFINE c == P[n - 1]
    <3>1. /\ Top(M).CurIndex = c.index /\ Top(M).BBID = c.bb /\ c \in ProgramFrames
          /\ Calls(c)
      BY <2>2, <2>3 DEF Exact
    <3> HIDE DEF c
    <3>2. /\ c.bb \in DOMAIN BB2Ins /\ c.index \in 1 .. Size(c.bb) - 1
          /\ Size(c.bb) \in Nat \ {0}
      BY <3>1, FrameFacts, BlockFacts DEF Calls
    <3>3. c.index - 1 \in 0 .. Size(c.bb) - 1
      BY <3>2
    <3>4. Ins(c.bb, c.index - 1) \in Instructions
      BY <3>2, <3>3, BlockFacts
    <3> QED
      BY <3>1, <3>2, <3>4
  <2> DEFINE N == Append(M, StackInfo(e.id, -1, 0))
  <2>4. N = Append(M, Exact(f))
    BY <1>2, <1>3, <1>6
  <2>5. Len(N) = n /\ N[n] = Exact(f) /\ \A k \in 1 .. n - 1 : N[k] = M[k]
    <3>1. /\ Len(N) = Len(M) + 1 /\ N[Len(M) + 1] = Exact(f)
          /\ \A k \in 1 .. Len(M) : N[k] = M[k]
      BY <1>3, <2>4, PushFacts
    <3> QED
      BY <1>1, <2>1, <3>1
  <2>6. M = <<>> => N = <<StackInfo(e.id, -1, 0)>>
    OBVIOUS
  <2> HIDE DEF N
  <2>7. InLoop(P, N)
    <3>1. \A k \in 1 .. n - 1 : N[k] = Exact(P[k])
      BY <1>1, <2>5
    <3> QED
      BY <1>1, <1>2, <1>5, <2>5, <3>1, LoopsAt
  <2> QED
    BY <2>3, <2>6, <2>7 DEF N
<1>7. CASE f.last # -1
  <2>1. /\ Len(M) = n /\ M[n].BBID = f.last /\ M[n].CurIndex = Size(f.last)
    BY <1>1, <1>2, <1>7
  <2>2. /\ M # <<>> /\ Top(M).BBID = f.last /\ Top(M).CurIndex = Size(f.last)
    BY <1>1, <1>4, <2>1
  <2>3. Top(M).CurIndex >= Size(Top(M).BBID)
    BY <1>3, <1>7, <2>2, BlockFacts
  <2> DEFINE N == SetTop(M, StackInfo(e.id, Top(M).BBID, 0))
  <2>4. N = SetTop(M, Exact(f))
    BY <1>2, <1>3, <2>2
  <2>5. Len(N) = n /\ N[n] = Exact(f) /\ \A k \in 1 .. n - 1 : N[k] = M[k]
    <3>1. /\ Len(SetTop(M, Exact(f))) = Len(M) /\ SetTop(M, Exact(f))[Len(M)] = Exact(f)
          /\ \A k \in 1 .. Len(M) - 1 : SetTop(M, Exact(f))[k] = M[k]
      <4>1. M # <<>> /\ Exact(f) \in StackFrames
        BY <1>3, <2>2
      <4> HIDE DEF N
      <4> QED
        BY <4>1, SetTopFacts
    <3> QED
      BY <2>1, <2>4, <3>1
  <2> HIDE DEF N
  <2>6. InLoop(P, N)
    <3>1. \A k \in 1 .. n - 1 : N[k] = Exact(P[k])
      BY <1>1, <2>5
    <3> QED
      BY <1>1, <1>2, <1>5, <2>5, <3>1, LoopsAt
  <2> QED
    BY <2>2, <2>3, <2>6 DEF N
<1> QED
  BY <1>6, <1>7

-----------------------------------------------------------------------------
(* The while loop                                                          *)

(* A round of the loop.                                                    *)
LEMMA LoopRound ==
  ASSUME NEW P, Stack(P), NEW M \in Seq(StackFrames), InLoop(P, M)
  PROVE  LET info == Top(M)
             end == EndIndex(info.BBID, info.CurIndex) IN
         /\ M = <<>> => InStep(P, M)
         /\ M # <<>> /\ end = info.CurIndex => ~ReturnsAt(info.BBID, end) /\ InStep(P, M)
         /\ M # <<>> /\ ~ReturnsAt(info.BBID, end) =>
               InStep(P, SetTop(M, [info EXCEPT !.CurIndex = end]))
         /\ M # <<>> /\ ReturnsAt(info.BBID, end) => InLoop(P, Pop(M)) /\ CallerWaits(Pop(M))
<1> DEFINE info == Top(M)
           end == EndIndex(info.BBID, info.CurIndex)
<1>1. PICK m \in 0 .. Len(P) : Closed(P, m, M)
  BY DEF InLoop
<1>2. Len(P) \in Nat /\ \A k \in 1 .. Len(P) : P[k] \in ProgramFrames
  BY StackFacts
<1>3. /\ Above(P, m) /\ Len(M) = m /\ \A k \in 1 .. m : M[k] = Exact(P[k])
      /\ m > 0 => P[m].index >= 0
  BY <1>1 DEF Closed, Below
<1>4. M = <<>> <=> m = 0
  BY <1>2, <1>3
<1>5. ASSUME M = <<>> PROVE InStep(P, M)
  BY <1>2, <1>3, <1>4, <1>5 DEF InStep, AtEvent
<1>6. SUFFICES ASSUME M # <<>>
      PROVE  /\ end = info.CurIndex => ~ReturnsAt(info.BBID, end) /\ InStep(P, M)
             /\ ~ReturnsAt(info.BBID, end) =>
                   InStep(P, SetTop(M, [info EXCEPT !.CurIndex = end]))
             /\ ReturnsAt(info.BBID, end) => InLoop(P, Pop(M)) /\ CallerWaits(Pop(M))
  BY <1>5
<1> DEFINE f == P[m]
           N == SetTop(M, [info EXCEPT !.CurIndex = end])
<1>7. /\ m \in 1 .. Len(P) /\ f \in ProgramFrames /\ f.index >= 0 /\ info = Exact(f)
  BY <1>2, <1>3, <1>4, <1>6 DEF Top
<1> HIDE DEF f, info
<1>8. /\ info.BBID = f.bb /\ info.CurIndex = f.index /\ end = EndIndex(f.bb, f.index)
      /\ ReturnsAt(info.BBID, end) <=> Returning(f)
  BY <1>7 DEF Exact, Returning
<1>9. [info EXCEPT !.CurIndex = end] = Ahead(f)
  BY <1>7, <1>8 DEF Exact, Ahead
<1> HIDE DEF end
<1>10. Below(P, m - 1, M)
  BY <1>2, <1>3, <1>7 DEF Below
<1>11. ASSUME end = info.CurIndex PROVE ~ReturnsAt(info.BBID, end) /\ InStep(P, M)
  <2>1. ~ReturnsAt(info.BBID, end)
    BY <1>7, <1>8, <1>11, FrameFacts
  <2>2. M[m] = Ahead(f)
    BY <1>2, <1>3, <1>7, <1>8, <1>11 DEF Exact, Ahead, f
  <2>3. AtEvent(P, m, M)
    BY <1>2, <1>3, <1>7, <1>8, <1>10, <2>1, <2>2 DEF AtEvent, f
  <2> QED
    BY <2>1, <2>3 DEF InStep
<1>12. ASSUME ~ReturnsAt(info.BBID, end) PROVE InStep(P, N)
  <2>1. Ahead(f) \in StackFrames
    BY <1>7, FrameFacts
  <2>2. /\ Len(SetTop(M, Ahead(f))) = Len(M) /\ SetTop(M, Ahead(f))[Len(M)] = Ahead(f)
        /\ \A k \in 1 .. Len(M) - 1 : SetTop(M, Ahead(f))[k] = M[k]
    BY <1>6, <2>1, SetTopFacts
  <2>3. Len(N) = m /\ N[m] = Ahead(f) /\ \A k \in 1 .. m - 1 : N[k] = M[k]
    BY <1>3, <1>9, <2>2
  <2> HIDE DEF N
  <2>4. Below(P, m - 1, N)
    BY <1>10, <2>3 DEF Below
  <2>5. AtEvent(P, m, N)
    BY <1>2, <1>3, <1>7, <1>8, <1>12, <2>3, <2>4 DEF AtEvent, f
  <2> QED
    BY <2>5 DEF InStep
<1>13. ASSUME ReturnsAt(info.BBID, end) PROVE InLoop(P, Pop(M)) /\ CallerWaits(Pop(M))
  <2> DEFINE N1 == Pop(M)
  <2>1. /\ Len(N1) = m - 1 /\ \A k \in 1 .. m - 1 : N1[k] = M[k]
        /\ N1 # <<>> => m - 1 \in 1 .. m /\ Top(N1) = M[m - 1]
    <3>1. /\ Len(N1) = Len(M) - 1 /\ Len(M) \in Nat \ {0} /\ N1 \in Seq(StackFrames)
          /\ \A k \in 1 .. Len(M) - 1 : N1[k] = M[k]
          /\ N1 # <<>> => Top(N1) = M[Len(M) - 1]
      BY <1>6, PopFacts
    <3> QED
      BY <1>3, <3>1
  <2> HIDE DEF N1
  <2>2. m - 1 > 0 => P[m - 1] \in ProgramFrames /\ P[m - 1].index > 0
    BY <1>2, <1>7, StackFacts
  <2>3. Above(P, m - 1)
    BY <1>2, <1>3, <1>7, <1>8, <1>13 DEF Above, f
  <2>4. Below(P, m - 1, N1)
    BY <1>10, <2>1 DEF Below
  <2>5. Closed(P, m - 1, N1)
    BY <2>1, <2>2, <2>3, <2>4 DEF Closed, ProgramFrames
  <2>6. InLoop(P, N1)
    BY <1>2, <1>7, <2>5 DEF InLoop
  <2>7. ASSUME N1 # <<>> PROVE Top(N1).CurIndex < Size(Top(N1).BBID)
    <3> DEFINE c == P[m - 1]
    <3>1. c \in ProgramFrames /\ Top(N1) = Exact(c)
      BY <1>3, <1>7, <2>1, <2>2, <2>7
    <3> HIDE DEF c
    <3>2. c.bb \in DOMAIN BB2Ins /\ c.index \in -1 .. Size(c.bb) - 1
      BY <3>1, FrameFacts
    <3> QED
      BY <3>1, <3>2, BlockFacts DEF Exact
  <2> QED
    BY <2>6, <2>7 DEF CallerWaits, N1
<1> QED
  BY <1>11, <1>12, <1>13 DEF info, end

(* A frame that has been gone on with stays where it is, unless it has     *)
(* just called.                                                            *)
LEMMA NotAwaiting ==
  ASSUME NEW P, Stack(P), NEW M \in Seq(StackFrames), InStep(P, M),
         M # <<>> => LET f == Top(M) IN
                     ~(/\ f.CurIndex > 0 /\ IsCall(Ins(f.BBID, f.CurIndex - 1))
                       /\ EndIndex(f.BBID, f.CurIndex) > f.CurIndex)
  PROVE  Stays(M)
<1> DEFINE info == Top(M)
           end == EndIndex(info.BBID, info.CurIndex)
<1> SUFFICES ASSUME M # <<>>
             PROVE  end = info.CurIndex /\ ~ReturnsAt(info.BBID, info.CurIndex)
  BY DEF Stays
<1>1. PICK m \in 0 .. Len(P) : AtEvent(P, m, M)
  BY DEF InStep
<1>2. Len(P) \in Nat /\ \A k \in 1 .. Len(P) : P[k] \in ProgramFrames
  BY StackFacts
<1>3. ~(/\ info.CurIndex > 0 /\ IsCall(Ins(info.BBID, info.CurIndex - 1))
        /\ end > info.CurIndex)
  OBVIOUS
<1>4. Len(M) \in Nat \ {0} /\ info = M[Len(M)]
  BY DEF Top
<1>5. m > 0 /\ P[m] \in ProgramFrames
  BY <1>1, <1>2 DEF AtEvent
<1> HIDE DEF info
<1>6. CASE P[m].index >= 0
  <2> DEFINE f == P[m]
  <2>1. info = Ahead(f) /\ ~Returning(f) /\ f \in ProgramFrames /\ f.index >= 0
    BY <1>1, <1>4, <1>5, <1>6 DEF AtEvent
  <2> HIDE DEF f
  <2>2. /\ info.BBID = f.bb /\ info.CurIndex = EndIndex(f.bb, f.index)
        /\ ~ReturnsAt(info.BBID, info.CurIndex)
    BY <2>1 DEF Ahead, Returning
  <2>3. f.bb \in DOMAIN BB2Ins /\ f.index \in 0 .. Size(f.bb)
    BY <2>1, FrameFacts, BlockFacts
  <2>4. end = info.CurIndex
    BY <1>3, <2>2, <2>3, EndIndexTwice
  <2> QED
    BY <2>2, <2>4
<1>7. CASE P[m].index = -1 /\ P[m].last = -1
  <2> DEFINE c == P[m - 1]
  <2>1. Len(M) = m - 1 /\ Below(P, m - 1, M)
    BY <1>1, <1>5, <1>7 DEF AtEvent
  <2>2. info = Exact(c) /\ c \in ProgramFrames /\ Calls(c)
    BY <1>2, <1>4, <2>1, StackFacts DEF Below
  <2> HIDE DEF c
  <2>3. /\ info.BBID = c.bb /\ info.CurIndex = c.index /\ c.index > 0
        /\ IsCall(Ins(c.bb, c.index - 1)) /\ ~ReturnsAt(c.bb, c.index)
        /\ c.bb \in DOMAIN BB2Ins /\ c.index \in -1 .. Size(c.bb) - 1
    BY <2>2, FrameFacts DEF Exact, Calls
  <2>4. c.index \in 0 .. Size(c.bb) /\ Size(c.bb) \in Nat
    BY <2>3, BlockFacts
  <2>5. end \in c.index .. Size(c.bb)
    BY <2>3, <2>4, EndIndexStep
  <2> QED
    BY <1>3, <2>3, <2>4, <2>5
<1>8. CASE P[m].index = -1 /\ P[m].last # -1
  <2> DEFINE f == P[m]
  <2>1. info.BBID = f.last /\ info.CurIndex = Size(f.last) /\ f \in ProgramFrames /\ f.last # -1
    BY <1>1, <1>4, <1>5, <1>8 DEF AtEvent
  <2> HIDE DEF f
  <2>2. f.last \in DOMAIN BB2Ins /\ ~ReturnsAt(f.last, Size(f.last))
    BY <2>1, FrameFacts
  <2>3. Size(f.last) \in 0 .. Size(f.last)
    BY <2>2, BlockFacts
  <2> QED
    BY <2>1, <2>2, <2>3, EndIndexStep
<1> QED
  BY <1>5, <1>6, <1>7, <1>8 DEF ProgramFrames

(* Below the top frame of MergeTrace the frames are those of callers.      *)
LEMMA CallersWait ==
  ASSUME NEW P, Stack(P), NEW M \in Seq(StackFrames), InStep(P, M)
  PROVE  \A k \in 1 .. Len(M) - 1 : M[k].CurIndex < Size(M[k].BBID)
<1> SUFFICES ASSUME NEW k \in 1 .. Len(M) - 1
             PROVE  M[k].CurIndex < Size(M[k].BBID)
  OBVIOUS
<1>1. PICK m \in 0 .. Len(P) : AtEvent(P, m, M)
  BY DEF InStep
<1>2. Len(P) \in Nat /\ \A j \in 1 .. Len(P) : P[j] \in ProgramFrames
  BY StackFacts
<1>3. m > 0 /\ P[m] \in ProgramFrames /\ Len(M) \in Nat
  BY <1>1, <1>2 DEF AtEvent
<1>4. Len(M) <= m /\ Below(P, m - 1, M)
  BY <1>1, <1>3 DEF AtEvent, ProgramFrames
<1>5. k \in 1 .. m - 1
  BY <1>3, <1>4
<1>6. M[k] = Exact(P[k]) /\ P[k] \in ProgramFrames
  BY <1>2, <1>4, <1>5 DEF Below
<1>7. P[k].bb \in DOMAIN BB2Ins /\ P[k].index \in -1 .. Size(P[k].bb) - 1
  BY <1>6, FrameFacts
<1> QED
  BY <1>6, <1>7, BlockFacts DEF Exact

-----------------------------------------------------------------------------
(* The steps                                                               *)

(* Everything is empty at first.                                           *)
LEMMA InitSync == Init => SInv
<1> SUFFICES ASSUME Init PROVE SInv
  OBVIOUS
<1>1. Stacks
  BY DEF Init, ProgramInit, Stacks, Stack
<1>2. Events /\ Pointers /\ Waiting /\ IsFirsts /\ failed = FALSE
  BY DEF Init, ProgramInit, Events, Pointers, Waiting, IsFirsts, NoEvent
<1>3. Synchronised
  <2>1. InStep(<<>>, <<>>)
    BY DEF InStep, AtEvent, Above
  <2>2. event.label = "none" /\ place = "next"
    BY DEF Init, ProgramInit, NoEvent
  <2>3. \A t \in Threads : exec[t] = <<>> /\ call_stack[t] = <<>> /\ ~OnTheWay(event, t)
    BY <2>2 DEF Init, ProgramInit, OnTheWay, Steps
  <2> QED
    BY <2>1, <2>2, <2>3 DEF Synchronised
<1> QED
  BY <1>1, <1>2, <1>3 DEF SInv

(* Between the events every thread is in step.                             *)
LEMMA AllInStep ==
  ASSUME SInv, place = "next", event = NoEvent
  PROVE  \A t \in Threads :
            /\ InStep(exec[t], call_stack[t]) /\ Stack(exec[t])
            /\ call_stack[t] \in Seq(StackFrames) /\ (call_stack[t] = <<>> => Len(call_stack[t]) = 0)
<1>1. \A t \in Threads : ~OnTheWay(event, t)
  BY DEF OnTheWay, NoEvent, Steps
<1> QED
  BY <1>1 DEF SInv, Synchronised, Stacks

(* The program executes an instruction of thread t that records nothing.   *)
LEMMA SilentStep ==
  ASSUME SInv, place = "next", event = NoEvent, UNCHANGED mergeVars, Silent,
         NEW t \in Threads, NEW Q, exec' = [exec EXCEPT ![t] = Q], Stack(Q),
         InStep(Q, call_stack[t])
  PROVE  SInv'
<1>1. Stacks'
  BY DEF SInv, Stacks, mergeVars
<1>2. Events' /\ Pointers' /\ Waiting' /\ IsFirsts' /\ failed' = FALSE
  BY DEF SInv, Events, Pointers, Waiting, IsFirsts, mergeVars, Silent
<1>3. Synchronised'
  <2>1. \A u \in Threads : ~OnTheWay(event', u)
    BY DEF OnTheWay, NoEvent, Steps, Silent
  <2>2. \A u \in Threads : InStep(exec'[u], call_stack'[u])
    BY AllInStep DEF mergeVars, SInv, Stacks
  <2>3. place' = "next"
    BY DEF mergeVars
  <2> QED
    BY <2>1, <2>2, <2>3 DEF Synchronised
<1> QED
  BY <1>1, <1>2, <1>3 DEF SInv

(* The program executes an instruction of thread t that records event e.   *)
LEMMA EmitStep ==
  ASSUME SInv, place = "next", event = NoEvent, UNCHANGED mergeVars,
         NEW t \in Threads, NEW Q, exec' = [exec EXCEPT ![t] = Q], Stack(Q),
         NEW e, Emit(e), e.tid = t, Announced(e, Q, call_stack[t]),
         e.label \in Steps \cup {"BasicBlock"}, Events'
  PROVE  SInv'
<1>1. Stacks'
  BY DEF SInv, Stacks, mergeVars
<1>2. event' = e /\ last_tid' = t
  BY DEF Emit
<1>3. Pointers' /\ Waiting' /\ IsFirsts' /\ failed' = FALSE
  BY <1>2 DEF SInv, Pointers, Waiting, IsFirsts, mergeVars, Steps
<1>4. Synchronised'
  <2>1. \A u \in Threads : OnTheWay(event', u) <=> u = t
    BY <1>2 DEF OnTheWay
  <2>2. \A u \in Threads \ {t} : InStep(exec'[u], call_stack'[u])
    BY AllInStep DEF mergeVars, SInv, Stacks
  <2>3. Announced(event', exec'[t], call_stack'[t])
    BY <1>2 DEF mergeVars, SInv, Stacks
  <2>4. place' = "next"
    BY DEF mergeVars
  <2> QED
    BY <2>1, <2>2, <2>3, <2>4 DEF Synchronised
<1> QED
  BY <1>1, <1>3, <1>4 DEF SInv

(* The trace goes on by something that changes no frame of the program.    *)
LEMMA OtherEvent ==
  ASSUME SInv, place = "next", event = NoEvent, UNCHANGED <<mergeVars, exec>>,
         event'.label \notin Steps \cup {"BasicBlock"}, Events', Pointers'
  PROVE  SInv'
<1>1. Stacks' /\ Waiting' /\ IsFirsts' /\ failed' = FALSE
  BY DEF SInv, Stacks, Waiting, IsFirsts, mergeVars
<1>2. Synchronised'
  <2>1. \A u \in Threads : ~OnTheWay(event', u)
    BY DEF OnTheWay
  <2>2. \A u \in Threads : InStep(exec'[u], call_stack'[u])
    BY AllInStep DEF mergeVars
  <2>3. place' = "next"
    BY DEF mergeVars
  <2> QED
    BY <2>1, <2>2, <2>3 DEF Synchronised
<1> QED
  BY <1>1, <1>2 DEF SInv

(* A thread whose stack is empty enters a function.                        *)
LEMMA EntersOuter ==
  ASSUME NEW t \in Threads, StartThread(t) \/ RunOuter(t)
  PROVE  \E bb \in DOMAIN BB2Ins :
            /\ Silent /\ exec[t] = <<>> /\ executed' = executed
            /\ exec' = [exec EXCEPT ![t] = <<Frame(bb, -1)>>]
<1>1. CASE StartThread(t)
  BY <1>1, ThreadAssumption DEF StartThread
<1>2. CASE RunOuter(t)
  BY <1>2, ThreadAssumption DEF RunOuter
<1> QED
  BY <1>1, <1>2

(* There is a main thread.                                                 *)
LEMMA MainIsThread == Main \in Threads
<1>1. PICK m \in Threads : m \in Nat
  BY ThreadAssumption
<1> DEFINE above == {n \in 0 .. m : m - n \in Threads}
<1>2. above \subseteq 0 .. m /\ 0 \in above
  BY <1>1
<1>3. PICK n \in above : \A k \in above : k <= n
  BY <1>1, <1>2, Maximum
<1>4. m - n \in Threads /\ n \in 0 .. m
  BY <1>3
<1>5. ASSUME NEW u \in Threads PROVE m - n <= u
  <2>1. u \in Nat
    BY ThreadAssumption
  <2>2. u <= m => m - u \in above
    BY <1>1, <2>1
  <2> HIDE DEF above
  <2> QED
    BY <1>1, <1>3, <1>4, <2>1, <2>2
<1> QED
  BY <1>4, <1>5 DEF Main

(* The globals are declared while the main thread executes nothing.        *)
LEMMA DeclareFacts ==
  ASSUME DeclareGlobal
  PROVE  \E t \in Threads \cup {0} :
            /\ event' = [label |-> "Declare", tid |-> t] /\ last_tid' = t
            /\ t # 0 => exec[t] = <<>>
            /\ UNCHANGED <<exec, recorded, started, ended, executed>>
BY MainIsThread DEF DeclareGlobal, Emit

(* What is not a step of a thread leaves the frames of the program alone   *)
(* and announces no instruction.                                           *)
LEMMA QuietStep ==
  ASSUME DeclareGlobal \/ PlaceHolder \/ EndEvent(FALSE) \/ EndEvent(TRUE) \/ EndOfFile
  PROVE  /\ exec' = exec /\ executed' = executed
         /\ event = NoEvent => event'.label \notin Steps \cup {"BasicBlock"}
<1>1. CASE DeclareGlobal
  <2>1. PICK t : /\ event' = [label |-> "Declare", tid |-> t]
                 /\ exec' = exec /\ executed' = executed
    BY <1>1 DEF DeclareGlobal, Emit
  <2> QED
    BY <2>1 DEF Steps
<1>2. CASE PlaceHolder
  BY <1>2 DEF PlaceHolder, programVars, Steps
<1>3. ASSUME NEW opens, EndEvent(opens)
      PROVE  exec' = exec /\ executed' = executed /\ event'.label = "End"
  BY <1>3 DEF EndEvent
<1>4. CASE EndOfFile
  BY <1>4 DEF EndOfFile, NoEvent, Steps
<1> QED
  BY <1>1, <1>2, <1>3, <1>4 DEF Steps

(* The steps of a thread.                                                  *)
LEMMA ThreadStep ==
  ASSUME SInv, place = "next", event = NoEvent, UNCHANGED mergeVars,
         NEW t \in Threads, Step(t)
  PROVE  SInv'
<1> DEFINE P == exec[t]
           M == call_stack[t]
           f == Top(P)
<1>1. /\ Stack(P) /\ InStep(P, M) /\ (M = <<>> => Len(M) = 0)
  BY AllInStep
<1>3. CASE StartThread(t) \/ RunOuter(t)
  <2>1. PICK bb \in DOMAIN BB2Ins :
            Silent /\ P = <<>> /\ exec' = [exec EXCEPT ![t] = <<Frame(bb, -1)>>]
    BY <1>3, EntersOuter
  <2>2. Stack(<<Frame(bb, -1)>>) /\ InStep(<<Frame(bb, -1)>>, M)
    BY <1>1, <2>1, InStepStart
  <2> QED
    BY <2>1, <2>2, SilentStep
<1>4. CASE EnterBlock(t)
  <2> DEFINE e == [label |-> "BasicBlock", tid |-> t, id |-> f.bb]
             Q == SetTop(P, [f EXCEPT !.index = 0])
  <2>1. /\ P # <<>> /\ f.index = -1 /\ Emit(e)
        /\ exec' = [exec EXCEPT ![t] = Q]
    BY <1>4 DEF EnterBlock
  <2>2. e.label = "BasicBlock" /\ e.id = f.bb /\ e.tid = t
    OBVIOUS
  <2>3. f.bb \in DOMAIN BB2Ins
    BY <1>1, <2>1, StackTop
  <2> HIDE DEF P, f, M
  <2>4. Events'
    BY <2>1, <2>3 DEF Events, Emit
  <2> HIDE DEF e
  <2>5. Stack(Q) /\ Announced(e, Q, M)
    BY <1>1, <2>1, <2>2, AnnouncesBlock DEF f
  <2> HIDE DEF Q
  <2> QED
    BY <2>1, <2>2, <2>4, <2>5, EmitStep DEF M
<1>5. ASSUME NEW i \in Instructions, At(t, i), exec[t] # <<>>, f.index >= 0,
             i = Ins(f.bb, f.index),
             \/ PlainStep(t, i) \/ AccessStep(t, i) \/ RecordArgument(t, i)
             \/ ExternalCall(t, i) \/ Call(t, i) \/ Branch(t, i) \/ Return(t, i)
      PROVE  SInv'
  <2> DEFINE g == [f EXCEPT !.index = @ + 1]
             Q == SetTop(P, g)
  <2>1. Advance(t) = g
    BY <1>5 DEF Advance
  <2>2. CASE PlainStep(t, i)
    <3>1. /\ exec' = [exec EXCEPT ![t] = Q] /\ Type[i] \in Plain /\ Silent
      BY <2>1, <2>2 DEF PlainStep
    <3>2. Stack(Q) /\ InStep(Q, M)
      BY <1>1, <1>5, <3>1, InStepPlain
    <3> HIDE DEF Q
    <3> QED
      BY <2>1, <3>1, <3>2, SilentStep
  <2>3. ASSUME NEW e, Emit(e), e.label \in Steps, e.tid = t, e.id = i, Records(i),
               e \in [label : Steps, tid : Threads, id : Instructions],
               exec' = [exec EXCEPT ![t] = Q]
        PROVE  SInv'
    <3>1. Stack(Q) /\ Announced(e, Q, M)
      BY <1>1, <1>5, <2>3, AnnouncesAccess
    <3> HIDE DEF Q
    <3>2. Events'
      BY <2>3 DEF Events, Emit
    <3> QED
      BY <2>1, <2>3, <3>1, <3>2, EmitStep
  <2>4. CASE AccessStep(t, i)
    <3> DEFINE e == [label |-> AccessLabel(i), tid |-> t, id |-> i]
    <3>1. /\ exec' = [exec EXCEPT ![t] = Q] /\ Emit(e) /\ Accesses(i)
      BY <2>1, <2>4 DEF AccessStep
    <3>2. AccessLabel(i) \in Steps
      BY DEF AccessLabel, Steps
    <3>3. Records(i)
      BY <3>1 DEF Accesses, Records, IsCall, Continuous
    <3>4. e \in [label : Steps, tid : Threads, id : Instructions]
      BY <3>2
    <3> HIDE DEF Q
    <3> QED
      BY <2>3, <3>1, <3>2, <3>3, <3>4
  <2>5. CASE ExternalCall(t, i)
    <3> DEFINE e == [label |-> "Return", tid |-> t, id |-> i]
    <3>1. /\ exec' = [exec EXCEPT ![t] = Q] /\ Emit(e)
          /\ Type[i] = "ExternalCallInst"
      BY <2>1, <2>5 DEF ExternalCall
    <3>2. Records(i)
      BY <3>1 DEF Records, IsCall, Continuous
    <3>3. e \in [label : Steps, tid : Threads, id : Instructions] /\ e.label \in Steps
      BY DEF Steps
    <3> HIDE DEF Q
    <3> QED
      BY <2>3, <3>1, <3>2, <3>3
  <2>6. CASE RecordArgument(t, i)
    <3>1. PICK a : Emit([label |-> "Argument", tid |-> t, addr |-> a])
      BY <2>6 DEF RecordArgument
    <3>2. exec' = exec
      BY <2>6 DEF RecordArgument
    <3>3. /\ event' = [label |-> "Argument", tid |-> t, addr |-> a] /\ last_tid' = t
      BY <3>1 DEF Emit
    <3>4. event'.label \notin Steps \cup {"BasicBlock"} /\ Events'
      BY <3>3 DEF Events, Steps
    <3>5. Pointers'
      BY <3>3 DEF SInv, Pointers, mergeVars
    <3> QED
      BY <3>2, <3>4, <3>5, OtherEvent
  <2>7. CASE Call(t, i)
    <3> DEFINE R == Append(Q, Frame(Callee[i], -1))
    <3>1. /\ exec' = [exec EXCEPT ![t] = R] /\ Silent
          /\ IsCall(i)
      BY <2>1, <2>7 DEF Call, IsCall
    <3>2. Callee[i] \in DOMAIN BB2Ins
      BY <3>1, GraphAssumption DEF IsCall
    <3>3. Stack(R) /\ InStep(R, M)
      BY <1>1, <1>5, <3>1, <3>2, InStepCall
    <3> HIDE DEF R
    <3> QED
      BY <2>1, <3>1, <3>3, SilentStep
  <2>8. CASE Branch(t, i)
    <3>1. PICK bb \in Successors[i] : exec' = [exec EXCEPT ![t] = SetTop(@, Frame(bb, Top(@).bb))]
      BY <2>8 DEF Branch
    <3> DEFINE R == SetTop(P, Frame(bb, f.bb))
    <3>2. /\ exec' = [exec EXCEPT ![t] = R] /\ Silent
          /\ Type[i] = "TerminatorInst"
      BY <2>8, <3>1 DEF Branch
    <3>3. bb \in DOMAIN BB2Ins
      BY <3>2, GraphAssumption
    <3>4. Stack(R) /\ InStep(R, M)
      BY <1>1, <1>5, <3>2, <3>3, InStepBranch
    <3> HIDE DEF R
    <3> QED
      BY <2>1, <3>2, <3>4, SilentStep
  <2>9. CASE Return(t, i)
    <3>1. /\ exec' = [exec EXCEPT ![t] = Pop(P)] /\ Silent
          /\ Type[i] = "ReturnInst"
      BY <2>9 DEF Return
    <3>2. Stack(Pop(P)) /\ InStep(Pop(P), M)
      BY <1>1, <1>5, <3>1, InStepReturn
    <3> QED
      BY <2>1, <3>1, <3>2, SilentStep
  <2> QED
    BY <1>5, <2>2, <2>4, <2>5, <2>6, <2>7, <2>8, <2>9
<1> QED
  <2>1. CASE StartThread(t) \/ RunOuter(t) \/ EnterBlock(t)
    BY <1>3, <1>4, <2>1
  <2>2. CASE ~(StartThread(t) \/ RunOuter(t) \/ EnterBlock(t))
    <3>1. PICK i \in Instructions :
             \/ PlainStep(t, i) \/ AccessStep(t, i) \/ RecordArgument(t, i)
             \/ ExternalCall(t, i) \/ Call(t, i) \/ Branch(t, i) \/ Return(t, i)
      BY <2>2 DEF Step
    <3>2. At(t, i)
      BY <3>1 DEF PlainStep, AccessStep, RecordArgument, ExternalCall, Call, Branch, Return
    <3>3. exec[t] # <<>> /\ f.index >= 0 /\ i = Ins(f.bb, f.index)
      BY <3>2 DEF At, Ins
    <3> QED
      BY <1>5, <3>1, <3>2, <3>3
  <2> QED
    BY <2>1, <2>2

(* The trace goes on: the program, or what stands between and after its    *)
(* events.                                                                 *)
LEMMA TraceStep ==
  ASSUME SInv, Trace, ~SplitCalls
  PROVE  SInv'
<1>1. event = NoEvent /\ place = "next" /\ UNCHANGED mergeVars
  BY DEF Trace
<1>2. CASE Program
  <2>1. CASE DeclareGlobal
    <3>1. PICK t \in Threads \cup {0} :
              /\ event' = [label |-> "Declare", tid |-> t] /\ last_tid' = t
              /\ t # 0 => exec[t] = <<>>
              /\ UNCHANGED exec
      BY <2>1, DeclareFacts
    <3>2. event'.label \notin Steps \cup {"BasicBlock"} /\ Events'
      BY <3>1 DEF Events, Steps
    <3>3. t # 0 => Stays(call_stack[t])
      BY <1>1, <3>1, AllInStep DEF InStep, AtEvent, Stays
    <3>4. Pointers'
      BY <1>1, <3>1, <3>3 DEF SInv, Pointers, mergeVars
    <3> QED
      BY <1>1, <3>1, <3>2, <3>4, OtherEvent
  <2> QED
    BY <1>1, <1>2, <2>1, ThreadStep DEF Program
<1>3. CASE \/ ~AwaitsCallee(last_tid) /\ (PlaceHolder \/ EndEvent(FALSE))
           \/ EndEvent(TRUE)
  <2>1. /\ event' = [label |-> "PlaceHolder"] \/ event' \in [label : {"End"}, opens : BOOLEAN]
        /\ last_tid # 0 /\ last_tid' = last_tid /\ UNCHANGED exec
    <3>1. CASE PlaceHolder
      BY <3>1 DEF PlaceHolder, programVars
    <3>2. ASSUME NEW opens \in BOOLEAN, EndEvent(opens)
          PROVE  event' \in [label : {"End"}, opens : BOOLEAN]
      BY <3>2 DEF EndEvent
    <3>3. CASE EndEvent(FALSE) \/ EndEvent(TRUE)
      BY <3>2, <3>3 DEF EndEvent
    <3> QED
      BY <1>3, <3>1, <3>3
  <2>2. event'.label \in {"PlaceHolder", "End"} /\ Events'
    BY <2>1 DEF Events
  <2>3. last_tid \in Threads /\ tid_ptr \in {0, last_tid}
    BY <1>1, <2>1 DEF SInv, Pointers, NoEvent
  <2>4. ~OpensBlock(event') => ~AwaitsCallee(last_tid)
    BY <1>3 DEF OpensBlock, EndEvent
  <2>5. ~OpensBlock(event') => Stays(call_stack[last_tid])
    <3> SUFFICES ASSUME ~OpensBlock(event') PROVE Stays(call_stack[last_tid])
      OBVIOUS
    <3> DEFINE M == call_stack[last_tid]
    <3>1. M # <<>> => ~(/\ Top(M).CurIndex > 0 /\ IsCall(Ins(Top(M).BBID, Top(M).CurIndex - 1))
                        /\ EndIndex(Top(M).BBID, Top(M).CurIndex) > Top(M).CurIndex)
      BY <2>1, <2>4 DEF AwaitsCallee, IsCall
    <3> QED
      BY <1>1, <2>3, <3>1, AllInStep, NotAwaiting
  <2>6. Pointers'
    BY <1>1, <2>1, <2>2, <2>3, <2>5 DEF SInv, Pointers, mergeVars
  <2>7. event'.label \notin Steps \cup {"BasicBlock"}
    BY <2>2 DEF Steps
  <2> QED
    BY <1>1, <2>1, <2>2, <2>6, <2>7, OtherEvent
<1>4. CASE EndOfFile
  <2>1. event' = event /\ last_tid' = last_tid /\ UNCHANGED exec
    BY <1>4 DEF EndOfFile
  <2>2. event'.label \notin Steps \cup {"BasicBlock"} /\ Events'
    BY <1>1, <2>1 DEF Events, Steps, NoEvent
  <2>3. Pointers'
    BY <1>1, <2>1 DEF SInv, Pointers, mergeVars
  <2> QED
    BY <1>1, <2>1, <2>2, <2>3, OtherEvent
<1> QED
  BY <1>2, <1>3, <1>4 DEF Trace

(* Reading an event of thread t that was on the way, and the first round   *)
(* of the loop for it.                                                     *)
LEMMA ReadStep ==
  ASSUME SInv, place = "next", event # NoEvent, event' = NoEvent,
         UNCHANGED <<programVars, last_tid, failed>>, NEW t \in Threads, OnTheWay(event, t),
         NEW N \in Seq(StackFrames), call_stack' = [call_stack EXCEPT ![t] = N],
         InLoop(exec[t], N), tid_ptr' = t, place' = "loop", IsFirsts'
  PROVE  SInv'
<1>1. Stacks'
  BY DEF SInv, Stacks, programVars
<1>2. Events' /\ Waiting' /\ failed' = FALSE
  BY DEF SInv, Events, Waiting, programVars
<1>3. Pointers'
  <2>1. last_tid = t
    BY DEF SInv, Pointers, OnTheWay, Steps
  <2> QED
    BY <2>1 DEF Pointers, NoEvent
<1>4. Synchronised'
  <2>1. \A u \in Threads : ~OnTheWay(event', u)
    BY DEF OnTheWay, Steps, NoEvent
  <2>2. \A u \in Threads \ {t} : InStep(exec[u], call_stack[u])
    BY DEF SInv, Synchronised, OnTheWay
  <2>3. \A u \in Threads \ {t} : InStep(exec'[u], call_stack'[u])
    BY <2>2 DEF programVars, SInv, Stacks
  <2>4. InLoop(exec'[t], call_stack'[t])
    BY DEF programVars, SInv, Stacks
  <2> QED
    BY <2>1, <2>3, <2>4 DEF Synchronised
<1> QED
  BY <1>1, <1>2, <1>3, <1>4 DEF SInv

(* Reading an event that leaves the stacks alone.                          *)
LEMMA ReadOther ==
  ASSUME SInv, place = "next", event' = NoEvent,
         UNCHANGED <<programVars, last_tid, failed, call_stack, is_first>>,
         event.label \notin Steps \cup {"BasicBlock"}, Pointers',
         \/ place' = "next" \/ (place' = "loop" /\ tid_ptr' \in Threads /\ Stays(call_stack[tid_ptr']))
  PROVE  SInv'
<1>1. Stacks' /\ Events' /\ Waiting' /\ IsFirsts' /\ failed' = FALSE
  BY DEF SInv, Stacks, Events, Waiting, IsFirsts, programVars
<1>2. Synchronised'
  <2>1. \A u \in Threads : ~OnTheWay(event', u)
    BY DEF OnTheWay, Steps, NoEvent
  <2>2. \A u \in Threads : InStep(exec[u], call_stack[u])
    BY DEF SInv, Synchronised, OnTheWay
  <2>3. \A u \in Threads : InStep(exec'[u], call_stack'[u])
    BY <2>2 DEF programVars
  <2>4. place' = "loop" => Stays(call_stack'[tid_ptr'])
    OBVIOUS
  <2> QED
    BY <2>1, <2>3, <2>4 DEF Synchronised
<1> QED
  BY <1>1, <1>2 DEF SInv

(* An event that is on the way.                                            *)
LEMMA OnTheWayFacts ==
  ASSUME SInv, place = "next", event.label \in Steps \cup {"BasicBlock"}
  PROVE  /\ event.tid \in Threads /\ OnTheWay(event, event.tid) /\ event # NoEvent
         /\ Stack(exec[event.tid]) /\ call_stack[event.tid] \in Seq(StackFrames)
         /\ Announced(event, exec[event.tid], call_stack[event.tid])
         /\ event.label = "BasicBlock" => event.id \in DOMAIN BB2Ins
<1>1. /\ event.tid \in Threads /\ (event.label = "BasicBlock" => event.id \in DOMAIN BB2Ins)
  BY DEF SInv, Events, Steps, NoEvent
<1>2. OnTheWay(event, event.tid) /\ event # NoEvent
  BY DEF OnTheWay, Steps, NoEvent
<1> QED
  BY <1>1, <1>2 DEF SInv, Synchronised, Stacks

(* The events that name no instruction.                                    *)
LEMMA ReadOthers ==
  ASSUME SInv, ReadDeclare \/ ReadArgument \/ ReadHolder
  PROVE  SInv'
<1>1. /\ place = "next" /\ event' = NoEvent /\ event # NoEvent
      /\ UNCHANGED <<programVars, last_tid, failed, call_stack, is_first>>
  BY DEF ReadDeclare, ReadArgument, ReadHolder, Read
<1>2. CASE ReadArgument
  <2>1. event.label = "Argument" /\ tid_ptr' = event.tid /\ place' = place
    BY <1>2 DEF ReadArgument, Read
  <2>2. event.label \notin Steps \cup {"BasicBlock"}
    BY <2>1 DEF Steps
  <2>3. Pointers'
    BY <1>1, <2>1 DEF SInv, Pointers, NoEvent
  <2> QED
    BY <1>1, <2>1, <2>2, <2>3, ReadOther
<1>3. ASSUME event.label \in {"Declare", "PlaceHolder", "End"},
             place' = IF tid_ptr' = 0 THEN "next" ELSE "loop",
             tid_ptr' = 0 \/ (tid_ptr' \in Threads /\ tid_ptr' = last_tid
                                  /\ Stays(call_stack[tid_ptr']))
      PROVE  SInv'
  <2>1. event.label \notin Steps \cup {"BasicBlock"}
    BY <1>3 DEF Steps
  <2>2. Pointers'
    BY <1>1, <1>3, ThreadAssumption DEF SInv, Pointers, NoEvent
  <2>3. place' = "next" \/ (place' = "loop" /\ tid_ptr' \in Threads /\ Stays(call_stack[tid_ptr']))
    BY <1>3
  <2> QED
    BY <1>1, <2>1, <2>2, <2>3, ReadOther
<1>4. CASE ReadDeclare
  <2>1. /\ event.label = "Declare" /\ tid_ptr' = event.tid
        /\ place' = IF tid_ptr' = 0 THEN "next" ELSE "loop"
    BY <1>4 DEF ReadDeclare, Read
  <2>2. event.tid \in Threads \cup {0}
    BY <2>1 DEF SInv, Events, Steps, NoEvent
  <2>3. event.tid = last_tid /\ (event.tid # 0 => Stays(call_stack[event.tid]))
    BY <1>1, <2>1 DEF SInv, Pointers
  <2> QED
    BY <1>3, <2>1, <2>2, <2>3
<1>5. CASE ReadHolder
  <2>1. /\ event.label \in {"PlaceHolder", "End"}
        /\ tid_ptr' = IF OpensBlock(event) THEN 0 ELSE tid_ptr
        /\ place' = IF tid_ptr' = 0 THEN "next" ELSE "loop"
    BY <1>5 DEF ReadHolder, Read
  <2>2. tid_ptr \in Threads \cup {0} /\ tid_ptr \in {0, last_tid}
        /\ (~OpensBlock(event) /\ tid_ptr # 0 => Stays(call_stack[tid_ptr]))
    BY <1>1, <2>1 DEF SInv, Pointers
  <2> QED
    BY <1>3, <2>1, <2>2
<1> QED
  BY <1>2, <1>4, <1>5

(* The instruction of an access or an external call is the expected one:   *)
(* the assertion holds.                                                    *)
LEMMA ReadSteps ==
  ASSUME SInv, ReadAccess \/ ReadReturn
  PROVE  SInv'
<1> DEFINE t == event.tid
           M == call_stack[t]
           N == SetTop(M, [Top(M) EXCEPT !.CurIndex = @ + 1])
<1>1. /\ place = "next" /\ event' = NoEvent /\ event.label \in Steps
      /\ UNCHANGED <<programVars, last_tid>>
  BY DEF ReadAccess, ReadReturn, Read, Steps
<1>2. /\ t \in Threads /\ OnTheWay(event, t) /\ event # NoEvent /\ Stack(exec[t])
      /\ M \in Seq(StackFrames) /\ Announced(event, exec[t], M)
  BY <1>1, OnTheWayFacts
<1>3. /\ M # <<>> /\ Top(M).CurIndex < Size(Top(M).BBID)
      /\ Ins(Top(M).BBID, Top(M).CurIndex) = event.id /\ InLoop(exec[t], N)
  BY <1>1, <1>2, ReadsAccess
<1>4. Expected(t, event.id)
  BY <1>3 DEF Expected
<1>5. /\ call_stack' = [call_stack EXCEPT ![t] = N] /\ tid_ptr' = t /\ place' = "loop"
      /\ is_first' = [is_first EXCEPT ![t] = <<0, 0>>] /\ failed' = failed
  BY <1>2, <1>4 DEF ReadAccess, ReadReturn, Consume, SInv, Stacks
<1>6. N \in Seq(StackFrames)
  <2> DEFINE info == Top(M)
             next == [info EXCEPT !.CurIndex = @ + 1]
  <2>1. info \in StackFrames /\ info.CurIndex < Size(info.BBID)
    BY <1>2, <1>3, TopFacts
  <2> HIDE DEF info
  <2>2. info.CurIndex + 1 <= Size(info.BBID)
    BY <2>1, BlockFacts DEF StackFrames
  <2>3. next \in StackFrames
    BY <2>1, <2>2 DEF StackFrames
  <2> QED
    BY <1>2, <1>3, <2>3, SetTopFacts DEF info
<1>7. IsFirsts'
  <2>1. is_first' = [is_first EXCEPT ![t] = <<0, 0>>] /\ <<0, 0>> \in (0 .. 2) \X (Instructions \cup {0})
    BY <1>5
  <2> HIDE DEF t, N
  <2> QED
    BY <2>1 DEF SInv, IsFirsts
<1> HIDE DEF N, M, t
<1> QED
  BY <1>1, <1>2, <1>3, <1>5, <1>6, <1>7, ReadStep DEF M

(* A block entry.                                                          *)
LEMMA ReadBlock ==
  ASSUME SInv, ReadBasicBlock
  PROVE  SInv'
<1> DEFINE t == event.tid
           M == call_stack[t]
           info == Top(M)
<1>1. /\ place = "next" /\ event' = NoEvent /\ event.label = "BasicBlock"
      /\ UNCHANGED <<programVars, last_tid>> /\ failed' = failed
      /\ tid_ptr' = t /\ place' = "loop"
  BY DEF ReadBasicBlock, Read
<1>2. /\ t \in Threads /\ OnTheWay(event, t) /\ event # NoEvent /\ Stack(exec[t])
      /\ M \in Seq(StackFrames) /\ Announced(event, exec[t], M) /\ event.id \in DOMAIN BB2Ins
  BY <1>1, OnTheWayFacts
<1>3. /\ M = <<>> => InLoop(exec[t], <<StackInfo(event.id, -1, 0)>>)
      /\ M # <<>> /\ info.CurIndex >= Size(info.BBID) =>
            InLoop(exec[t], SetTop(M, StackInfo(event.id, info.BBID, 0)))
      /\ M # <<>> /\ ~(info.CurIndex >= Size(info.BBID)) =>
            /\ InLoop(exec[t], Append(M, StackInfo(event.id, -1, 0)))
            /\ Ins(info.BBID, info.CurIndex - 1) \in Instructions
  BY <1>1, <1>2, ReadsBlock
<1>4. \A last \in DOMAIN BB2Ins \cup {-1} : StackInfo(event.id, last, 0) \in StackFrames
  BY <1>2, BlockFacts DEF StackInfo, StackFrames
<1>5. ASSUME NEW N \in Seq(StackFrames), InLoop(exec[t], N),
             NEW first \in (0 .. 2) \X (Instructions \cup {0}),
             call_stack' = [call_stack EXCEPT ![t] = N],
             is_first' = [is_first EXCEPT ![t] = first]
      PROVE  SInv'
  <2>1. IsFirsts'
    BY <1>5 DEF SInv, IsFirsts
  <2> HIDE DEF t
  <2> QED
    BY <1>1, <1>2, <1>5, <2>1, ReadStep
<1>6. CASE NewThread(t)
  <2> DEFINE N == <<StackInfo(event.id, -1, 0)>>
             first == <<2, 0>>
  <2>1. M = <<>> /\ is_first' = [is_first EXCEPT ![t] = first]
        /\ call_stack' = [call_stack EXCEPT ![t] = N]
    BY <1>6 DEF ReadBasicBlock, NewThread, SameFunction
  <2>2. N \in Seq(StackFrames) /\ first \in (0 .. 2) \X (Instructions \cup {0})
    BY <1>4
  <2> HIDE DEF N, first
  <2> QED
    BY <1>3, <1>5, <2>1, <2>2 DEF N
<1>7. CASE SameFunction(t)
  <2> DEFINE N == SetTop(M, StackInfo(event.id, info.BBID, 0))
             first == <<0, 0>>
  <2>1. /\ M # <<>> /\ info.CurIndex >= Size(info.BBID)
        /\ is_first' = [is_first EXCEPT ![t] = first]
        /\ call_stack' = [call_stack EXCEPT ![t] = N]
    BY <1>2, <1>7 DEF ReadBasicBlock, NewThread, SameFunction
  <2>2. info.BBID \in DOMAIN BB2Ins
    BY <1>2, <2>1, TopFacts DEF StackFrames
  <2>3. N \in Seq(StackFrames) /\ first \in (0 .. 2) \X (Instructions \cup {0})
    BY <1>2, <1>4, <2>1, <2>2, SetTopFacts
  <2> HIDE DEF N, first
  <2> QED
    BY <1>3, <1>5, <2>1, <2>3 DEF N
<1>8. CASE ~NewThread(t) /\ ~SameFunction(t)
  <2> DEFINE N == Append(M, StackInfo(event.id, -1, 0))
             first == <<1, Ins(info.BBID, info.CurIndex - 1)>>
  <2>1. /\ M # <<>> /\ ~(info.CurIndex >= Size(info.BBID))
        /\ is_first' = [is_first EXCEPT ![t] = first]
        /\ call_stack' = [call_stack EXCEPT ![t] = N]
    BY <1>2, <1>8 DEF ReadBasicBlock, NewThread, SameFunction
  <2>2. N \in Seq(StackFrames) /\ first \in (0 .. 2) \X (Instructions \cup {0})
    BY <1>2, <1>3, <1>4, <2>1
  <2> HIDE DEF N, first
  <2> QED
    BY <1>3, <1>5, <2>1, <2>2 DEF N
<1> QED
  BY <1>6, <1>7, <1>8

(* A round of the loop that ends with another stack of the thread.         *)
LEMMA LoopStep ==
  ASSUME SInv, place = "loop", UNCHANGED <<programVars, event, last_tid, tid_ptr, failed>>,
         NEW N \in Seq(StackFrames), call_stack' = [call_stack EXCEPT ![tid_ptr] = N],
         \/ place' = "loop" /\ InLoop(exec[tid_ptr], N)
         \/ place' = "next" /\ InStep(exec[tid_ptr], N), IsFirsts'
  PROVE  SInv'
<1>1. Stacks'
  BY DEF SInv, Stacks, programVars
<1>2. event = NoEvent /\ tid_ptr \in Threads
  BY DEF SInv, Pointers
<1>3. Events' /\ Pointers' /\ Waiting' /\ failed' = FALSE
  BY <1>2 DEF SInv, Events, Pointers, Waiting, programVars, NoEvent
<1>4. Synchronised'
  <2>1. \A u \in Threads : ~OnTheWay(event, u) /\ ~OnTheWay(event', u)
    BY <1>2 DEF OnTheWay, Steps, NoEvent
  <2>2. \A u \in Threads \ {tid_ptr} : InStep(exec[u], call_stack[u])
    BY <2>1 DEF SInv, Synchronised
  <2>3. \A u \in Threads \ {tid_ptr} : InStep(exec'[u], call_stack'[u])
    BY <2>2 DEF programVars, SInv, Stacks
  <2>4. call_stack'[tid_ptr] = N /\ exec' = exec
    BY <1>2 DEF programVars, SInv, Stacks
  <2> QED
    BY <2>1, <2>3, <2>4 DEF Synchronised
<1> QED
  BY <1>1, <1>3, <1>4 DEF SInv

(* The while loop goes on to the next event of the thread, or closes a     *)
(* frame whose caller waits.                                               *)
LEMMA LoopKeeps ==
  ASSUME SInv, Loop
  PROVE  SInv'
<1> DEFINE t == tid_ptr
           M == call_stack[t]
           info == Top(M)
           end == EndIndex(info.BBID, info.CurIndex)
           moved == SetTop(M, [info EXCEPT !.CurIndex = end])
<1>1. place = "loop" /\ UNCHANGED <<programVars, event, last_tid, args, tid_ptr>>
  BY DEF Loop
<1>2. /\ t \in Threads /\ Stack(exec[t]) /\ M \in Seq(StackFrames) /\ event = NoEvent
      /\ DOMAIN call_stack = Threads /\ call_stack = [call_stack EXCEPT ![t] = M]
  BY <1>1 DEF SInv, Pointers, Stacks
<1>3. InLoop(exec[t], M) \/ (InStep(exec[t], M) /\ Stays(M))
  <2>1. ~OnTheWay(event, t)
    BY <1>2 DEF OnTheWay, Steps, NoEvent
  <2> QED
    BY <1>1, <1>2, <2>1 DEF SInv, Synchronised
<1>4. IsFirsts /\ (is_first' = is_first \/ is_first' = [is_first EXCEPT ![t] = <<0, 0>>])
  BY DEF SInv, Loop
<1>5. IsFirsts'
  <2>1. <<0, 0>> \in (0 .. 2) \X (Instructions \cup {0})
    OBVIOUS
  <2> HIDE DEF t
  <2> QED
    BY <1>4, <2>1 DEF IsFirsts
<1>6. M # <<>> => info \in StackFrames /\ end \in info.CurIndex .. Size(info.BBID)
  <2> SUFFICES ASSUME M # <<>> PROVE info \in StackFrames /\ end \in info.CurIndex .. Size(info.BBID)
    OBVIOUS
  <2>1. info \in StackFrames
    BY <1>2, TopFacts
  <2> HIDE DEF info
  <2>2. info.BBID \in DOMAIN BB2Ins /\ info.CurIndex \in Nat /\ info.CurIndex <= Size(info.BBID)
    BY <2>1 DEF StackFrames
  <2>3. info.CurIndex \in 0 .. Size(info.BBID)
    BY <2>2, BlockFacts
  <2> QED
    BY <2>1, <2>2, <2>3, EndIndexStep
<1>7. CASE InStep(exec[t], M) /\ Stays(M)
  <2>1. M # <<>> => end = info.CurIndex /\ ~ReturnsAt(info.BBID, end)
    BY <1>7 DEF Stays
  <2>2. M # <<>> => ~(end > info.CurIndex)
    BY <1>6, <2>1 DEF StackFrames
  <2>3. place' = "next" /\ call_stack' = call_stack /\ failed' = failed
    BY <2>1, <2>2 DEF Loop
  <2>4. call_stack' = [call_stack EXCEPT ![tid_ptr] = M]
    BY <1>2, <2>3
  <2> HIDE DEF M, t
  <2> QED
    BY <1>1, <1>2, <1>5, <1>7, <2>3, <2>4, LoopStep DEF t
<1>8. CASE InLoop(exec[t], M)
  <2>1. /\ M = <<>> => InStep(exec[t], M)
        /\ M # <<>> /\ end = info.CurIndex => ~ReturnsAt(info.BBID, end) /\ InStep(exec[t], M)
        /\ M # <<>> /\ ~ReturnsAt(info.BBID, end) => InStep(exec[t], moved)
        /\ M # <<>> /\ ReturnsAt(info.BBID, end) =>
              InLoop(exec[t], Pop(M)) /\ CallerWaits(Pop(M))
    BY <1>2, <1>8, LoopRound
  <2>2. CASE M = <<>> \/ (M # <<>> /\ end = info.CurIndex)
    <3>1. InStep(exec[t], M) /\ (M # <<>> => ~ReturnsAt(info.BBID, end) /\ ~(end > info.CurIndex))
      BY <1>6, <2>1, <2>2 DEF StackFrames
    <3>2. place' = "next" /\ call_stack' = call_stack /\ failed' = failed
      BY <2>2, <3>1 DEF Loop
    <3>3. call_stack' = [call_stack EXCEPT ![tid_ptr] = M]
      BY <1>2, <3>2
    <3> HIDE DEF M, t
    <3> QED
      BY <1>1, <1>2, <1>5, <3>1, <3>2, <3>3, LoopStep DEF t
  <2>3. CASE M # <<>> /\ end # info.CurIndex /\ ~ReturnsAt(info.BBID, end)
    <3>1. /\ call_stack' = [call_stack EXCEPT ![t] = moved] /\ place' = "next"
          /\ failed' = failed
      BY <2>3 DEF Loop
    <3>2. moved \in Seq(StackFrames)
      <4>1. [info EXCEPT !.CurIndex = end] \in StackFrames
        <5> HIDE DEF info
        <5>1. end \in Nat /\ end <= Size(info.BBID) /\ info \in StackFrames
          <6>1. info.CurIndex \in Nat /\ Size(info.BBID) \in Nat
            BY <1>6, <2>3, BlockFacts DEF StackFrames
          <6> QED
            BY <1>6, <2>3, <6>1
        <5> HIDE DEF end
        <5> QED
          BY <5>1 DEF StackFrames
      <4> HIDE DEF info, end
      <4> QED
        BY <1>2, <2>3, <4>1, SetTopFacts
    <3>3. InStep(exec[t], moved)
      BY <2>1, <2>3
    <3> HIDE DEF moved, M, t
    <3> QED
      BY <1>1, <1>2, <1>5, <3>1, <3>2, <3>3, LoopStep DEF t
  <2>4. CASE M # <<>> /\ end # info.CurIndex /\ ReturnsAt(info.BBID, end)
    <3>1. InLoop(exec[t], Pop(M)) /\ CallerWaits(Pop(M))
      BY <2>1, <2>4
    <3>2. /\ call_stack' = [call_stack EXCEPT ![t] = Pop(M)] /\ place' = "loop"
          /\ failed' = failed
      BY <2>4, <3>1 DEF Loop
    <3>3. Pop(M) \in Seq(StackFrames)
      BY <1>2, <2>4, PopFacts
    <3> HIDE DEF M, t
    <3> QED
      BY <1>1, <1>2, <1>5, <3>1, <3>2, <3>3, LoopStep DEF t
  <2> QED
    BY <2>2, <2>3, <2>4
<1> QED
  BY <1>3, <1>7, <1>8

(* After the last event.                                                   *)
LEMMA FinishKeeps ==
  ASSUME SInv, Finish \/ FinishCrash \/ Done \/ \E t \in Threads : FinishFrame(t)
  PROVE  SInv'
<1>1. UNCHANGED <<programVars, event, last_tid, is_first, tid_ptr>> /\ place' \notin {"next", "loop"}
  BY DEF Finish, FinishCrash, Done, FinishFrame, SInv
<1>2. Events' /\ Synchronised' /\ IsFirsts'
  BY <1>1 DEF SInv, Events, Synchronised, IsFirsts
<1>3. CASE Finish
  <2>1. place = "next" /\ event = NoEvent /\ UNCHANGED <<call_stack, failed>> /\ place' = "finish"
    BY <1>3 DEF Finish
  <2>2. Stacks' /\ Pointers' /\ failed' = FALSE
    BY <1>1, <2>1 DEF SInv, Stacks, Pointers, programVars
  <2>3. Waiting'
    BY <2>1, AllInStep, CallersWait DEF Waiting
  <2> QED
    BY <1>2, <2>2, <2>3 DEF SInv
<1>4. CASE FinishCrash \/ Done
  <2>1. UNCHANGED <<call_stack, failed>> /\ place = "finish" /\ place' \in {"done", "crashed"}
    BY <1>4 DEF FinishCrash, Done
  <2>2. Stacks' /\ Pointers' /\ Waiting' /\ failed' = FALSE
    BY <1>1, <2>1 DEF SInv, Stacks, Pointers, Waiting, programVars
  <2> QED
    BY <1>2, <2>2 DEF SInv
<1>5. ASSUME NEW t \in Threads, FinishFrame(t) PROVE SInv'
  <2> DEFINE M == call_stack[t]
             N == Pop(M)
  <2>1. /\ place = "finish" /\ M # <<>> /\ call_stack' = [call_stack EXCEPT ![t] = N]
        /\ CallerWaits(N) => place' = place /\ failed' = failed
    BY <1>5 DEF FinishFrame, Open
  <2>2. M \in Seq(StackFrames) /\ DOMAIN call_stack = Threads
    BY DEF SInv, Stacks
  <2>3. /\ N \in Seq(StackFrames) /\ Len(N) = Len(M) - 1 /\ Len(M) \in Nat \ {0}
        /\ \A k \in 1 .. Len(M) - 1 : N[k] = M[k]
        /\ N # <<>> => Top(N) = M[Len(M) - 1]
    BY <2>1, <2>2, PopFacts
  <2>4. \A k \in 1 .. Len(M) - 1 : M[k].CurIndex < Size(M[k].BBID)
    BY <2>1 DEF SInv, Waiting
  <2> HIDE DEF M, N
  <2>5. CallerWaits(N)
    <3>1. N # <<>> => Len(M) - 1 \in 1 .. Len(M) - 1
      BY <2>3
    <3> QED
      BY <2>3, <2>4, <3>1 DEF CallerWaits
  <2>6. Stacks' /\ Pointers' /\ failed' = FALSE
    BY <1>1, <2>1, <2>3, <2>5 DEF SInv, Stacks, Pointers, programVars
  <2>7. Waiting'
    <3>1. \A k \in 1 .. Len(N) - 1 : N[k].CurIndex < Size(N[k].BBID)
      BY <2>3, <2>4
    <3>2. \A u \in Threads \ {t} : call_stack'[u] = call_stack[u]
      BY <2>1, <2>2
    <3>3. call_stack'[t] = N
      BY <2>1, <2>2
    <3> QED
      BY <2>1, <3>1, <3>2, <3>3 DEF SInv, Waiting
  <2> QED
    BY <1>2, <2>6, <2>7 DEF SInv
<1> QED
  BY <1>3, <1>4, <1>5

(* Every step keeps the invariant.                                         *)
LEMMA NextSync == ASSUME ~SplitCalls, SInv, [Next]_vars PROVE SInv'
<1>1. CASE Next
  BY <1>1, TraceStep, ReadOthers, ReadSteps, ReadBlock, LoopKeeps, FinishKeeps DEF Next, Merge
<1>2. CASE UNCHANGED vars
  BY <1>2 DEF vars, mergeVars, programVars, SInv, Stacks, Events, Pointers, Synchronised,
              Waiting, IsFirsts
<1> QED
  BY <1>1, <1>2

-----------------------------------------------------------------------------
(* Theorems                                                                *)

(* As long as no block of the trace ends behind a call, the call stack of  *)
(* MergeTrace is in step with that of the program at every event.          *)
THEOREM InSync == ~SplitCalls => (Spec => []SInv)
<1> SUFFICES ASSUME ~SplitCalls PROVE Spec => []SInv
  OBVIOUS
<1>1. SInv /\ [Next]_vars => SInv'
  BY NextSync
<1> QED
  BY <1>1, InitSync, PTL DEF Spec

(* No assertion of MergeTrace fails: each access and external call is the  *)
(* instruction the control flow graph has next, and a caller is waiting    *)
(* inside its block whenever a frame is closed.                            *)
THEOREM NoAssertionFailsTheorem == ~SplitCalls => (Spec => []NoAssertionFails)
<1>1. SInv => NoAssertionFails
  BY DEF SInv, NoAssertionFails
<1> QED
  BY <1>1, InSync, PTL

(* The frames, marks and pointers of MergeTrace are what they should be:   *)
(* no index leaves its block.                                              *)
THEOREM TypeCorrect == ~SplitCalls => (Spec => []TypeOK)
<1>1. SInv => TypeOK
  <2> SUFFICES ASSUME SInv PROVE TypeOK
    OBVIOUS
  <2>1. ASSUME NEW t \in Threads, NEW k \in DOMAIN call_stack[t]
        PROVE  LET f == call_stack[t][k] IN
               /\ f.BBID \in DOMAIN BB2Ins /\ f.LastBBID \in DOMAIN BB2Ins \cup {-1}
               /\ f.CurIndex \in 0 .. Size(f.BBID)
    <3> DEFINE f == call_stack[t][k]
    <3>1. f \in StackFrames
      BY DEF SInv, Stacks
    <3> HIDE DEF f
    <3> QED
      BY <3>1, BlockFacts DEF StackFrames, f
  <2> QED
    BY <2>1 DEF SInv, IsFirsts, Pointers, TypeOK
<1> QED
  BY <1>1, InSync, PTL

-----------------------------------------------------------------------------
(* Arguments                                                               *)

(* The arguments that MergeTrace has collected for a thread are those that *)
(* the thread has recorded, up to the event on its way, which is the last  *)
(* of them or the call they are for.                                       *)
OnItsWay(label, t) == event.label = label /\ event.tid = t

Collected(t) ==
    /\ OnItsWay("Argument", t) => args[t] \cup {event.addr} = recorded[t]
    /\ OnItsWay("Return", t) => recorded[t] = {} /\ args[t] = PointerArgs[event.id]
    /\ ~OnItsWay("Argument", t) /\ ~OnItsWay("Return", t) => args[t] = recorded[t]

Own(b) ==
    b.Type \in {"ExternalCallBlock", "ImpactfulCallBlock"} =>
        b.Args = PointerArgs[Ins(b.BBID, b.Start)]

IsSequence(s) == s \in Seq({s[k] : k \in DOMAIN s})

OwnBlocks ==
    DOMAIN blocks = Threads /\ \A t \in Threads :
        IsSequence(blocks[t]) /\ \A k \in DOMAIN blocks[t] : Own(blocks[t][k])

ArgumentInv ==
    /\ OwnBlocks /\ DOMAIN args = Threads /\ DOMAIN recorded = Threads
    /\ event.label \in {"Argument", "Return"} => event.tid \in Threads
    /\ place # "done" => \A t \in Threads : Collected(t)

(* A sequence with one more element at its end.                            *)
LEMMA LongerSequence ==
  ASSUME NEW s, IsSequence(s), NEW x
  PROVE  /\ IsSequence(Append(s, x))
         /\ \A k \in DOMAIN Append(s, x) :
               \/ k \in DOMAIN s /\ Append(s, x)[k] = s[k]
               \/ Append(s, x)[k] = x
<1> DEFINE S == {s[k] : k \in DOMAIN s} \cup {x}
           R == {Append(s, x)[k] : k \in DOMAIN Append(s, x)}
<1>1. s \in Seq(S)
  BY DEF IsSequence
<1>2. /\ Append(s, x) \in Seq(S) /\ Len(s) \in Nat /\ Len(Append(s, x)) = Len(s) + 1
      /\ Append(s, x)[Len(s) + 1] = x /\ \A k \in 1 .. Len(s) : Append(s, x)[k] = s[k]
  <2> HIDE DEF S
  <2>1. x \in S
    BY DEF S
  <2> QED
    BY <1>1, <2>1, PushFacts
<1>3. DOMAIN Append(s, x) = 1 .. Len(s) + 1 /\ DOMAIN s = 1 .. Len(s)
  BY <1>1, <1>2
<1>4. \A k \in DOMAIN Append(s, x) :
               \/ k \in DOMAIN s /\ Append(s, x)[k] = s[k]
               \/ Append(s, x)[k] = x
  BY <1>2, <1>3
<1>5. Append(s, x) \in Seq(R)
  <2> DEFINE v == Append(s, x)
             n == Len(s) + 1
  <2>1. n \in Nat /\ DOMAIN v = 1 .. n /\ v = [k \in DOMAIN v |-> v[k]]
    <3> HIDE DEF S
    <3> QED
      BY <1>2, <1>3, LenProperties
  <2>2. \A k \in 1 .. n : v[k] \in R
    BY <2>1
  <2> HIDE DEF R, v, n
  <2>3. v \in [1 .. n -> R]
    BY <2>1, <2>2
  <2>4. v \in Seq(R)
    BY <2>1, <2>3, SeqDef
  <2> QED
    BY <2>4 DEF v
<1> QED
  BY <1>4, <1>5 DEF IsSequence

(* A new block that has its own arguments.                                 *)
LEMMA EmitsOwn ==
  ASSUME OwnBlocks, NEW t, NEW b, Own(b), Emits(t, b)
  PROVE  OwnBlocks'
<1>1. DOMAIN blocks' = Threads
  BY DEF OwnBlocks, Emits
<1>2. ASSUME NEW u \in Threads
      PROVE  IsSequence(blocks'[u]) /\ \A k \in DOMAIN blocks'[u] : Own(blocks'[u][k])
  <2>1. IsSequence(blocks[u]) /\ \A k \in DOMAIN blocks[u] : Own(blocks[u][k])
    BY DEF OwnBlocks
  <2>2. CASE u = t
    <3>1. blocks'[u] = Append(blocks[u], b)
      BY <2>2 DEF Emits, OwnBlocks
    <3> QED
      BY <2>1, <3>1, LongerSequence
  <2>3. CASE u # t
    BY <2>1, <2>3 DEF Emits, OwnBlocks
  <2> QED
    BY <2>2, <2>3
<1> QED
  BY <1>1, <1>2 DEF OwnBlocks

(* Steps that leave the blocks and the arguments alone.                    *)
LEMMA KeepsArguments ==
  ASSUME ArgumentInv, UNCHANGED <<blocks, args, recorded>>,
         event.label \notin {"Argument", "Return"}, event'.label \notin {"Argument", "Return"},
         place = "done" => place' = "done"
  PROVE  ArgumentInv'
<1>1. OwnBlocks'
  BY DEF ArgumentInv, OwnBlocks
<1>2. place' # "done" => \A t \in Threads : Collected(t)'
  BY DEF ArgumentInv, Collected, OnItsWay
<1> QED
  BY <1>1, <1>2 DEF ArgumentInv

(* The initial state.                                                      *)
LEMMA InitArguments == Init => ArgumentInv
<1> SUFFICES ASSUME Init PROVE ArgumentInv
  OBVIOUS
<1>1. OwnBlocks
  BY DEF Init, OwnBlocks, IsSequence
<1>2. event.label \notin {"Argument", "Return"}
  BY DEF Init, ProgramInit, NoEvent
<1>3. \A t \in Threads : Collected(t)
  BY <1>2 DEF Init, ProgramInit, Collected, OnItsWay
<1> QED
  BY <1>1, <1>2, <1>3 DEF Init, ProgramInit, ArgumentInv

(* The steps of the program and of the trace.                              *)
LEMMA TraceArguments ==
  ASSUME ArgumentInv, Trace
  PROVE  ArgumentInv'
<1>1. /\ event = NoEvent /\ place = "next"
      /\ UNCHANGED <<blocks, args, place>>
  BY DEF Trace, mergeVars
<1>2. event.label \notin {"Argument", "Return"} /\ \A t \in Threads : args[t] = recorded[t]
  BY <1>1 DEF NoEvent, ArgumentInv, Collected, OnItsWay
<1>3. OwnBlocks'
  BY <1>1 DEF ArgumentInv, OwnBlocks
<1>4. CASE PlaceHolder \/ EndEvent(FALSE) \/ EndEvent(TRUE) \/ EndOfFile
  <2>1. recorded' = recorded /\ event'.label \notin {"Argument", "Return"}
    BY <1>1, <1>4 DEF PlaceHolder, EndEvent, EndOfFile, programVars, NoEvent
  <2> QED
    BY <1>1, <1>2, <2>1, KeepsArguments
<1>5. CASE DeclareGlobal
  <2>1. recorded' = recorded /\ event'.label \notin {"Argument", "Return"}
    BY <1>5 DEF DeclareGlobal, Emit
  <2> QED
    BY <1>1, <1>2, <2>1, KeepsArguments
<1>6. ASSUME NEW t \in Threads, Step(t) PROVE ArgumentInv'
  <2>1. CASE StartThread(t) \/ RunOuter(t) \/ EnterBlock(t)
    <3>1. recorded' = recorded /\ event'.label \notin {"Argument", "Return"}
      BY <1>2, <2>1 DEF StartThread, RunOuter, EnterBlock, Emit, Silent
    <3> QED
      BY <1>1, <1>2, <3>1, KeepsArguments
  <2>2. ASSUME NEW i \in Instructions,
               PlainStep(t, i) \/ AccessStep(t, i) \/ Call(t, i) \/ Branch(t, i) \/ Return(t, i)
        PROVE  ArgumentInv'
    <3>1. recorded' = recorded /\ event'.label \notin {"Argument", "Return"}
      BY <1>2, <2>2 DEF PlainStep, AccessStep, Call, Branch, Return, Emit, Silent, AccessLabel
    <3> QED
      BY <1>1, <1>2, <3>1, KeepsArguments
  <2>3. ASSUME NEW i \in Instructions, RecordArgument(t, i)
        PROVE  ArgumentInv'
    <3>1. PICK a \in PointerArgs[i] \ recorded[t] :
             /\ recorded' = [recorded EXCEPT ![t] = @ \cup {a}]
             /\ event' = [label |-> "Argument", tid |-> t, addr |-> a]
      BY <2>3 DEF RecordArgument, Emit
    <3>2. event'.label = "Argument" /\ event'.tid = t /\ event'.addr = a
      BY <3>1
    <3>3. \A u \in Threads : Collected(u)'
      BY <1>1, <1>2, <3>1, <3>2 DEF ArgumentInv, Collected, OnItsWay
    <3> QED
      BY <1>1, <1>3, <3>1, <3>2, <3>3 DEF ArgumentInv
  <2>4. ASSUME NEW i \in Instructions, ExternalCall(t, i)
        PROVE  ArgumentInv'
    <3>1. /\ recorded[t] = PointerArgs[i] /\ recorded' = [recorded EXCEPT ![t] = {}]
          /\ event' = [label |-> "Return", tid |-> t, id |-> i]
      BY <2>4 DEF ExternalCall, Emit
    <3>2. event'.label = "Return" /\ event'.tid = t /\ event'.id = i
      BY <3>1
    <3>3. \A u \in Threads : Collected(u)'
      BY <1>1, <1>2, <3>1, <3>2 DEF ArgumentInv, Collected, OnItsWay
    <3> QED
      BY <1>1, <1>3, <3>1, <3>2, <3>3 DEF ArgumentInv
  <2> QED
    BY <1>6, <2>1, <2>2, <2>3, <2>4 DEF Step
<1> QED
  BY <1>4, <1>5, <1>6 DEF Trace, Program

(* Reading an event that brings no argument and ends no external call.     *)
LEMMA ReadKeepsArguments ==
  ASSUME ArgumentInv, ReadDeclare \/ ReadBasicBlock \/ ReadHolder
  PROVE  ArgumentInv'
<1>1. /\ event.label \notin {"Argument", "Return"} /\ event' = NoEvent /\ place # "done"
      /\ UNCHANGED <<blocks, args, recorded>>
  BY DEF ReadDeclare, ReadBasicBlock, ReadHolder, Read, programVars
<1> QED
  BY <1>1, KeepsArguments DEF NoEvent

(* An argument comes in.                                                   *)
LEMMA ReadArgumentCollects ==
  ASSUME ArgumentInv, ReadArgument
  PROVE  ArgumentInv'
<1> DEFINE t == event.tid
<1>1. /\ event.label = "Argument" /\ event' = NoEvent /\ place' = place /\ place = "next"
      /\ UNCHANGED <<blocks, recorded>>
      /\ args' = [args EXCEPT ![t] = @ \cup {event.addr}]
  BY DEF ReadArgument, Read, programVars
<1>2. event'.label \notin {"Argument", "Return"}
  BY <1>1 DEF NoEvent
<1>3. t \in Threads /\ args[t] \cup {event.addr} = recorded[t]
  BY <1>1 DEF ArgumentInv, Collected, OnItsWay
<1>4. OwnBlocks'
  BY <1>1 DEF ArgumentInv, OwnBlocks
<1>5. ASSUME NEW u \in Threads PROVE Collected(u)'
  <2>1. CASE u = t
    BY <1>1, <1>2, <1>3, <2>1 DEF ArgumentInv, Collected, OnItsWay
  <2>2. CASE u # t
    BY <1>1, <1>2, <2>2 DEF ArgumentInv, Collected, OnItsWay
  <2> QED
    BY <2>1, <2>2
<1> QED
  BY <1>1, <1>2, <1>4, <1>5 DEF ArgumentInv

(* An external call, which consumes the arguments.                         *)
LEMMA ReadReturnOwn ==
  ASSUME ArgumentInv, ReadReturn
  PROVE  ArgumentInv'
<1> DEFINE t == event.tid
           info == Top(call_stack[t])
           b == [SmallestBlock(BlockType(event), info, info.CurIndex, info.CurIndex + 1,
                                is_first[t])
                    EXCEPT !.Args = args[t]]
<1>1. /\ event.label = "Return" /\ event' = NoEvent /\ recorded' = recorded /\ place = "next"
  BY DEF ReadReturn, Read, programVars
<1>2. event'.label \notin {"Argument", "Return"}
  BY <1>1 DEF NoEvent
<1>3. t \in Threads /\ recorded[t] = {} /\ args[t] = PointerArgs[event.id]
  BY <1>1 DEF ArgumentInv, Collected, OnItsWay
<1>4. CASE Expected(t, event.id)
  <2>1. Emits(t, b) /\ args' = [args EXCEPT ![t] = {}]
    BY <1>4 DEF ReadReturn, Consume
  <2>2. Own(b)
    <3>1. b.Args = args[t] /\ b.BBID = info.BBID /\ b.Start = info.CurIndex
      BY DEF SmallestBlock
    <3>2. Ins(info.BBID, info.CurIndex) = event.id
      BY <1>4 DEF Expected
    <3> HIDE DEF b, info
    <3> QED
      BY <1>3, <3>1, <3>2 DEF Own
  <2>3. OwnBlocks'
    <3> HIDE DEF b
    <3> QED
      BY <2>1, <2>2, EmitsOwn DEF ArgumentInv
  <2>4. ASSUME NEW u \in Threads PROVE Collected(u)'
    <3>1. CASE u = t
      BY <1>1, <1>2, <1>3, <2>1, <3>1 DEF ArgumentInv, Collected, OnItsWay
    <3>2. CASE u # t
      BY <1>1, <1>2, <2>1, <3>2 DEF ArgumentInv, Collected, OnItsWay
    <3> QED
      BY <3>1, <3>2
  <2> QED
    BY <1>1, <1>2, <2>1, <2>3, <2>4 DEF ArgumentInv
<1>5. CASE ~Expected(t, event.id)
  <2>1. AssertFails
    BY <1>5 DEF ReadReturn
  <2>2. place' = "done" /\ UNCHANGED <<blocks, args>>
    BY <2>1 DEF AssertFails
  <2> QED
    BY <1>1, <1>2, <2>2 DEF ArgumentInv, OwnBlocks
<1> QED
  BY <1>4, <1>5

(* An access.                                                              *)
LEMMA ReadAccessOwn ==
  ASSUME ArgumentInv, ReadAccess
  PROVE  ArgumentInv'
<1> DEFINE t == event.tid
           info == Top(call_stack[t])
           b == [SmallestBlock(BlockType(event), info, info.CurIndex, info.CurIndex + 1,
                                is_first[t])
                    EXCEPT !.Args = {}]
<1>1. /\ event.label \in {"Memory", "Memset", "Memmove"} /\ event' = NoEvent
      /\ UNCHANGED <<recorded, args>> /\ place = "next"
  BY DEF ReadAccess, Read, programVars, AssertFails
<1>2. event.label \notin {"Argument", "Return"} /\ event'.label \notin {"Argument", "Return"}
  BY <1>1 DEF NoEvent
<1>3. OwnBlocks'
  <2>1. CASE Expected(t, event.id)
    <3>1. Emits(t, b)
      BY <2>1 DEF ReadAccess, Consume
    <3>2. BlockType(event) \notin {"ExternalCallBlock", "ImpactfulCallBlock"}
      BY <1>1 DEF BlockType
    <3>3. Own(b)
      BY <3>2 DEF Own, SmallestBlock
    <3> HIDE DEF b
    <3> QED
      BY <3>1, <3>3, EmitsOwn DEF ArgumentInv
  <2>2. CASE ~Expected(t, event.id)
    BY <2>2 DEF ReadAccess, AssertFails, ArgumentInv, OwnBlocks
  <2> QED
    BY <2>1, <2>2
<1>4. \A u \in Threads : Collected(u)'
  BY <1>1, <1>2 DEF ArgumentInv, Collected, OnItsWay
<1> QED
  BY <1>1, <1>2, <1>3, <1>4 DEF ArgumentInv

(* The blocks of the while loop and those at the end are no calls.         *)
LEMMA OthersOwn ==
  ASSUME ArgumentInv, Loop \/ Finish \/ FinishCrash \/ Done \/ \E t \in Threads : FinishFrame(t)
  PROVE  ArgumentInv'
<1>1. UNCHANGED <<programVars, event, last_tid, args>>
  BY DEF Loop, Finish, FinishCrash, Done, FinishFrame
<1>2. place # "done"
  BY DEF Loop, Finish, FinishCrash, Done, FinishFrame
<1>3. \A u \in Threads : Collected(u)'
  BY <1>1, <1>2 DEF ArgumentInv, Collected, OnItsWay, programVars
<1>4. ASSUME OwnBlocks' PROVE ArgumentInv'
  BY <1>1, <1>3, <1>4 DEF ArgumentInv, programVars
<1>5. ASSUME UNCHANGED blocks PROVE OwnBlocks'
  BY <1>5 DEF ArgumentInv, OwnBlocks
<1>6. ASSUME NEW t, NEW b, b.Type = "NormalBlock", Emits(t, b) PROVE OwnBlocks'
  <2>1. Own(b)
    BY <1>6 DEF Own
  <2> QED
    BY <1>6, <2>1, EmitsOwn DEF ArgumentInv
<1>7. \A info, start, end, first, stack :
          LET b == SmallestBlock("NormalBlock", info, start, end, first) IN
          b.Type = "NormalBlock" /\ LastBlock(b, stack).Type = "NormalBlock"
  BY DEF SmallestBlock, LastBlock
<1>8. CASE Finish \/ FinishCrash \/ Done
  BY <1>4, <1>5, <1>8 DEF Finish, FinishCrash, Done
<1>9. ASSUME NEW t \in Threads, FinishFrame(t) PROVE ArgumentInv'
  <2>1. \/ UNCHANGED blocks
        \/ \E info, start, end, first, last, stack :
              Emits(t, LastBlock([SmallestBlock("NormalBlock", info, start, end, first)
                                     EXCEPT !.LastBBID = last], stack))
    BY <1>9, Zenon DEF FinishFrame
  <2>2. ASSUME NEW info, NEW start, NEW end, NEW first, NEW last, NEW stack,
               Emits(t, LastBlock([SmallestBlock("NormalBlock", info, start, end, first)
                                     EXCEPT !.LastBBID = last], stack))
        PROVE  OwnBlocks'
    <3> DEFINE b == LastBlock([SmallestBlock("NormalBlock", info, start, end, first)
                                 EXCEPT !.LastBBID = last], stack)
    <3>1. b.Type = "NormalBlock"
      BY DEF SmallestBlock, LastBlock
    <3> HIDE DEF b
    <3> QED
      BY <1>6, <2>2, <3>1 DEF b
  <2> QED
    BY <1>4, <1>5, <2>1, <2>2, Zenon
<1>10. CASE Loop
  <2>1. \/ UNCHANGED blocks
        \/ \E info, start, end, first, stack :
              LET b == SmallestBlock("NormalBlock", info, start, end, first) IN
              Emits(tid_ptr, b) \/ Emits(tid_ptr, LastBlock(b, stack))
    BY <1>10, Zenon DEF Loop
  <2> QED
    BY <1>4, <1>5, <1>6, <1>7, <2>1
<1> QED
  BY <1>8, <1>9, <1>10

(* Every step keeps the invariant.                                         *)
LEMMA NextArguments == ArgumentInv /\ [Next]_vars => ArgumentInv'
<1> SUFFICES ASSUME ArgumentInv, [Next]_vars PROVE ArgumentInv'
  OBVIOUS
<1>1. CASE Next
  BY <1>1, TraceArguments, ReadKeepsArguments, ReadArgumentCollects, ReadReturnOwn,
     ReadAccessOwn, OthersOwn DEF Next, Merge
<1>2. CASE UNCHANGED vars
  BY <1>2 DEF vars, mergeVars, programVars, ArgumentInv, OwnBlocks, Collected, OnItsWay
<1> QED
  BY <1>1, <1>2

(* An external call is given exactly its own pointer arguments: those that *)
(* the threads record between an argument and its call stay theirs, and a  *)
(* call takes all that its thread has collected.                           *)
THEOREM OwnArgumentsTheorem == Spec => []OwnArguments
<1>1. ArgumentInv => OwnArguments
  BY DEF ArgumentInv, OwnBlocks, Own, OwnArguments
<1> QED
  BY <1>1, InitArguments, NextArguments, PTL DEF Spec

-----------------------------------------------------------------------------
(***************************************************************************)
(* The blocks that MergeTrace makes replay the execution, for any          *)
(* instrumented program and any interleaving of the events, unless         *)
(* SplitCalls lets the trace be split behind a call: the instructions that *)
(* the blocks of a thread stand for are those it has executed, followed by *)
(* those that lie between its frames and the frames of MergeTrace.         *)
(***************************************************************************)

Instants == [ins : Instructions, last : DOMAIN BB2Ins \cup {-1}, depth : Int]

(* The depth behind the first n blocks of a sequence, and the instructions *)
(* that a sequence of blocks stands for.                                   *)
Firsts(s, n) == {j \in 1 .. n : s[j].IsFirst # 0}
Lasts(s, n) == {j \in 1 .. n : s[j].IsLast # 0}
OpenAfter(s, n) == Cardinality(Firsts(s, n)) - Cardinality(Lasts(s, n))
Mark(m) == IF m # 0 THEN 1 ELSE 0

Piece(b, depth) ==
    [j \in 1 .. b.End - b.Start |->
        [ins |-> Ins(b.BBID, b.Start + j - 1), last |-> b.LastBBID, depth |-> depth]]
DepthOf(s, k) == OpenAfter(s, k - 1) + Mark(s[k].IsFirst)
Pieces(s) == [k \in DOMAIN s |-> Piece(s[k], DepthOf(s, k))]
CoveredBy(s) == FlattenSeq(Pieces(s))

(* The instructions between frame k of the program and that of MergeTrace, *)
(* which has closed the frames that it does not have any more.             *)
Reaches(P, M, k) ==
    IF k <= Len(M) THEN M[k].CurIndex ELSE EndIndex(P[k].bb, P[k].index)
Segment(P, M, k) ==
    IF P[k].index < 0 THEN <<>>
    ELSE [j \in 1 .. Reaches(P, M, k) - P[k].index |->
             [ins |-> Ins(P[k].bb, P[k].index + j - 1), last |-> P[k].last, depth |-> k]]
Segments(P, M) == [k \in 1 .. Len(P) |-> Segment(P, M, Len(P) + 1 - k)]
Lead(P, M) == FlattenSeq(Segments(P, M))

(* The instruction of the event that is on the way is executed, and not in *)
(* a block yet.                                                            *)
Next1(t) == [ins |-> event.id, last |-> Top(exec[t]).last, depth |-> Len(exec[t])]
Covers(t) ==
    LET C == CoveredBy(blocks[t]) IN
    IF OnTheWay(event, t)
    THEN executed[t] = IF event.label \in Steps THEN Append(C, Next1(t)) ELSE C
    ELSE C = executed[t] \o Lead(exec[t], call_stack[t])

(* The marks of the blocks count the frames, the first block of a frame    *)
(* that has none yet included.                                             *)
Counted(t) ==
    /\ OpenAfter(blocks[t], Len(blocks[t])) + Mark(is_first[t][1]) = Len(call_stack[t])
    /\ is_first[t][1] # 0 => call_stack[t] # <<>> /\ Top(call_stack[t]).CurIndex = 0

Sequences ==
    /\ DOMAIN blocks = Threads /\ executed \in [Threads -> Seq(Instants)]
    /\ \A t \in Threads : IsSequence(blocks[t]) /\ Pieces(blocks[t]) \in Seq(Seq(Instants))

ReplayInv ==
    /\ Sequences
    /\ place \in {"next", "loop"} => \A t \in Threads : Covers(t) /\ Counted(t)
    /\ place \notin {"next", "loop"} => Replay

-----------------------------------------------------------------------------
(* Blocks and marks                                                        *)

(* Replay in terms of the sequences of blocks.                             *)
LEMMA CoveredIs == \A t : Covered(t) = CoveredBy(blocks[t])
BY DEF Covered, CoveredBy, Pieces, Piece, DepthOf, OpenAfter, Firsts, Lasts, Depth, DepthBefore, Mark

(* The marks of the first blocks depend on those only.                     *)
LEMMA OpenSame ==
  ASSUME NEW s, NEW v, NEW n \in Nat, \A j \in 1 .. n : v[j] = s[j]
  PROVE  OpenAfter(v, n) = OpenAfter(s, n)
<1>1. Firsts(v, n) = Firsts(s, n) /\ Lasts(v, n) = Lasts(s, n)
  BY DEF Firsts, Lasts
<1> QED
  BY <1>1 DEF OpenAfter

(* One more number in a set of numbers up to n.                            *)
LEMMA CountNext ==
  ASSUME NEW n \in Nat, NEW A, NEW B, A \subseteq 1 .. n, NEW m,
         B = IF m # 0 THEN A \cup {n + 1} ELSE A
  PROVE  /\ Cardinality(A) \in Nat /\ Cardinality(B) = Cardinality(A) + Mark(m)
<1>1. IsFiniteSet(A) /\ Cardinality(A) \in Nat
  <2>1. IsFiniteSet(1 .. n)
    BY FS_Interval
  <2> QED
    BY <2>1, FS_Subset, FS_CardinalityType
<1>2. n + 1 \notin A
  OBVIOUS
<1>3. Cardinality(A \cup {n + 1}) = Cardinality(A) + 1
  BY <1>1, <1>2, FS_AddElement
<1> QED
  BY <1>1, <1>3 DEF Mark

(* One more block.                                                         *)
LEMMA OpenNext ==
  ASSUME NEW s, NEW n \in Nat
  PROVE  /\ OpenAfter(s, n) \in Int
         /\ OpenAfter(s, n + 1) = OpenAfter(s, n) + Mark(s[n + 1].IsFirst) - Mark(s[n + 1].IsLast)
<1>1. /\ Firsts(s, n) \subseteq 1 .. n /\ Lasts(s, n) \subseteq 1 .. n
      /\ Firsts(s, n + 1) = IF s[n + 1].IsFirst # 0 THEN Firsts(s, n) \cup {n + 1} ELSE Firsts(s, n)
      /\ Lasts(s, n + 1) = IF s[n + 1].IsLast # 0 THEN Lasts(s, n) \cup {n + 1} ELSE Lasts(s, n)
  BY DEF Firsts, Lasts
<1>2. /\ Cardinality(Firsts(s, n)) \in Nat
      /\ Cardinality(Firsts(s, n + 1)) = Cardinality(Firsts(s, n)) + Mark(s[n + 1].IsFirst)
  BY <1>1, CountNext, SMTT(20)
<1>3. /\ Cardinality(Lasts(s, n)) \in Nat
      /\ Cardinality(Lasts(s, n + 1)) = Cardinality(Lasts(s, n)) + Mark(s[n + 1].IsLast)
  BY <1>1, CountNext, SMTT(20)
<1>4. Mark(s[n + 1].IsFirst) \in Nat /\ Mark(s[n + 1].IsLast) \in Nat
  BY DEF Mark
<1> QED
  BY <1>2, <1>3, <1>4 DEF OpenAfter

(* No block has no marks.                                                  *)
LEMMA OpenNone == \A s : OpenAfter(s, 0) = 0
<1>1. \A s : Firsts(s, 0) = {} /\ Lasts(s, 0) = {}
  BY DEF Firsts, Lasts
<1>2. Cardinality({}) = 0
  BY FS_EmptySet
<1> QED
  BY <1>1, <1>2 DEF OpenAfter

(* What a new block adds to the instructions and to the marks.             *)
LEMMA AppendBlock ==
  ASSUME NEW s, IsSequence(s), Pieces(s) \in Seq(Seq(Instants)), NEW b,
         NEW piece, piece = Piece(b, OpenAfter(s, Len(s)) + Mark(b.IsFirst)),
         piece \in Seq(Instants), NEW v, v = Append(s, b)
  PROVE  /\ IsSequence(v) /\ Pieces(v) \in Seq(Seq(Instants))
         /\ CoveredBy(v) = CoveredBy(s) \o piece /\ CoveredBy(s) \in Seq(Instants)
         /\ OpenAfter(s, Len(s)) \in Int
         /\ OpenAfter(v, Len(v)) = OpenAfter(s, Len(s)) + Mark(b.IsFirst) - Mark(b.IsLast)
<1> DEFINE n == Len(s)
<1>1. /\ n \in Nat /\ DOMAIN s = 1 .. n /\ Len(v) = n + 1 /\ DOMAIN v = 1 .. n + 1
      /\ v[n + 1] = b /\ \A k \in 1 .. n : v[k] = s[k]
  <2> DEFINE S == {s[k] : k \in DOMAIN s} \cup {b}
  <2>1. s \in Seq(S) /\ b \in S
    BY DEF IsSequence
  <2> HIDE DEF S
  <2> QED
    BY <2>1
<1> HIDE DEF n
<1>2. IsSequence(v)
  BY LongerSequence
<1>3. /\ OpenAfter(v, n) = OpenAfter(s, n) /\ OpenAfter(s, n) \in Int
      /\ OpenAfter(v, n + 1) = OpenAfter(s, n) + Mark(b.IsFirst) - Mark(b.IsLast)
  BY <1>1, OpenSame, OpenNext
<1>4. \A k \in 1 .. n : DepthOf(v, k) = DepthOf(s, k)
  <2> SUFFICES ASSUME NEW k \in 1 .. n PROVE DepthOf(v, k) = DepthOf(s, k)
    OBVIOUS
  <2>1. k - 1 \in Nat /\ \A j \in 1 .. k - 1 : v[j] = s[j]
    BY <1>1
  <2>2. OpenAfter(v, k - 1) = OpenAfter(s, k - 1)
    BY <2>1, OpenSame
  <2> QED
    BY <1>1, <2>2 DEF DepthOf
<1>5. Piece(v[n + 1], DepthOf(v, n + 1)) = piece
  <2>1. (n + 1) - 1 = n
    BY <1>1
  <2> QED
    BY <1>1, <1>3, <2>1 DEF DepthOf, n
<1>6. Pieces(v) = Append(Pieces(s), piece)
  <2>1. /\ Len(Pieces(s)) = n
        /\ \A k \in 1 .. n : Pieces(s)[k] = Piece(s[k], DepthOf(s, k))
    BY <1>1 DEF Pieces
  <2>2. \A k \in 1 .. n : Piece(v[k], DepthOf(v, k)) = Piece(s[k], DepthOf(s, k))
    BY <1>1, <1>4
  <2> DEFINE A == Append(Pieces(s), piece)
             g(k) == Piece(v[k], DepthOf(v, k))
  <2>3. /\ A \in Seq(Seq(Instants)) /\ Len(A) = n + 1 /\ A[n + 1] = piece
        /\ \A k \in 1 .. n : A[k] = Pieces(s)[k]
    <3> HIDE DEF Pieces
    <3> QED
      BY <2>1
  <2>4. \A k \in 1 .. n + 1 : A[k] = g(k)
    <3> SUFFICES ASSUME NEW k \in 1 .. n + 1 PROVE A[k] = g(k)
      OBVIOUS
    <3>1. k \in 1 .. n \/ k = n + 1
      BY <1>1
    <3> HIDE DEF A
    <3> QED
      BY <1>5, <2>1, <2>2, <2>3, <3>1
  <2>5. A = [k \in 1 .. n + 1 |-> g(k)]
    <3> HIDE DEF A, g
    <3> QED
      BY <1>1, <2>3, <2>4
  <2> QED
    BY <1>1, <2>5 DEF Pieces
<1>7. Append(Pieces(s), piece) \in Seq(Seq(Instants))
  BY AppendIsSeq
<1>8. FlattenSeq(Append(Pieces(s), piece)) = FlattenSeq(Pieces(s)) \o piece /\ FlattenSeq(Pieces(s)) \in Seq(Instants)
  BY FlattenAppend, FlattenType
<1> QED
  BY <1>1, <1>2, <1>3, <1>6, <1>7, <1>8 DEF CoveredBy, n

(* Two sequences of instructions, the second of one.                       *)
LEMMA PutInFront ==
  ASSUME NEW S, NEW e \in Seq(S), NEW x \in S, NEW r \in Seq(S)
  PROVE  /\ e \o (<<x>> \o r) = Append(e, x) \o r /\ Append(e, x) \in Seq(S)
         /\ e \o <<x>> = Append(e, x) /\ e \o <<>> = e /\ <<>> \o e = e
<1>1. Append(e, x) = e \o <<x>> /\ <<x>> \in Seq(S)
  OBVIOUS
<1>2. (e \o <<x>>) \o r = e \o (<<x>> \o r)
  BY <1>1, ConcatAssociative
<1> QED
  BY <1>1, <1>2

-----------------------------------------------------------------------------
(* The instructions between the two stacks                                 *)

Fits(P, M) == \A k \in 1 .. Len(P) : Segment(P, M, k) \in Seq(Instants)

(* A sequence of empty sequences.                                          *)
LEMMA FlattenNothing ==
  ASSUME NEW s \in Seq({<<>>})
  PROVE  FlattenSeq(s) = <<>>
<1> DEFINE T == {u \in Seq({<<>>}) : FlattenSeq(u) = <<>>}
<1>1. <<>> \in T
  <2>1. <<>> \in Seq({<<>>})
    OBVIOUS
  <2> QED
    BY <2>1, FlattenEmpty
<1>2. ASSUME NEW u \in Seq({<<>>}), NEW x \in {<<>>}, u \in T PROVE Append(u, x) \in T
  <2>1. u \in Seq(Seq({})) /\ x \in Seq({}) /\ x = <<>>
    <3>1. {<<>>} \subseteq Seq({}) /\ x = <<>>
      OBVIOUS
    <3> QED
      BY <3>1, SeqMonotonic
  <2>2. FlattenSeq(Append(u, x)) = FlattenSeq(u) \o x
    BY <2>1, FlattenAppend
  <2>3. <<>> \o <<>> = <<>> /\ FlattenSeq(u) = <<>>
    BY <1>2
  <2>4. Append(u, x) \in Seq({<<>>})
    BY AppendIsSeq
  <2> QED
    BY <2>1, <2>2, <2>3, <2>4
<1>3. Seq({<<>>}) \subseteq T
  <2> HIDE DEF T
  <2> QED
    BY <1>1, <1>2, SeqSetInduction
<1> QED
  BY <1>3

(* The start of a sequence.                                                *)
LEMMA SubSeqNext ==
  ASSUME NEW S, NEW s \in Seq(S), NEW j \in 0 .. Len(s) - 1
  PROVE  /\ SubSeq(s, 1, j) \in Seq(S) /\ s[j + 1] \in S
         /\ SubSeq(s, 1, j + 1) = Append(SubSeq(s, 1, j), s[j + 1])
OBVIOUS

(* It has the same elements.                                               *)
LEMMA SubSeqIs ==
  ASSUME NEW S, NEW s \in Seq(S), NEW k \in 0 .. Len(s)
  PROVE  SubSeq(s, 1, k) \in Seq(S) /\ Len(SubSeq(s, 1, k)) = k /\ \A i \in 1 .. k : SubSeq(s, 1, k)[i] = s[i]
OBVIOUS

(* The rest of a sequence.                                                 *)
LEMMA TailIs ==
  ASSUME NEW S, NEW s \in Seq(S), s # <<>>, NEW v \in Seq(S), Len(v) = Len(s) - 1,
         \A j \in 1 .. Len(v) : s[j + 1] = v[j]
  PROVE  Tail(s) = v
OBVIOUS

(* A sequence that is filled in, where only empty ones follow.             *)
LEMMA FlattenFills ==
  ASSUME NEW S, NEW s \in Seq(Seq(S)), NEW v \in Seq(Seq(S)), Len(v) = Len(s),
         NEW p \in 1 .. Len(s), \A j \in 1 .. p - 1 : v[j] = s[j], s[p] = <<>>,
         \A j \in p + 1 .. Len(s) : s[j] = <<>> /\ v[j] = <<>>
  PROVE  FlattenSeq(v) = FlattenSeq(s) \o v[p]
<1> DEFINE n == Len(s)
           V(j) == SubSeq(v, 1, j)
           U(j) == SubSeq(s, 1, j)
           Same(j) == FlattenSeq(V(j)) = FlattenSeq(U(j)) \o v[p]
           T == {j \in Nat : j \in p .. n => Same(j)}
<1>0. n \in Nat /\ p \in Nat /\ p > 0 /\ v[p] \in Seq(S)
  OBVIOUS
<1>1. \A j \in 0 .. n - 1 :
         /\ V(j) \in Seq(Seq(S)) /\ U(j) \in Seq(Seq(S)) /\ v[j + 1] \in Seq(S) /\ s[j + 1] \in Seq(S)
         /\ V(j + 1) = Append(V(j), v[j + 1]) /\ U(j + 1) = Append(U(j), s[j + 1])
  <2> SUFFICES ASSUME NEW j \in 0 .. n - 1
               PROVE  /\ V(j) \in Seq(Seq(S)) /\ U(j) \in Seq(Seq(S))
                      /\ v[j + 1] \in Seq(S) /\ s[j + 1] \in Seq(S)
                      /\ V(j + 1) = Append(V(j), v[j + 1]) /\ U(j + 1) = Append(U(j), s[j + 1])
    OBVIOUS
  <2> QED
    BY SubSeqNext
<1>2. V(p - 1) = U(p - 1)
  <2> DEFINE k == p - 1
             a == SubSeq(v, 1, k)
             b == SubSeq(s, 1, k)
  <2>1. /\ a \in Seq(Seq(S)) /\ Len(a) = k /\ \A i \in 1 .. k : a[i] = v[i]
        /\ b \in Seq(Seq(S)) /\ Len(b) = k /\ \A i \in 1 .. k : b[i] = s[i]
    <3>1. k \in 0 .. Len(s) /\ k \in 0 .. Len(v)
      BY <1>0
    <3> HIDE DEF k
    <3> QED
      BY <3>1, SubSeqIs
  <2>2. \A i \in 1 .. k : v[i] = s[i]
    OBVIOUS
  <2> HIDE DEF a, b, k
  <2>3. a = b
    BY <2>1, <2>2, SeqEqual
  <2> QED
    BY <2>3 DEF a, b, k
<1>3. V(n) = v /\ U(n) = s
  OBVIOUS
<1> HIDE DEF V, U
<1>4. \A j \in 0 .. n - 1 :
         /\ FlattenSeq(V(j + 1)) = FlattenSeq(V(j)) \o v[j + 1] /\ FlattenSeq(V(j)) \in Seq(S)
         /\ FlattenSeq(U(j + 1)) = FlattenSeq(U(j)) \o s[j + 1] /\ FlattenSeq(U(j)) \in Seq(S)
  BY <1>1, FlattenAppend, FlattenType
<1> HIDE DEF Same
<1>5. 0 \in T
  BY <1>0
<1>6. ASSUME NEW j \in Nat, j \in T PROVE j + 1 \in T
  <2> SUFFICES ASSUME j + 1 \in p .. n
               PROVE  Same(j + 1)
    OBVIOUS
  <2> USE DEF Same
  <2>1. j \in 0 .. n - 1
    BY <1>0
  <2>2. /\ FlattenSeq(V(j + 1)) = FlattenSeq(V(j)) \o v[j + 1] /\ FlattenSeq(V(j)) \in Seq(S)
        /\ FlattenSeq(U(j + 1)) = FlattenSeq(U(j)) \o s[j + 1] /\ FlattenSeq(U(j)) \in Seq(S)
    BY <1>4, <2>1
  <2>3. CASE j + 1 = p
    <3>1. V(j) = U(j)
      <4>1. j = p - 1
        BY <1>0, <2>3
      <4> QED
        BY <1>2, <4>1
    <3>2. FlattenSeq(U(j)) \o <<>> = FlattenSeq(U(j))
      BY <2>2, ConcatEmptySeq
    <3> QED
      BY <2>2, <2>3, <3>1, <3>2
  <2>4. CASE j + 1 # p
    <3>1. j \in p .. n /\ j + 1 \in p + 1 .. n
      <4>1. n \in Nat /\ p \in Nat /\ j \in Nat /\ p <= j + 1 /\ j + 1 <= n
        BY <1>0
      <4> HIDE DEF n, Same, T
      <4>2. p <= j
        BY <2>4, <4>1
      <4> QED
        BY <4>1, <4>2
    <3>2. FlattenSeq(V(j)) \o <<>> = FlattenSeq(V(j)) /\ FlattenSeq(U(j)) \o <<>> = FlattenSeq(U(j))
      BY <2>2, ConcatEmptySeq
    <3>3. v[j + 1] = <<>> /\ s[j + 1] = <<>>
      BY <3>1
    <3> QED
      BY <1>6, <2>2, <3>1, <3>2, <3>3
  <2> QED
    BY <2>3, <2>4
<1>7. Nat \subseteq T
  <2> HIDE DEF T
  <2> QED
    BY <1>5, <1>6, NatSetInduction
<1>8. n \in T /\ n \in p .. n
  BY <1>0, <1>7
<1>9. Same(n)
  BY <1>8
<1> QED
  BY <1>3, <1>9 DEF Same

(* The segments as a sequence, the one of the top frame first.             *)
LEMMA SegmentsType ==
  ASSUME NEW P, NEW M, NEW n \in Nat, Len(P) = n, Fits(P, M)
  PROVE  /\ Segments(P, M) \in Seq(Seq(Instants)) /\ Len(Segments(P, M)) = n
         /\ \A j \in 1 .. n : Segments(P, M)[j] = Segment(P, M, n + 1 - j)
         /\ Lead(P, M) \in Seq(Instants)
<1> DEFINE s == Segments(P, M)
<1>1. /\ DOMAIN s = 1 .. n /\ \A j \in 1 .. n : s[j] = Segment(P, M, n + 1 - j)
      /\ s = [j \in 1 .. n |-> s[j]]
  BY DEF Segments
<1> HIDE DEF s
<1>2. \A j \in 1 .. n : n + 1 - j \in 1 .. n
  OBVIOUS
<1>3. \A j \in 1 .. n : s[j] \in Seq(Instants)
  BY <1>1, <1>2 DEF Fits
<1>4. s \in Seq(Seq(Instants)) /\ Len(s) = n
  <2>1. s \in [1 .. n -> Seq(Instants)]
    BY <1>1, <1>3
  <2> QED
    BY <2>1, SeqDef
<1>5. FlattenSeq(s) \in Seq(Instants)
  BY <1>4, FlattenType
<1> QED
  BY <1>1, <1>4, <1>5 DEF s, Lead

(* A function on 1 .. n is a sequence. *)
LEMMA FunctionIsSeq ==
  ASSUME NEW S, NEW n \in Nat, NEW f \in [1 .. n -> S]
  PROVE  f \in Seq(S)
BY SeqDef

(* Q is P without its top frame. *)
IsRest(Q, P, n) ==
    /\ n \in Nat \ {0} /\ Len(P) = n /\ Len(Q) = n - 1
    /\ \A k \in 1 .. n - 1 : Q[k] = P[k]

(* The segment of the top frame comes first.                               *)
LEMMA LeadTop ==
  ASSUME NEW P, NEW Q, NEW M, NEW n, IsRest(Q, P, n), Fits(P, M)
  PROVE  /\ Lead(P, M) = Segment(P, M, n) \o Lead(Q, M)
         /\ Fits(Q, M) /\ Lead(Q, M) \in Seq(Instants) /\ Segment(P, M, n) \in Seq(Instants)
<1>0. /\ n \in Nat \ {0} /\ Len(P) = n /\ Len(Q) = n - 1
      /\ \A k \in 1 .. n - 1 : Q[k] = P[k]
  BY DEF IsRest
<1>1. \A k \in 1 .. n - 1 : Segment(Q, M, k) = Segment(P, M, k)
  BY <1>0 DEF Segment, Reaches
<1>2. Fits(Q, M) /\ Segment(P, M, n) \in Seq(Instants)
  BY <1>0, <1>1 DEF Fits
<1>3. n - 1 \in Nat /\ Len(Q) = n - 1
  BY <1>0
<1> DEFINE s == Segments(P, M)
           v == Segments(Q, M)
<1>4. /\ s \in Seq(Seq(Instants)) /\ Len(s) = n
      /\ \A j \in 1 .. n : s[j] = Segment(P, M, n + 1 - j)
  <2>1. n \in Nat /\ Len(P) = n
    BY <1>0
  <2> QED
    BY <2>1, SegmentsType
<1>5. /\ v \in Seq(Seq(Instants)) /\ Len(v) = n - 1 /\ Lead(Q, M) \in Seq(Instants)
      /\ \A j \in 1 .. n - 1 : v[j] = Segment(Q, M, (n - 1) + 1 - j)
  BY <1>2, <1>3, SegmentsType
<1> HIDE DEF s, v
<1>6. s[1] = Segment(P, M, n)
  <2>1. 1 \in 1 .. n /\ n + 1 - 1 = n
    BY <1>0
  <2> QED
    BY <1>4, <2>1
<1>7. Tail(s) = v
  <2>1. \A j \in 1 .. n - 1 : s[j + 1] = v[j]
    <3> SUFFICES ASSUME NEW j \in 1 .. n - 1 PROVE s[j + 1] = v[j]
      OBVIOUS
    <3>1. /\ j + 1 \in 1 .. n /\ n + 1 - (j + 1) = n - j /\ (n - 1) + 1 - j = n - j
          /\ n - j \in 1 .. n - 1
      BY <1>0
    <3> QED
      BY <1>1, <1>4, <1>5, <3>1
  <2>2. s # <<>> /\ Len(v) = Len(s) - 1
    BY <1>0, <1>4, <1>5
  <2> QED
    BY <1>4, <1>5, <2>1, <2>2, TailIs
<1>8. s # <<>>
  BY <1>0, <1>4
<1>9. FlattenSeq(s) = s[1] \o FlattenSeq(Tail(s))
  BY <1>4, <1>8, FlattenHeadTail
<1> QED
  BY <1>2, <1>5, <1>6, <1>7, <1>9 DEF Lead, s, v

(* Where there is nothing between the stacks.                              *)
LEMMA LeadNone ==
  ASSUME NEW P, NEW M, NEW n \in Nat, Len(P) = n, \A k \in 1 .. n : Segment(P, M, k) = <<>>
  PROVE  Lead(P, M) = <<>>
<1>1. Fits(P, M)
  <2>1. <<>> \in Seq(Instants)
    OBVIOUS
  <2> QED
    BY <2>1 DEF Fits
<1> DEFINE s == Segments(P, M)
<1>2. /\ s \in Seq(Seq(Instants)) /\ Len(s) = n
      /\ \A j \in 1 .. n : s[j] = Segment(P, M, n + 1 - j)
  BY <1>1, SegmentsType
<1> HIDE DEF s
<1>3. \A j \in 1 .. n : s[j] = <<>>
  BY <1>2
<1>4. s \in Seq({<<>>})
  BY <1>2, <1>3
<1> QED
  BY <1>4, FlattenNothing DEF Lead, s

(* Where MergeTrace goes on with one frame.                                *)
LEMMA LeadFills ==
  ASSUME NEW P, NEW M, NEW N, NEW n \in Nat, Len(P) = n, Fits(P, M), Fits(P, N),
         NEW m \in 1 .. n, Segment(P, M, m) = <<>>,
         \A k \in m + 1 .. n : Segment(P, N, k) = Segment(P, M, k),
         \A k \in 1 .. m - 1 : Segment(P, N, k) = <<>> /\ Segment(P, M, k) = <<>>
  PROVE  Lead(P, N) = Lead(P, M) \o Segment(P, N, m)
<1> DEFINE s == Segments(P, M)
           v == Segments(P, N)
           p == n + 1 - m
<1>1. /\ s \in Seq(Seq(Instants)) /\ Len(s) = n
      /\ \A j \in 1 .. n : s[j] = Segment(P, M, n + 1 - j)
  BY SegmentsType
<1>2. /\ v \in Seq(Seq(Instants)) /\ Len(v) = n
      /\ \A j \in 1 .. n : v[j] = Segment(P, N, n + 1 - j)
  BY SegmentsType
<1> HIDE DEF s, v
<1>3. p \in 1 .. n /\ n + 1 - p = m
  OBVIOUS
<1>4. \A j \in 1 .. p - 1 : v[j] = s[j]
  BY <1>1, <1>2
<1>5. s[p] = <<>> /\ v[p] = Segment(P, N, m)
  BY <1>1, <1>2, <1>3
<1>6. \A j \in p + 1 .. n : s[j] = <<>> /\ v[j] = <<>>
  <2> SUFFICES ASSUME NEW j \in p + 1 .. n PROVE s[j] = <<>> /\ v[j] = <<>>
    OBVIOUS
  <2>1. j \in 1 .. n /\ n + 1 - j \in 1 .. m - 1
    OBVIOUS
  <2> QED
    BY <1>1, <1>2, <2>1
<1> HIDE DEF p
<1>7. FlattenSeq(v) = FlattenSeq(s) \o v[p]
  <2>1. /\ s \in Seq(Seq(Instants)) /\ v \in Seq(Seq(Instants)) /\ Len(v) = Len(s)
        /\ p \in 1 .. Len(s) /\ \A j \in p + 1 .. Len(s) : s[j] = <<>> /\ v[j] = <<>>
    BY <1>1, <1>2, <1>3, <1>6
  <2> QED
    BY <1>4, <1>5, <2>1, FlattenFills
<1> QED
  BY <1>5, <1>7 DEF Lead, s, v

-----------------------------------------------------------------------------
(* What a step of the program takes from them                              *)

(* The instruction a thread executes next. *)
Following(P) == [ins |-> Ins(Top(P).bb, Top(P).index), last |-> Top(P).last, depth |-> Len(P)]

(* The instructions of a segment lie in the block of the frame.            *)
LEMMA SegmentType ==
  ASSUME NEW P, NEW M, NEW k \in Int, P[k] \in ProgramFrames,
         P[k].index >= 0 => Reaches(P, M, k) \in Int /\ Reaches(P, M, k) <= Size(P[k].bb)
  PROVE  Segment(P, M, k) \in Seq(Instants)
<1> DEFINE f == P[k]
           r == Reaches(P, M, k)
           x(j) == [ins |-> Ins(f.bb, f.index + j - 1), last |-> f.last, depth |-> k]
<1>1. CASE f.index < 0
  <2>1. <<>> \in Seq(Instants)
    OBVIOUS
  <2> QED
    BY <1>1, <2>1 DEF Segment
<1>2. CASE f.index >= 0
  <2>1. f.bb \in DOMAIN BB2Ins /\ f.index \in Nat /\ f.last \in DOMAIN BB2Ins \cup {-1}
    BY <1>2, FrameFacts
  <2>2. r \in Int /\ r <= Size(f.bb) /\ Size(f.bb) \in Nat
    BY <1>2, <2>1, BlockFacts
  <2> HIDE DEF f, r
  <2>3. ASSUME NEW j \in 1 .. r - f.index PROVE x(j) \in Instants
    <3>1. f.index + j - 1 \in 0 .. Size(f.bb) - 1
      BY <2>1, <2>2
    <3>2. Ins(f.bb, f.index + j - 1) \in Instructions
      BY <2>1, <3>1, BlockFacts
    <3> QED
      BY <2>1, <3>2 DEF Instants
  <2>4. [j \in 1 .. r - f.index |-> x(j)] \in Seq(Instants)
    <3> HIDE DEF x
    <3>1. PICK d \in Nat : 1 .. d = 1 .. r - f.index
      <4>1. CASE r - f.index \in Nat
        BY <4>1
      <4>2. CASE r - f.index \notin Nat
        <5>1. 1 .. 0 = 1 .. r - f.index
          BY <2>1, <2>2, <4>2
        <5> QED
          BY <5>1
      <4> QED
        BY <4>1, <4>2
    <3>2. [j \in 1 .. r - f.index |-> x(j)] \in [1 .. r - f.index -> Instants]
      BY <2>3
    <3>3. [j \in 1 .. r - f.index |-> x(j)] \in [1 .. d -> Instants]
      BY <3>1, <3>2
    <3> DEFINE g == [j \in 1 .. r - f.index |-> x(j)]
    <3> HIDE DEF g
    <3>4. g \in [1 .. d -> Instants]
      BY <3>3 DEF g
    <3>5. g \in Seq(Instants)
      BY <3>4, SeqDef
    <3> QED
      BY <3>5 DEF g
  <2>5. ~(f.index < 0)
    BY <1>2, <2>1
  <2> QED
    BY <2>4, <2>5 DEF Segment, f, r
<1>3. f.index \in Int
  BY FrameFacts
<1> QED
  BY <1>1, <1>2, <1>3

(* Nothing lies between a frame and itself, and nothing before its entry.  *)
LEMMA SegmentNone ==
  ASSUME NEW P, NEW M, NEW k, P[k] \in ProgramFrames,
         P[k].index = -1 \/ Reaches(P, M, k) = P[k].index
  PROVE  Segment(P, M, k) = <<>>
<1>1. P[k].index \in Int
  BY FrameFacts
<1>2. CASE P[k].index = -1
  BY <1>2 DEF Segment
<1>3. CASE Reaches(P, M, k) = P[k].index
  <2>1. 1 .. Reaches(P, M, k) - P[k].index = {}
    BY <1>1, <1>3
  <2>2. \A g : (DOMAIN g = {} /\ g = [j \in {} |-> g[j]]) => g = <<>>
    OBVIOUS
  <2> QED
    BY <2>1, <2>2 DEF Segment
<1> QED
  BY <1>2, <1>3

(* A sequence by its first element and the others.                         *)
LEMMA SequenceIs ==
  ASSUME NEW S, NEW s \in Seq(S), NEW v \in Seq(S), NEW x \in S, Len(s) = Len(v) + 1,
         s[1] = x, \A j \in 1 .. Len(v) : s[j + 1] = v[j]
  PROVE  s = <<x>> \o v
<1> DEFINE n == Len(v)
           w == <<x>> \o v
<1>1. n \in Nat /\ Len(s) = n + 1 /\ s[1] = x /\ \A j \in 1 .. n : s[j + 1] = v[j]
  OBVIOUS
<1>2. w \in Seq(S) /\ Len(w) = n + 1 /\ w[1] = x /\ \A j \in 1 .. n : w[j + 1] = v[j]
  OBVIOUS
<1> HIDE DEF n, w
<1>3. \A k \in 1 .. n + 1 : s[k] = w[k]
  <2> SUFFICES ASSUME NEW k \in 1 .. n + 1 PROVE s[k] = w[k]
    OBVIOUS
  <2>1. CASE k = 1
    BY <1>1, <1>2, <2>1
  <2>2. CASE k # 1
    <3>1. k - 1 \in 1 .. n /\ (k - 1) + 1 = k
      BY <1>1, <2>2
    <3>2. s[(k - 1) + 1] = v[k - 1] /\ w[(k - 1) + 1] = v[k - 1]
      BY <1>1, <1>2, <3>1
    <3> QED
      BY <3>1, <3>2
  <2> QED
    BY <2>1, <2>2
<1>4. s = w
  BY <1>1, <1>2, <1>3, SeqEqual
<1> QED
  BY <1>4 DEF w

(* The first instruction of a segment.                                     *)
LEMMA SegmentFirst ==
  ASSUME NEW P, NEW Q, NEW M, NEW n \in Nat, P[n] \in ProgramFrames, P[n].index >= 0,
         Q[n] = [P[n] EXCEPT !.index = @ + 1],
         NEW r, r = Reaches(P, M, n), Reaches(Q, M, n) = r,
         r \in P[n].index + 1 .. Size(P[n].bb),
         NEW x, x = [ins |-> Ins(P[n].bb, P[n].index), last |-> P[n].last, depth |-> n]
  PROVE  Segment(P, M, n) = <<x>> \o Segment(Q, M, n) /\ x \in Instants
<1> DEFINE f == P[n]
           i == f.index
           y(j) == [ins |-> Ins(f.bb, j), last |-> f.last, depth |-> n]
<1>1. /\ f.bb \in DOMAIN BB2Ins /\ i \in Nat /\ f.last \in DOMAIN BB2Ins \cup {-1} /\ r \in Nat
      /\ i < r /\ Size(f.bb) \in Nat
  BY FrameFacts, BlockFacts
<1>2. Q[n].bb = f.bb /\ Q[n].last = f.last /\ Q[n].index = i + 1
  BY FrameFacts
<1> HIDE DEF f, i
<1>3. Segment(P, M, n) = [j \in 1 .. r - i |-> y(i + j - 1)]
  BY <1>1 DEF Segment, f, i
<1>4. Segment(Q, M, n) = [j \in 1 .. r - (i + 1) |-> y((i + 1) + j - 1)]
  <2>1. ~(Q[n].index < 0) /\ Reaches(Q, M, n) = r
    BY <1>1, <1>2
  <2> QED
    BY <1>2, <2>1, Zenon DEF Segment
<1>5. x = y(i) /\ x \in Instants
  <2>1. Ins(f.bb, i) \in Instructions
    <3>1. i \in 0 .. Size(f.bb) - 1
      BY <1>1 DEF f, i
    <3> QED
      BY <1>1, <3>1, BlockFacts
  <2> QED
    BY <1>1, <2>1 DEF Instants, f, i
<1> HIDE DEF y
<1> DEFINE s == [j \in 1 .. r - i |-> y(i + j - 1)]
           v == [j \in 1 .. r - (i + 1) |-> y((i + 1) + j - 1)]
           S == {y(j) : j \in i .. r}
<1>6. s \in Seq(S) /\ v \in Seq(S) /\ x \in S
  <2>1. \A j \in 1 .. r - i : y(i + j - 1) \in S
    <3> SUFFICES ASSUME NEW j \in 1 .. r - i PROVE y(i + j - 1) \in S
      OBVIOUS
    <3>1. i + j - 1 \in i .. r
      BY <1>1
    <3> QED
      BY <3>1
  <2>2. \A j \in 1 .. r - (i + 1) : y((i + 1) + j - 1) \in S
    <3> SUFFICES ASSUME NEW j \in 1 .. r - (i + 1) PROVE y((i + 1) + j - 1) \in S
      OBVIOUS
    <3>1. (i + 1) + j - 1 \in i .. r
      BY <1>1
    <3> QED
      BY <3>1
  <2>3. x \in S
    BY <1>1, <1>5
  <2> HIDE DEF S
  <2>4. r - i \in Nat /\ r - (i + 1) \in Nat
    BY <1>1
  <2>5. s \in [1 .. r - i -> S] /\ v \in [1 .. r - (i + 1) -> S]
    BY <2>1, <2>2
  <2> HIDE DEF s, v
  <2>6. s \in Seq(S)
    BY <2>4, <2>5, FunctionIsSeq
  <2>7. v \in Seq(S)
    BY <2>4, <2>5, FunctionIsSeq
  <2> QED
    BY <2>3, <2>6, <2>7
<1>7. /\ Len(s) = r - i /\ Len(v) = r - i - 1
      /\ \A j \in 1 .. r - i : s[j] = y(i + j - 1)
      /\ \A j \in 1 .. r - i - 1 : v[j] = y(i + j)
  <2>1. r - i \in Nat /\ r - (i + 1) \in Nat /\ r - (i + 1) = r - i - 1
    BY <1>1
  <2>2. \A j \in 1 .. r - i - 1 : (i + 1) + j - 1 = i + j
    BY <1>1
  <2> QED
    BY <1>6, <2>1, <2>2
<1> HIDE DEF s, v, S
<1>8. s[1] = x /\ \A j \in 1 .. Len(v) : s[j + 1] = v[j]
  <2>1. 1 \in 1 .. r - i /\ i + 1 - 1 = i
    BY <1>1
  <2>2. \A j \in 1 .. r - i - 1 : j + 1 \in 1 .. r - i /\ i + (j + 1) - 1 = i + j
    BY <1>1
  <2> QED
    BY <1>5, <1>7, <2>1, <2>2
<1>9. s = <<x>> \o v
  <2>1. Len(s) = Len(v) + 1 /\ Len(v) \in Nat
    BY <1>1, <1>7
  <2>2. ASSUME NEW u \in S, s[1] = u PROVE s = <<u>> \o v
    BY <1>6, <1>8, <2>1, <2>2, SequenceIs
  <2> QED
    BY <1>6, <1>8, <2>2, Zenon
<1> QED
  BY <1>3, <1>4, <1>5, <1>9 DEF s, v

(* How far MergeTrace has got in the frames of the program.                *)
LEMMA ReachesLoop ==
  ASSUME NEW P, Stack(P), NEW M, NEW m \in 0 .. Len(P), Closed(P, m, M), NEW k \in 1 .. Len(P)
  PROVE  /\ P[k] \in ProgramFrames
         /\ k <= m => Reaches(P, M, k) = P[k].index
         /\ k > m => /\ P[k].index >= 0 /\ Returning(P[k])
                     /\ Reaches(P, M, k) = EndIndex(P[k].bb, P[k].index)
<1>1. P[k] \in ProgramFrames /\ Len(P) \in Nat
  BY StackFacts
<1>2. k <= m => Reaches(P, M, k) = P[k].index
  BY <1>1 DEF Closed, Below, Exact, Reaches
<1>3. k > m => /\ P[k].index >= 0 /\ Returning(P[k])
               /\ Reaches(P, M, k) = EndIndex(P[k].bb, P[k].index)
  BY <1>1 DEF Closed, Above, Returning, Reaches
<1> QED
  BY <1>1, <1>2, <1>3

(* The same at an event.                                                   *)
LEMMA ReachesEvent ==
  ASSUME NEW P, Stack(P), NEW M, M = <<>> => Len(M) = 0, NEW m \in 0 .. Len(P),
         AtEvent(P, m, M), NEW k \in 1 .. Len(P)
  PROVE  /\ P[k] \in ProgramFrames
         /\ k < m => Reaches(P, M, k) = P[k].index
         /\ k = m /\ P[k].index >= 0 => Reaches(P, M, k) = EndIndex(P[k].bb, P[k].index)
         /\ k > m => /\ P[k].index >= 0 /\ Returning(P[k])
                     /\ Reaches(P, M, k) = EndIndex(P[k].bb, P[k].index)
<1>1. P[k] \in ProgramFrames /\ Len(P) \in Nat /\ m \in Nat /\ k \in Nat
  BY StackFacts
<1>2. /\ m > 0 => Len(M) = m \/ Len(M) = m - 1
      /\ m = 0 => Len(M) = 0
  <2>1. m > 0 => P[m].index \in Int /\ P[m].index >= -1
    <3> SUFFICES ASSUME m > 0 PROVE P[m].index \in Int /\ P[m].index >= -1
      OBVIOUS
    <3>1. P[m] \in ProgramFrames
      BY <1>1, StackFacts
    <3> QED
      BY <3>1, FrameFacts, BlockFacts
  <2> QED
    BY <2>1 DEF AtEvent
<1>3. k < m => Reaches(P, M, k) = P[k].index
  <2> SUFFICES ASSUME k < m PROVE Reaches(P, M, k) = P[k].index
    OBVIOUS
  <2>1. k <= Len(M) /\ k \in 1 .. m - 1 /\ m > 0
    BY <1>1, <1>2
  <2>2. M[k] = Exact(P[k])
    BY <2>1 DEF AtEvent, Below
  <2> QED
    BY <2>1, <2>2 DEF Reaches, Exact
<1>4. k = m /\ P[k].index >= 0 => Reaches(P, M, k) = EndIndex(P[k].bb, P[k].index)
  BY <1>1 DEF AtEvent, Ahead, Reaches
<1>5. k > m => /\ P[k].index >= 0 /\ Returning(P[k])
               /\ Reaches(P, M, k) = EndIndex(P[k].bb, P[k].index)
  <2> SUFFICES ASSUME k > m PROVE /\ P[k].index >= 0 /\ Returning(P[k])
                                  /\ Reaches(P, M, k) = EndIndex(P[k].bb, P[k].index)
    OBVIOUS
  <2>1. ~(k <= Len(M))
    BY <1>1, <1>2
  <2>2. k \in m + 1 .. Len(P)
    BY <1>1
  <2>3. Returning(P[k])
    BY <2>2 DEF AtEvent, Above
  <2> QED
    BY <2>1, <2>3 DEF Returning, Reaches
<1> QED
  BY <1>1, <1>3, <1>4, <1>5

(* An index that MergeTrace reaches is in the block.                       *)
LEMMA EndIndexOf ==
  ASSUME NEW f \in ProgramFrames, f.index >= 0
  PROVE  EndIndex(f.bb, f.index) \in f.index .. Size(f.bb) /\ Size(f.bb) \in Nat /\ f.index \in Nat
<1>1. f.bb \in DOMAIN BB2Ins /\ f.index \in 0 .. Size(f.bb) /\ Size(f.bb) \in Nat
  BY FrameFacts, BlockFacts
<1> QED
  BY <1>1, EndIndexStep

(* The segments are sequences of instructions.                             *)
LEMMA FitsStep ==
  ASSUME NEW P, Stack(P), NEW M, M = <<>> => Len(M) = 0, InStep(P, M)
  PROVE  Fits(P, M) /\ Lead(P, M) \in Seq(Instants)
<1>0. Len(P) \in Nat
  BY StackFacts
<1>1. PICK m \in 0 .. Len(P) : AtEvent(P, m, M)
  BY DEF InStep
<1>2. ASSUME NEW k \in 1 .. Len(P) PROVE Segment(P, M, k) \in Seq(Instants)
  <2>1. /\ P[k] \in ProgramFrames /\ k \in Int /\ m \in Int
        /\ k < m => Reaches(P, M, k) = P[k].index
        /\ k = m /\ P[k].index >= 0 => Reaches(P, M, k) = EndIndex(P[k].bb, P[k].index)
        /\ k > m => Reaches(P, M, k) = EndIndex(P[k].bb, P[k].index)
    BY <1>0, <1>1, ReachesEvent
  <2>2. P[k].index >= 0 => /\ EndIndex(P[k].bb, P[k].index) \in P[k].index .. Size(P[k].bb)
                           /\ Size(P[k].bb) \in Nat /\ P[k].index \in Nat
    BY <2>1, EndIndexOf
  <2>3. P[k].index <= Size(P[k].bb)
    BY <2>1, FrameFacts, BlockFacts
  <2>4. P[k].index >= 0 => Reaches(P, M, k) \in Int /\ Reaches(P, M, k) <= Size(P[k].bb)
    BY <2>1, <2>2, <2>3
  <2> QED
    BY <2>1, <2>4, SegmentType
<1>3. Fits(P, M)
  BY <1>2 DEF Fits
<1> QED
  BY <1>0, <1>3, SegmentsType

(* Also in the loop.                                                       *)
LEMMA FitsLoop ==
  ASSUME NEW P, Stack(P), NEW M, InLoop(P, M)
  PROVE  Fits(P, M) /\ Lead(P, M) \in Seq(Instants)
<1>0. Len(P) \in Nat
  BY StackFacts
<1>1. PICK m \in 0 .. Len(P) : Closed(P, m, M)
  BY DEF InLoop
<1>2. ASSUME NEW k \in 1 .. Len(P) PROVE Segment(P, M, k) \in Seq(Instants)
  <2>1. /\ P[k] \in ProgramFrames /\ k \in Int /\ m \in Int
        /\ k <= m => Reaches(P, M, k) = P[k].index
        /\ k > m => Reaches(P, M, k) = EndIndex(P[k].bb, P[k].index)
    BY <1>0, <1>1, ReachesLoop
  <2>2. P[k].index >= 0 => /\ EndIndex(P[k].bb, P[k].index) \in P[k].index .. Size(P[k].bb)
                           /\ Size(P[k].bb) \in Nat /\ P[k].index \in Nat
    BY <2>1, EndIndexOf
  <2>3. P[k].index <= Size(P[k].bb)
    BY <2>1, FrameFacts, BlockFacts
  <2>4. P[k].index >= 0 => Reaches(P, M, k) \in Int /\ Reaches(P, M, k) <= Size(P[k].bb)
    BY <2>1, <2>2, <2>3
  <2> QED
    BY <2>1, <2>4, SegmentType
<1>3. Fits(P, M)
  BY <1>2 DEF Fits
<1> QED
  BY <1>0, <1>3, SegmentsType

(* Right behind an event there is nothing between the stacks.              *)
LEMMA LeadLoop ==
  ASSUME NEW P, Stack(P), NEW M, InLoop(P, M), Len(M) = Len(P)
  PROVE  Lead(P, M) = <<>>
<1>0. Len(P) \in Nat
  BY StackFacts
<1>1. PICK m \in 0 .. Len(P) : Closed(P, m, M)
  BY DEF InLoop
<1>2. m = Len(P)
  BY <1>1 DEF Closed
<1>3. ASSUME NEW k \in 1 .. Len(P) PROVE Segment(P, M, k) = <<>>
  <2>1. k <= m
    BY <1>0, <1>2
  <2> QED
    BY <1>1, <2>1, ReachesLoop, SegmentNone
<1> QED
  BY <1>0, <1>3, LeadNone

(* Nor is there right before one.                                          *)
LEMMA LeadEvent ==
  ASSUME NEW P, Stack(P), P # <<>>, NEW M, M = <<>> => Len(M) = 0, InStep(P, M),
         \/ Top(P).index = -1
         \/ Top(P).index >= 0 /\ Records(Ins(Top(P).bb, Top(P).index))
  PROVE  Lead(P, M) = <<>>
<1> DEFINE n == Len(P)
           f == Top(P)
<1>1. /\ f \in ProgramFrames /\ f = P[n] /\ n \in Nat \ {0} /\ f.bb \in DOMAIN BB2Ins
      /\ Size(f.bb) \in Nat \ {0} /\ f.index \in -1 .. Size(f.bb) - 1
  BY StackTop
<1>2. f.index >= 0 => EndIndex(f.bb, f.index) = f.index
  <2> SUFFICES ASSUME f.index >= 0 PROVE EndIndex(f.bb, f.index) = f.index
    OBVIOUS
  <2>1. f.index \in 0 .. Size(f.bb) /\ f.index < Size(f.bb) /\ Records(Ins(f.bb, f.index))
    BY <1>1
  <2> QED
    BY <1>1, <2>1, EndIndexStep
<1>3. ~Returning(f)
  <2>1. ~ReturnsAt(f.bb, f.index)
    BY <1>1, FrameFacts
  <2> QED
    BY <1>2, <2>1 DEF Returning
<1>4. AtEvent(P, n, M)
  BY <1>3, TopIsAt
<1> HIDE DEF n, f
<1>5. ASSUME NEW k \in 1 .. n PROVE Segment(P, M, k) = <<>>
  <2>1. /\ P[k] \in ProgramFrames
        /\ k < n => Reaches(P, M, k) = P[k].index
        /\ k = n /\ P[k].index >= 0 => Reaches(P, M, k) = EndIndex(P[k].bb, P[k].index)
    <3>1. n \in 0 .. n
      BY <1>1
    <3> QED
      BY <1>4, <1>5, <3>1, ReachesEvent DEF n
  <2>2. P[k].index = -1 \/ Reaches(P, M, k) = P[k].index
    <3>1. CASE k < n
      BY <2>1, <3>1
    <3>2. CASE k = n
      <4>1. P[k] = f /\ (f.index = -1 \/ f.index >= 0)
        BY <1>1, <3>2
      <4> QED
        BY <1>2, <2>1, <3>2, <4>1
    <3> QED
      BY <1>1, <3>1, <3>2
  <2> QED
    BY <2>1, <2>2, SegmentNone
<1> QED
  BY <1>1, <1>5, LeadNone DEF n

(* MergeTrace is ahead in the top frame, or has closed it.                 *)
LEMMA ReachesTop ==
  ASSUME NEW P, Stack(P), P # <<>>, NEW M, M = <<>> => Len(M) = 0, InStep(P, M),
         Top(P).index >= 0
  PROVE  Reaches(P, M, Len(P)) = EndIndex(Top(P).bb, Top(P).index)
<1>1. Top(P) = P[Len(P)] /\ Len(P) \in Nat \ {0}
  BY StackTop
<1>2. PICK m \in 0 .. Len(P) : AtEvent(P, m, M)
  BY DEF InStep
<1>3. Len(P) \in 1 .. Len(P) /\ (Len(P) = m \/ Len(P) > m)
  BY <1>1
<1> QED
  BY <1>1, <1>2, <1>3, ReachesEvent

(* A segment of one instruction.                                           *)
LEMMA SegmentOne ==
  ASSUME NEW P, NEW M, NEW n \in Nat, P[n] \in ProgramFrames, P[n].index >= 0,
         Reaches(P, M, n) = P[n].index + 1
  PROVE  Segment(P, M, n) = <<[ins |-> Ins(P[n].bb, P[n].index), last |-> P[n].last, depth |-> n]>>
<1> DEFINE i == P[n].index
           y(j) == [ins |-> Ins(P[n].bb, j), last |-> P[n].last, depth |-> n]
<1>1. i \in Nat /\ ~(i < 0) /\ Reaches(P, M, n) - i = 1
  BY FrameFacts
<1>2. Segment(P, M, n) = [j \in 1 .. 1 |-> y(i + j - 1)]
  BY <1>1 DEF Segment
<1> HIDE DEF i, y
<1>3. [j \in 1 .. 1 |-> y(i + j - 1)] = <<y(i)>>
  <2>1. \A j \in 1 .. 1 : y(i + j - 1) = y(i)
    <3> SUFFICES ASSUME NEW j \in 1 .. 1 PROVE y(i + j - 1) = y(i)
      OBVIOUS
    <3>1. i + j - 1 = i
      BY <1>1
    <3> QED
      BY <3>1
  <2> QED
    BY <2>1
<1> QED
  BY <1>2, <1>3 DEF i, y

(* What is between the stacks, by the top frame and those below.           *)
LEMMA LeadOfTop ==
  ASSUME NEW P, Stack(P), P # <<>>, NEW M, Fits(P, M),
         NEW Q, Len(Q) = Len(P), \A k \in 1 .. Len(P) - 1 : Q[k] = P[k], Fits(Q, M)
  PROVE  /\ Lead(P, M) = Segment(P, M, Len(P)) \o Lead(Pop(P), M)
         /\ Lead(Q, M) = Segment(Q, M, Len(P)) \o Lead(Pop(P), M)
         /\ Segment(P, M, Len(P)) \in Seq(Instants) /\ Segment(Q, M, Len(P)) \in Seq(Instants)
         /\ Lead(Pop(P), M) \in Seq(Instants)
<1>1. /\ Len(P) \in Nat \ {0} /\ Len(Pop(P)) = Len(P) - 1
      /\ \A k \in 1 .. Len(P) - 1 : Pop(P)[k] = P[k]
  BY StackPop
<1>2. IsRest(Pop(P), P, Len(P)) /\ IsRest(Pop(P), Q, Len(P))
  BY <1>1 DEF IsRest
<1> DEFINE R == Pop(P)
           n == Len(P)
<1> HIDE DEF R, n
<1>3. IsRest(R, P, n) /\ IsRest(R, Q, n)
  BY <1>2 DEF R, n
<1>4. /\ Lead(P, M) = Segment(P, M, n) \o Lead(R, M)
      /\ Segment(P, M, n) \in Seq(Instants) /\ Lead(R, M) \in Seq(Instants)
  BY <1>3, LeadTop
<1>5. Lead(Q, M) = Segment(Q, M, n) \o Lead(R, M) /\ Segment(Q, M, n) \in Seq(Instants)
  BY <1>3, LeadTop
<1> QED
  BY <1>4, <1>5 DEF R, n

(* A thread follows what MergeTrace has put in a block already, one        *)
(* instruction that records nothing after the other.                       *)
LEMMA LeadPlain ==
  ASSUME NEW P, Stack(P), P # <<>>, NEW M, M = <<>> => Len(M) = 0, InStep(P, M),
         Top(P).index >= 0, Type[Ins(Top(P).bb, Top(P).index)] \in Plain
  PROVE  LET Q == SetTop(P, [Top(P) EXCEPT !.index = @ + 1])
         IN  Lead(P, M) = <<Following(P)>> \o Lead(Q, M) /\ Following(P) \in Instants
<1> DEFINE f == Top(P)
           g == [f EXCEPT !.index = @ + 1]
           Q == SetTop(P, g)
           n == Len(P)
           r == EndIndex(f.bb, f.index)
<1>1. /\ f \in ProgramFrames /\ f = P[n] /\ n \in Nat \ {0} /\ f.bb \in DOMAIN BB2Ins
      /\ Size(f.bb) \in Nat \ {0} /\ f.index \in 0 .. Size(f.bb) - 1
  BY StackTop
<1>2. f.index # Size(f.bb) - 1
  <2>1. Type[Ins(f.bb, f.index)] \notin {"TerminatorInst", "ReturnInst"}
    BY DEF Plain
  <2> QED
    BY <1>1, <2>1, BlockFacts
<1>3. r = EndIndex(f.bb, f.index + 1) /\ r \in f.index + 1 .. Size(f.bb)
  <2>1. Type[Ins(f.bb, f.index)] \in Continuous
    BY DEF Plain, Continuous
  <2>2. f.index \in 0 .. Size(f.bb) /\ f.index < Size(f.bb) /\ f.index + 1 \in 0 .. Size(f.bb)
    BY <1>1
  <2>3. r = EndIndex(f.bb, f.index + 1)
    BY <1>1, <2>1, <2>2, EndIndexStep
  <2> QED
    BY <1>1, <2>2, <2>3, EndIndexStep
<1>4. Stack(Q) /\ InStep(Q, M)
  BY InStepPlain
<1>5. /\ g \in ProgramFrames /\ g.bb = f.bb /\ g.last = f.last /\ g.index = f.index + 1
  <2> HIDE DEF f
  <2>1. f.index + 1 \in -1 .. Size(f.bb) - 1
    BY <1>1, <1>2
  <2> QED
    BY <1>1, <2>1 DEF ProgramFrames
<1>6. Len(Q) = n /\ Q[n] = g /\ \A k \in 1 .. n - 1 : Q[k] = P[k]
  BY <1>1, <1>5, StackSetTop
<1>7. Reaches(P, M, n) = r
  BY <1>1, ReachesTop
<1>8. Reaches(Q, M, n) = r
  <2>1. Q # <<>> /\ Top(Q) = g /\ g.index >= 0
    BY <1>1, <1>5, <1>6 DEF Top
  <2> HIDE DEF Q, g
  <2> QED
    BY <1>3, <1>4, <1>5, <1>6, <2>1, ReachesTop
<1>9. Segment(P, M, n) = <<Following(P)>> \o Segment(Q, M, n) /\ Following(P) \in Instants
  <2>1. P[n].index >= 0 /\ n \in Nat /\ Q[n] = [P[n] EXCEPT !.index = @ + 1]
    BY <1>1, <1>6
  <2>2. Following(P) = [ins |-> Ins(P[n].bb, P[n].index), last |-> P[n].last, depth |-> n]
    BY <1>1 DEF Following
  <2> DEFINE x == Following(P)
  <2> HIDE DEF x, Q, g, r
  <2> QED
    BY <1>1, <1>3, <1>7, <1>8, <2>1, <2>2, SegmentFirst DEF x
<1>10. Fits(P, M) /\ Fits(Q, M)
  <2>1. Fits(P, M)
    BY FitsStep
  <2>2. Fits(Q, M)
    <3> HIDE DEF Q
    <3> QED
      BY <1>4, FitsStep
  <2> QED
    BY <2>1, <2>2
<1>11. /\ Lead(P, M) = Segment(P, M, n) \o Lead(Pop(P), M)
       /\ Lead(Q, M) = Segment(Q, M, n) \o Lead(Pop(P), M)
       /\ Segment(Q, M, n) \in Seq(Instants) /\ Lead(Pop(P), M) \in Seq(Instants)
  <2> HIDE DEF Q
  <2> QED
    BY <1>6, <1>10, LeadOfTop
<1> HIDE DEF Q
<1>12. <<Following(P)>> \in Seq(Instants)
  BY <1>9
<1>13. (<<Following(P)>> \o Segment(Q, M, n)) \o Lead(Pop(P), M)
          = <<Following(P)>> \o (Segment(Q, M, n) \o Lead(Pop(P), M))
  BY <1>11, <1>12, ConcatAssociative
<1> QED
  BY <1>9, <1>11, <1>13 DEF Q

(* Where it is the last one in front of an event, a call or the end.       *)
LEMMA LeadLast ==
  ASSUME NEW P, Stack(P), P # <<>>, NEW M, M = <<>> => Len(M) = 0, InStep(P, M),
         Top(P).index >= 0, EndIndex(Top(P).bb, Top(P).index) = Top(P).index + 1
  PROVE  /\ Lead(P, M) = <<Following(P)>> \o Lead(Pop(P), M) /\ Following(P) \in Instants
         /\ Lead(Pop(P), M) \in Seq(Instants)
<1>1. /\ Top(P) \in ProgramFrames /\ Top(P) = P[Len(P)] /\ Len(P) \in Nat \ {0}
      /\ Top(P).bb \in DOMAIN BB2Ins
  BY StackTop
<1>2. Segment(P, M, Len(P)) = <<Following(P)>>
  <2>1. Reaches(P, M, Len(P)) = P[Len(P)].index + 1
    BY <1>1, ReachesTop
  <2> QED
    BY <1>1, <2>1, SegmentOne DEF Following
<1>3. Fits(P, M)
  BY FitsStep
<1>4. /\ Lead(P, M) = Segment(P, M, Len(P)) \o Lead(Pop(P), M)
      /\ Segment(P, M, Len(P)) \in Seq(Instants) /\ Lead(Pop(P), M) \in Seq(Instants)
  BY <1>3, LeadOfTop
<1>5. Following(P) \in Instants
  <2> DEFINE x == Following(P)
  <2>1. <<x>> \in Seq(Instants)
    BY <1>2, <1>4
  <2> HIDE DEF x
  <2>2. x \in Instants
    <3>1. <<x>>[1] = x /\ Len(<<x>>) = 1
      OBVIOUS
    <3>2. <<x>>[1] \in Instants
      BY <2>1, <3>1
    <3> QED
      BY <3>1, <3>2
  <2> QED
    BY <2>2 DEF x
<1> QED
  BY <1>2, <1>4, <1>5

(* A frame that has nothing between the stacks.                            *)
LEMMA LeadSkip ==
  ASSUME NEW Q, NEW R, NEW M, NEW n, IsRest(R, Q, n), Fits(Q, M), Segment(Q, M, n) = <<>>
  PROVE  Lead(Q, M) = Lead(R, M) /\ Fits(R, M) /\ Lead(R, M) \in Seq(Instants)
<1>1. /\ Lead(Q, M) = Segment(Q, M, n) \o Lead(R, M)
      /\ Fits(R, M) /\ Lead(R, M) \in Seq(Instants)
  BY LeadTop
<1>2. <<>> \o Lead(R, M) = Lead(R, M)
  BY <1>1, ConcatEmptySeq
<1> QED
  BY <1>1, <1>2

(* A step from P to Q takes one instruction from what is in between.       *)
Takes(P, Q, M) ==
    /\ Following(P) \in Instants /\ Lead(Q, M) \in Seq(Instants)
    /\ Lead(P, M) = <<Following(P)>> \o Lead(Q, M)

(* A return takes the last one of its frame.                               *)
LEMMA TakesReturn ==
  ASSUME NEW P, Stack(P), P # <<>>, NEW M, M = <<>> => Len(M) = 0, InStep(P, M),
         Top(P).index >= 0, Type[Ins(Top(P).bb, Top(P).index)] = "ReturnInst"
  PROVE  Takes(P, Pop(P), M)
<1>1. /\ Top(P) \in ProgramFrames /\ Size(Top(P).bb) \in Nat \ {0}
      /\ Top(P).index \in -1 .. Size(Top(P).bb) - 1
  BY StackTop
<1>2. EndIndex(Top(P).bb, Top(P).index) = Size(Top(P).bb) /\ Top(P).index = Size(Top(P).bb) - 1
  BY <1>1, AtTheEnd
<1>3. EndIndex(Top(P).bb, Top(P).index) = Top(P).index + 1
  BY <1>1, <1>2
<1>4. /\ Lead(P, M) = <<Following(P)>> \o Lead(Pop(P), M) /\ Following(P) \in Instants
      /\ Lead(Pop(P), M) \in Seq(Instants)
  BY <1>3, LeadLast
<1> QED
  BY <1>4 DEF Takes

(* A branch too: the frame waits at the entry of the next block.           *)
LEMMA TakesBranch ==
  ASSUME NEW P, Stack(P), P # <<>>, NEW M, M = <<>> => Len(M) = 0, InStep(P, M),
         Top(P).index >= 0, Type[Ins(Top(P).bb, Top(P).index)] = "TerminatorInst",
         NEW bb \in DOMAIN BB2Ins
  PROVE  Takes(P, SetTop(P, Frame(bb, Top(P).bb)), M)
<1> DEFINE c == Frame(bb, Top(P).bb)
           Q == SetTop(P, c)
           R == Pop(P)
           n == Len(P)
<1>1. /\ Top(P) \in ProgramFrames /\ Size(Top(P).bb) \in Nat \ {0} /\ Top(P).bb \in DOMAIN BB2Ins
      /\ Top(P).index \in -1 .. Size(Top(P).bb) - 1
  BY StackTop
<1>2. /\ EndIndex(Top(P).bb, Top(P).index) = Size(Top(P).bb)
      /\ Top(P).index = Size(Top(P).bb) - 1
  BY <1>1, AtTheEnd
<1>3. EndIndex(Top(P).bb, Top(P).index) = Top(P).index + 1
  BY <1>1, <1>2
<1>4. /\ Lead(P, M) = <<Following(P)>> \o Lead(R, M) /\ Following(P) \in Instants
      /\ Lead(R, M) \in Seq(Instants)
  BY <1>3, LeadLast
<1>5. Stack(Q) /\ InStep(Q, M)
  BY InStepBranch
<1>6. c \in ProgramFrames /\ c.index = -1
  <2>1. -1 \in -1 .. Size(bb) - 1
    BY BlockFacts
  <2>2. Type[Ins(Top(P).bb, Size(Top(P).bb) - 1)] = "TerminatorInst"
    BY <1>2
  <2> QED
    BY <1>1, <2>1, <2>2 DEF ProgramFrames, Frame
<1> HIDE DEF c
<1>7. n \in Nat \ {0} /\ Len(Q) = n /\ Q[n] = c /\ \A k \in 1 .. n - 1 : Q[k] = P[k]
  BY <1>6, StackSetTop
<1>8. Len(R) = n - 1 /\ \A k \in 1 .. n - 1 : R[k] = P[k]
  BY StackPop
<1> HIDE DEF Q, R, n
<1>9. IsRest(R, Q, n)
  BY <1>7, <1>8 DEF IsRest
<1>10. Fits(Q, M)
  BY <1>5, FitsStep
<1>11. Segment(Q, M, n) = <<>>
  BY <1>6, <1>7, SegmentNone
<1>12. Lead(Q, M) = Lead(R, M)
  BY <1>9, <1>10, <1>11, LeadSkip
<1> QED
  BY <1>4, <1>12 DEF Takes, Q, c

(* A call as well, behind which the frame of the caller waits.             *)
LEMMA TakesCall ==
  ASSUME NEW P, Stack(P), P # <<>>, NEW M, M = <<>> => Len(M) = 0, InStep(P, M),
         Top(P).index >= 0, IsCall(Ins(Top(P).bb, Top(P).index)), NEW bb \in DOMAIN BB2Ins
  PROVE  Takes(P, Append(SetTop(P, [Top(P) EXCEPT !.index = @ + 1]), Frame(bb, -1)), M)
<1> DEFINE f == Top(P)
           g == [f EXCEPT !.index = @ + 1]
           c == Frame(bb, -1)
           W == SetTop(P, g)
           Q == Append(W, c)
           R == Pop(P)
           n == Len(P)
<1>1. Stack(Q) /\ InStep(Q, M)
  BY InStepCall
<1>2. /\ f \in ProgramFrames /\ f = P[n] /\ n \in Nat \ {0}
      /\ f.bb \in DOMAIN BB2Ins /\ Size(f.bb) \in Nat \ {0}
      /\ f.index \in 0 .. Size(f.bb) - 1 /\ IsCall(Ins(f.bb, f.index))
  BY StackTop
<1>3. EndIndex(f.bb, f.index) = f.index + 1
  <2>1. f.index \in 0 .. Size(f.bb) /\ f.index < Size(f.bb)
    BY <1>2
  <2> QED
    BY <1>2, <2>1, EndIndexStep
<1>4. /\ Lead(P, M) = <<Following(P)>> \o Lead(R, M) /\ Following(P) \in Instants
      /\ Lead(R, M) \in Seq(Instants)
  BY <1>3, LeadLast
<1>5. ~Returning(f)
  BY <1>2, <1>3 DEF IsCall, Returning, ReturnsAt
<1>6. AtEvent(P, n, M)
  BY <1>5, TopIsAt
<1> HIDE DEF f
<1>7. f.index + 1 \in 1 .. Size(f.bb) - 1
  BY <1>2, BlockFacts DEF IsCall
<1>8. g \in ProgramFrames /\ g.bb = f.bb /\ g.last = f.last /\ g.index = f.index + 1
  BY <1>2, <1>7 DEF ProgramFrames
<1>9. c \in ProgramFrames /\ c.index = -1
  BY BlockFacts DEF ProgramFrames, Frame
<1> HIDE DEF c, g
<1>10. /\ Stack(W) /\ Len(W) = n /\ W[n] = g /\ \A k \in 1 .. n - 1 : W[k] = P[k]
  BY <1>8, StackSetTop
<1> HIDE DEF W
<1>11. Calls(g)
  BY <1>2, <1>7, <1>8 DEF Calls
<1>12. Len(Q) = n + 1 /\ Q[n + 1] = c /\ \A k \in 1 .. n : Q[k] = W[k]
  BY <1>9, <1>10, <1>11, StackPush
<1>13. Len(R) = n - 1 /\ \A k \in 1 .. n - 1 : R[k] = P[k]
  BY StackPop
<1>14. Len(M) = n /\ M[n].CurIndex = f.index + 1
  <2>1. n > 0 /\ P[n].index >= 0
    BY <1>2
  <2>2. Len(M) = n /\ M[n] = Ahead(P[n])
    BY <1>6, <2>1 DEF AtEvent
  <2> QED
    BY <1>2, <1>3, <2>2 DEF Ahead
<1> HIDE DEF Q, R, n
<1>15. IsRest(W, Q, n + 1) /\ IsRest(R, W, n)
  <2>1. n + 1 \in Nat \ {0} /\ Len(W) = (n + 1) - 1 /\ 1 .. (n + 1) - 1 = 1 .. n
    BY <1>2, <1>10
  <2>2. IsRest(W, Q, n + 1)
    <3>1. \A k \in 1 .. (n + 1) - 1 : W[k] = Q[k]
      BY <1>12, <2>1
    <3> QED
      BY <1>12, <2>1, <3>1 DEF IsRest
  <2>3. IsRest(R, W, n)
    BY <1>2, <1>10, <1>13 DEF IsRest
  <2> QED
    BY <2>2, <2>3
<1>16. Fits(Q, M)
  BY <1>1, FitsStep
<1>17. Segment(Q, M, n + 1) = <<>>
  BY <1>9, <1>12, SegmentNone
<1>18. Lead(Q, M) = Lead(W, M) /\ Fits(W, M)
  BY <1>15, <1>16, <1>17, LeadSkip
<1>19. Segment(W, M, n) = <<>>
  <2>1. Reaches(W, M, n) = W[n].index
    BY <1>2, <1>8, <1>10, <1>14 DEF Reaches
  <2> QED
    BY <1>8, <1>10, <2>1, SegmentNone
<1>20. Lead(W, M) = Lead(R, M)
  BY <1>15, <1>18, <1>19, LeadSkip
<1> QED
  BY <1>4, <1>18, <1>20 DEF Takes, Q, W, c, g, f, R

(* An instruction that records nothing and calls nothing.                  *)
LEMMA TakesPlain ==
  ASSUME NEW P, Stack(P), P # <<>>, NEW M, M = <<>> => Len(M) = 0, InStep(P, M),
         Top(P).index >= 0, Type[Ins(Top(P).bb, Top(P).index)] \in Plain
  PROVE  Takes(P, SetTop(P, [Top(P) EXCEPT !.index = @ + 1]), M)
<1> DEFINE Q == SetTop(P, [Top(P) EXCEPT !.index = @ + 1])
<1>1. Lead(P, M) = <<Following(P)>> \o Lead(Q, M) /\ Following(P) \in Instants
  BY LeadPlain
<1>2. Stack(Q) /\ InStep(Q, M)
  BY InStepPlain
<1> HIDE DEF Q
<1>3. Lead(Q, M) \in Seq(Instants)
  BY <1>2, FitsStep
<1> QED
  BY <1>1, <1>3 DEF Takes, Q

(* A thread without frames, or with only a bottom frame to enter.          *)
LEMMA LeadStart ==
  ASSUME NEW M, M = <<>> => Len(M) = 0, InStep(<<>>, M), NEW bb \in DOMAIN BB2Ins
  PROVE  Lead(<<>>, M) = <<>> /\ Lead(<<Frame(bb, -1)>>, M) = <<>>
<1> DEFINE Q == <<Frame(bb, -1)>>
<1>1. Stack(Q) /\ InStep(Q, M)
  BY InStepStart
<1>2. Q # <<>> /\ Top(Q).index = -1
  BY DEF Top, Frame
<1> HIDE DEF Q
<1>3. Lead(Q, M) = <<>>
  BY <1>1, <1>2, LeadEvent
<1>4. Lead(<<>>, M) = <<>>
  <2>1. PICK n \in Nat : n = 0
    OBVIOUS
  <2>2. Len(<<>>) = n /\ \A k \in 1 .. n : Segment(<<>>, M, k) = <<>>
    BY <2>1
  <2> QED
    BY <2>2, LeadNone
<1> QED
  BY <1>3, <1>4 DEF Q

-----------------------------------------------------------------------------
(* The program goes on                                                     *)

(* What a thread executes next is an instruction.                          *)
LEMMA FollowingType ==
  ASSUME NEW P, Stack(P), P # <<>>, Top(P).index >= 0
  PROVE  Following(P) \in Instants
<1> DEFINE f == Top(P)
<1>1. /\ f \in ProgramFrames /\ Len(P) \in Nat \ {0} /\ Size(f.bb) \in Nat \ {0}
      /\ f.index \in -1 .. Size(f.bb) - 1
  BY StackTop
<1>2. f.bb \in DOMAIN BB2Ins /\ f.last \in DOMAIN BB2Ins \cup {-1}
  BY <1>1, FrameFacts
<1>3. f.index \in 0 .. Size(f.bb) - 1
  BY <1>1
<1>4. Ins(f.bb, f.index) \in Instructions
  BY <1>2, <1>3, BlockFacts
<1> QED
  BY <1>1, <1>2, <1>4 DEF Following, Instants

(* Between the events of the threads.                                      *)
LEMMA AllCover ==
  ASSUME ReplayInv, place = "next", event = NoEvent, NEW t \in Threads
  PROVE  /\ CoveredBy(blocks[t]) = executed[t] \o Lead(exec[t], call_stack[t])
         /\ executed[t] \in Seq(Instants)
<1>1. ~OnTheWay(event, t)
  BY DEF OnTheWay, NoEvent, Steps
<1> QED
  BY <1>1 DEF ReplayInv, Covers, Sequences

(* A step of thread t, which alone may have its event on the way then.     *)
LEMMA OneGoesOn ==
  ASSUME ReplayInv, place = "next", event = NoEvent, UNCHANGED mergeVars,
         NEW t \in Threads,
         \A u \in Threads \ {t} : /\ exec'[u] = exec[u] /\ executed'[u] = executed[u]
                                  /\ ~OnTheWay(event', u),
         executed' \in [Threads -> Seq(Instants)], Covers(t)'
  PROVE  ReplayInv'
<1>1. Sequences' /\ place' = "next"
  BY DEF ReplayInv, Sequences, mergeVars
<1>2. \A u \in Threads : Counted(u)'
  BY DEF ReplayInv, Counted, mergeVars
<1>3. \A u \in Threads \ {t} : Covers(u)'
  <2> SUFFICES ASSUME NEW u \in Threads \ {t} PROVE Covers(u)'
    OBVIOUS
  <2>1. CoveredBy(blocks[u]) = executed[u] \o Lead(exec[u], call_stack[u])
    BY AllCover
  <2> QED
    BY <2>1 DEF Covers, mergeVars
<1> QED
  BY <1>1, <1>2, <1>3 DEF ReplayInv

(* One more instruction of a thread.                                       *)
LEMMA ExecuteOne ==
  ASSUME executed \in [Threads -> Seq(Instants)], NEW t \in Threads, Execute(t),
         Executed(t) \in Instants
  PROVE  /\ executed' \in [Threads -> Seq(Instants)]
         /\ executed'[t] = Append(executed[t], Executed(t))
         /\ \A u \in Threads \ {t} : executed'[u] = executed[u]
<1> DEFINE x == Executed(t)
<1>1. executed' = [executed EXCEPT ![t] = Append(@, x)] /\ x \in Instants
  BY DEF Execute
<1> HIDE DEF x
<1>2. Append(executed[t], x) \in Seq(Instants)
  BY <1>1, AppendIsSeq
<1> QED
  BY <1>1, <1>2 DEF x

(* The step of a thread that records nothing.                              *)
LEMMA ReplaySilent ==
  ASSUME SInv, ReplayInv, place = "next", event = NoEvent, UNCHANGED mergeVars, Silent,
         NEW t \in Threads, NEW Q, exec' = [exec EXCEPT ![t] = Q], Execute(t),
         Takes(exec[t], Q, call_stack[t])
  PROVE  ReplayInv'
<1> DEFINE P == exec[t]
           M == call_stack[t]
           C == CoveredBy(blocks[t])
           E == executed[t]
           L == Lead(Q, M)
           x == Following(P)
<1>1. C = E \o Lead(P, M) /\ E \in Seq(Instants) /\ executed \in [Threads -> Seq(Instants)]
  BY AllCover DEF ReplayInv, Sequences
<1>2. x \in Instants /\ L \in Seq(Instants) /\ Lead(P, M) = <<x>> \o L
  BY DEF Takes
<1>3. Executed(t) = x
  BY DEF Executed, Following, Ins
<1>4. /\ executed' \in [Threads -> Seq(Instants)] /\ executed'[t] = Append(E, x)
      /\ \A u \in Threads \ {t} : executed'[u] = executed[u]
  BY <1>1, <1>2, <1>3, ExecuteOne
<1>5. exec'[t] = Q /\ \A u \in Threads \ {t} : exec'[u] = exec[u]
  BY DEF SInv, Stacks
<1>6. blocks' = blocks /\ call_stack' = call_stack /\ event' = event
  BY DEF mergeVars, Silent
<1>7. \A u \in Threads : ~OnTheWay(event', u)
  BY <1>6 DEF OnTheWay, NoEvent, Steps
<1> HIDE DEF P, M, C, E, L, x
<1>8. E \o (<<x>> \o L) = Append(E, x) \o L
  BY <1>1, <1>2, PutInFront, SMTT(20)
<1>9. C = Append(E, x) \o L
  BY <1>1, <1>2, <1>8
<1>10. CoveredBy(blocks'[t]) = executed'[t] \o Lead(exec'[t], call_stack'[t])
  BY <1>4, <1>5, <1>6, <1>9 DEF C, L, M
<1>11. Covers(t)'
  BY <1>7, <1>10 DEF Covers
<1> QED
  BY <1>4, <1>5, <1>7, <1>11, OneGoesOn

(* The step of a thread that records the event of its instruction.         *)
LEMMA ReplayEmit ==
  ASSUME SInv, ReplayInv, place = "next", event = NoEvent, UNCHANGED mergeVars,
         NEW t \in Threads, NEW Q, exec' = [exec EXCEPT ![t] = Q], Execute(t),
         exec[t] # <<>>, Top(exec[t]).index >= 0,
         Records(Ins(Top(exec[t]).bb, Top(exec[t]).index)),
         Top(Q).last = Top(exec[t]).last, Len(Q) = Len(exec[t]),
         NEW e, Emit(e), e.tid = t, e.label \in Steps,
         e.id = Ins(Top(exec[t]).bb, Top(exec[t]).index)
  PROVE  ReplayInv'
<1> DEFINE P == exec[t]
           M == call_stack[t]
           C == CoveredBy(blocks[t])
           E == executed[t]
           x == Following(P)
<1>1. C = E \o Lead(P, M) /\ E \in Seq(Instants) /\ executed \in [Threads -> Seq(Instants)]
  BY AllCover DEF ReplayInv, Sequences
<1>2. Stack(P) /\ InStep(P, M) /\ (M = <<>> => Len(M) = 0)
  BY AllInStep
<1>3. Lead(P, M) = <<>> /\ x \in Instants
  BY <1>2, LeadEvent, FollowingType
<1>4. Executed(t) = x
  BY DEF Executed, Following, Ins
<1>5. /\ executed' \in [Threads -> Seq(Instants)] /\ executed'[t] = Append(E, x)
      /\ \A u \in Threads \ {t} : executed'[u] = executed[u]
  BY <1>1, <1>3, <1>4, ExecuteOne
<1>6. exec'[t] = Q /\ \A u \in Threads \ {t} : exec'[u] = exec[u]
  BY DEF SInv, Stacks
<1>7. blocks' = blocks /\ event' = e
  BY DEF mergeVars, Emit
<1>8. \A u \in Threads : OnTheWay(event', u) <=> u = t
  BY <1>7 DEF OnTheWay
<1>9. Next1(t)' = x
  BY <1>6, <1>7 DEF Next1, Following
<1> HIDE DEF P, M, C, E, x
<1>10. C = E
  BY <1>1, <1>3, ConcatEmptySeq
<1>11. executed'[t] = Append(CoveredBy(blocks'[t]), Next1(t)')
  BY <1>5, <1>7, <1>9, <1>10 DEF C
<1>12. Covers(t)'
  BY <1>7, <1>8, <1>11 DEF Covers
<1> QED
  BY <1>5, <1>6, <1>8, <1>12, OneGoesOn

(* A thread starts, or enters a block, or is left as it is.                *)
LEMMA ReplayRest ==
  ASSUME SInv, ReplayInv, place = "next", event = NoEvent, UNCHANGED <<mergeVars, executed>>,
         NEW t \in Threads, NEW Q, exec'[t] = Q, \A u \in Threads \ {t} : exec'[u] = exec[u],
         \/ Lead(Q, call_stack[t]) = Lead(exec[t], call_stack[t]) /\ ~OnTheWay(event', t)
         \/ Lead(exec[t], call_stack[t]) = <<>> /\ event'.label = "BasicBlock"
            /\ OnTheWay(event', t),
         \A u \in Threads \ {t} : ~OnTheWay(event', u)
  PROVE  ReplayInv'
<1> DEFINE P == exec[t]
           M == call_stack[t]
           C == CoveredBy(blocks[t])
           E == executed[t]
<1>1. C = E \o Lead(P, M) /\ E \in Seq(Instants) /\ executed \in [Threads -> Seq(Instants)]
  BY AllCover DEF ReplayInv, Sequences
<1>2. exec'[t] = Q /\ \A u \in Threads \ {t} : exec'[u] = exec[u]
  OBVIOUS
<1>3. blocks' = blocks /\ call_stack' = call_stack /\ executed' = executed
  BY DEF mergeVars
<1>4. Lead(P, M) = <<>> => C = E
  <2> HIDE DEF C, E, P, M
  <2> QED
    BY <1>1, ConcatEmptySeq
<1>5. Covers(t)'
  <2>1. CASE Lead(Q, M) = Lead(P, M) /\ ~OnTheWay(event', t)
    <3>1. CoveredBy(blocks'[t]) = executed'[t] \o Lead(exec'[t], call_stack'[t])
      BY <1>1, <1>2, <1>3, <2>1
    <3> QED
      BY <2>1, <3>1 DEF Covers
  <2>2. CASE Lead(P, M) = <<>> /\ event'.label = "BasicBlock" /\ OnTheWay(event', t)
    <3>1. CoveredBy(blocks'[t]) = executed'[t]
      BY <1>3, <1>4, <2>2
    <3> QED
      BY <2>2, <3>1 DEF Covers, Steps
  <2> QED
    BY <2>1, <2>2
<1> QED
  BY <1>1, <1>2, <1>3, <1>5, OneGoesOn

(* The steps of a thread.                                                  *)
LEMMA ReplayThread ==
  ASSUME SInv, ReplayInv, place = "next", event = NoEvent, UNCHANGED mergeVars,
         NEW t \in Threads, Step(t)
  PROVE  ReplayInv'
<1> DEFINE P == exec[t]
           M == call_stack[t]
           f == Top(P)
<1>1. Stack(P) /\ InStep(P, M) /\ (M = <<>> => Len(M) = 0)
  BY AllInStep
<1>2. CASE StartThread(t) \/ RunOuter(t)
  <2>2. PICK bb \in DOMAIN BB2Ins : /\ Silent /\ P = <<>> /\ executed' = executed
                                    /\ exec' = [exec EXCEPT ![t] = <<Frame(bb, -1)>>]
    BY <1>2, EntersOuter
  <2> DEFINE Q == <<Frame(bb, -1)>>
  <2>1. event' = event /\ executed' = executed /\ exec' = [exec EXCEPT ![t] = Q]
    BY <2>2 DEF Silent
  <2>3. Lead(P, M) = Lead(Q, M)
    <3>1. InStep(<<>>, M)
      BY <1>1, <2>2
    <3>2. Lead(<<>>, M) = <<>> /\ Lead(Q, M) = <<>>
      BY <1>1, <2>2, <3>1, LeadStart
    <3> QED
      BY <2>2, <3>2
  <2>4. \A u \in Threads : ~OnTheWay(event', u)
    BY <2>1 DEF OnTheWay, NoEvent, Steps
  <2> HIDE DEF Q
  <2>5. exec'[t] = Q /\ \A u \in Threads \ {t} : exec'[u] = exec[u]
    BY <2>1 DEF SInv, Stacks
  <2> QED
    BY <2>1, <2>3, <2>4, <2>5, ReplayRest
<1>3. CASE EnterBlock(t)
  <2> DEFINE e == [label |-> "BasicBlock", tid |-> t, id |-> f.bb]
             Q == SetTop(P, [f EXCEPT !.index = 0])
  <2>1. /\ P # <<>> /\ f.index = -1 /\ executed' = executed /\ event' = e
        /\ exec' = [exec EXCEPT ![t] = Q]
    BY <1>3 DEF EnterBlock, Emit
  <2>2. Lead(P, M) = <<>>
    BY <1>1, <2>1, LeadEvent
  <2>3. event'.label = "BasicBlock" /\ \A u \in Threads : OnTheWay(event', u) <=> u = t
    BY <2>1 DEF OnTheWay
  <2> HIDE DEF Q, e
  <2>4. exec'[t] = Q /\ \A u \in Threads \ {t} : exec'[u] = exec[u]
    BY <2>1 DEF SInv, Stacks
  <2> QED
    BY <2>1, <2>2, <2>3, <2>4, ReplayRest
<1>4. ASSUME NEW i \in Instructions, exec[t] # <<>>, f.index >= 0, i = Ins(f.bb, f.index),
             \/ PlainStep(t, i) \/ AccessStep(t, i) \/ RecordArgument(t, i)
             \/ ExternalCall(t, i) \/ Call(t, i) \/ Branch(t, i) \/ Return(t, i)
      PROVE  ReplayInv'
  <2> DEFINE g == [f EXCEPT !.index = @ + 1]
             Q == SetTop(P, g)
  <2>1. Advance(t) = g
    BY DEF Advance
  <2>2. CASE PlainStep(t, i)
    <3>1. exec' = [exec EXCEPT ![t] = Q] /\ Type[i] \in Plain /\ Silent /\ Execute(t)
      BY <2>1, <2>2 DEF PlainStep
    <3>2. Takes(P, Q, M)
      BY <1>1, <1>4, <3>1, TakesPlain
    <3> HIDE DEF Q
    <3> QED
      BY <3>1, <3>2, ReplaySilent
  <2>3. ASSUME NEW e, Emit(e), e.label \in Steps, e.tid = t, e.id = i, Records(i),
               exec' = [exec EXCEPT ![t] = Q], Execute(t)
        PROVE  ReplayInv'
    <3>1. Top(Q).last = Top(P).last /\ Len(Q) = Len(P)
      <4>1. f \in ProgramFrames /\ P \in Seq(ProgramFrames)
        BY <1>1, <1>4, StackTop, StackFacts
      <4>2. g.last = f.last
        <5> HIDE DEF f
        <5> QED
          BY <4>1 DEF ProgramFrames
      <4> DEFINE S == ProgramFrames \cup {g}
      <4>3. P \in Seq(S) /\ g \in S
        <5>1. ProgramFrames \subseteq S
          OBVIOUS
        <5> HIDE DEF g
        <5> QED
          BY <4>1, <5>1, SeqMonotonic
      <4> HIDE DEF g, S
      <4>4. Top(Q) = g /\ Len(Q) = Len(P)
        BY <1>4, <4>3, SetTopFacts
      <4> QED
        BY <4>2, <4>4
    <3> HIDE DEF Q
    <3> QED
      BY <1>4, <2>3, <3>1, ReplayEmit
  <2>4. CASE AccessStep(t, i)
    <3> DEFINE e == [label |-> AccessLabel(i), tid |-> t, id |-> i]
    <3>1. /\ exec' = [exec EXCEPT ![t] = Q] /\ Execute(t) /\ Emit(e) /\ Accesses(i)
      BY <2>1, <2>4 DEF AccessStep
    <3>2. AccessLabel(i) \in Steps
      BY DEF AccessLabel, Steps
    <3>3. Records(i)
      BY <3>1 DEF Accesses, Records, IsCall, Continuous
    <3> HIDE DEF Q
    <3> QED
      BY <2>3, <3>1, <3>2, <3>3
  <2>5. CASE ExternalCall(t, i)
    <3> DEFINE e == [label |-> "Return", tid |-> t, id |-> i]
    <3>1. /\ exec' = [exec EXCEPT ![t] = Q] /\ Execute(t) /\ Emit(e)
          /\ Type[i] = "ExternalCallInst"
      BY <2>1, <2>5 DEF ExternalCall
    <3>2. Records(i)
      BY <3>1 DEF Records, IsCall, Continuous
    <3>3. e.label \in Steps
      BY DEF Steps
    <3> HIDE DEF Q
    <3> QED
      BY <2>3, <3>1, <3>2, <3>3
  <2>6. CASE RecordArgument(t, i)
    <3>1. PICK a : Emit([label |-> "Argument", tid |-> t, addr |-> a])
      BY <2>6 DEF RecordArgument
    <3>2. exec' = exec /\ executed' = executed
      BY <2>6 DEF RecordArgument
    <3>3. \A u \in Threads : ~OnTheWay(event', u)
      BY <3>1 DEF Emit, OnTheWay, Steps
    <3> QED
      BY <3>2, <3>3, ReplayRest
  <2>7. CASE Call(t, i)
    <3> DEFINE R == Append(Q, Frame(Callee[i], -1))
    <3>1. exec' = [exec EXCEPT ![t] = R] /\ Silent /\ Execute(t) /\ IsCall(i)
      BY <2>1, <2>7 DEF Call, IsCall
    <3>2. Callee[i] \in DOMAIN BB2Ins
      BY <3>1, GraphAssumption DEF IsCall
    <3>3. Takes(P, R, M)
      BY <1>1, <1>4, <3>1, <3>2, TakesCall
    <3> HIDE DEF R
    <3> QED
      BY <3>1, <3>3, ReplaySilent
  <2>8. CASE Branch(t, i)
    <3>1. PICK bb \in Successors[i] : exec' = [exec EXCEPT ![t] = SetTop(@, Frame(bb, Top(@).bb))]
      BY <2>8 DEF Branch
    <3> DEFINE R == SetTop(P, Frame(bb, f.bb))
    <3>2. exec' = [exec EXCEPT ![t] = R] /\ Silent /\ Execute(t) /\ Type[i] = "TerminatorInst"
      BY <2>8, <3>1 DEF Branch
    <3>3. bb \in DOMAIN BB2Ins
      BY <3>2, GraphAssumption
    <3>4. Takes(P, R, M)
      BY <1>1, <1>4, <3>2, <3>3, TakesBranch
    <3> HIDE DEF R
    <3> QED
      BY <3>2, <3>4, ReplaySilent
  <2>9. CASE Return(t, i)
    <3> DEFINE R == Pop(P)
    <3>1. exec' = [exec EXCEPT ![t] = R] /\ Silent /\ Execute(t) /\ Type[i] = "ReturnInst"
      BY <2>9 DEF Return
    <3>2. Takes(P, R, M)
      BY <1>1, <1>4, <3>1, TakesReturn
    <3> HIDE DEF R
    <3> QED
      BY <3>1, <3>2, ReplaySilent
  <2> QED
    BY <1>4, <2>2, <2>4, <2>5, <2>6, <2>7, <2>8, <2>9
<1> QED
  <2>1. CASE StartThread(t) \/ RunOuter(t) \/ EnterBlock(t)
    BY <1>2, <1>3, <2>1
  <2>2. CASE ~(StartThread(t) \/ RunOuter(t) \/ EnterBlock(t))
    <3>1. PICK i \in Instructions :
             \/ PlainStep(t, i) \/ AccessStep(t, i) \/ RecordArgument(t, i)
             \/ ExternalCall(t, i) \/ Call(t, i) \/ Branch(t, i) \/ Return(t, i)
      BY <2>2 DEF Step
    <3>2. At(t, i)
      BY <3>1 DEF PlainStep, AccessStep, RecordArgument, ExternalCall, Call, Branch, Return
    <3>3. exec[t] # <<>> /\ f.index >= 0 /\ i = Ins(f.bb, f.index)
      BY <3>2 DEF At, Ins
    <3> QED
      BY <1>4, <3>1, <3>3
  <2> QED
    BY <2>1, <2>2

(* The trace goes on, also by what stands between and after the events.    *)
LEMMA ReplayTrace ==
  ASSUME SInv, ReplayInv, Trace
  PROVE  ReplayInv'
<1>1. event = NoEvent /\ place = "next" /\ UNCHANGED mergeVars
  BY DEF Trace
<1>2. CASE \E t \in Threads : Step(t)
  BY <1>1, <1>2, ReplayThread
<1>3. CASE DeclareGlobal \/ PlaceHolder \/ EndEvent(FALSE) \/ EndEvent(TRUE) \/ EndOfFile
  <2>1. exec' = exec /\ executed' = executed
    BY <1>3, QuietStep
  <2>2. \A u \in Threads : ~OnTheWay(event', u)
    <3>1. event'.label \notin Steps \cup {"BasicBlock"}
      BY <1>1, <1>3, QuietStep
    <3> QED
      BY <3>1 DEF OnTheWay
  <2>3. CASE Threads = {}
    BY <1>1, <2>1, <2>3 DEF ReplayInv, Sequences, mergeVars
  <2>4. ASSUME NEW t \in Threads PROVE ReplayInv'
    <3> QED
      BY <1>1, <2>1, <2>2, <2>4, ReplayRest
  <2> QED
    BY <2>3, <2>4
<1> QED
  BY <1>2, <1>3 DEF Trace, Program

-----------------------------------------------------------------------------
(* MergeTrace reads an event                                               *)

(* What has the new block of a thread to do with its other ones.           *)
LEMMA EmitsBlock ==
  ASSUME Sequences, executed' = executed, NEW t \in Threads, NEW b, Emits(t, b),
         NEW piece \in Seq(Instants),
         piece = Piece(b, OpenAfter(blocks[t], Len(blocks[t])) + Mark(b.IsFirst))
  PROVE  /\ Sequences' /\ \A u \in Threads \ {t} : blocks'[u] = blocks[u]
         /\ CoveredBy(blocks'[t]) = CoveredBy(blocks[t]) \o piece
         /\ CoveredBy(blocks[t]) \in Seq(Instants)
         /\ OpenAfter(blocks[t], Len(blocks[t])) \in Int
         /\ OpenAfter(blocks'[t], Len(blocks'[t]))
               = OpenAfter(blocks[t], Len(blocks[t])) + Mark(b.IsFirst) - Mark(b.IsLast)
<1> DEFINE s == blocks[t]
           v == blocks'[t]
<1>1. /\ v = Append(s, b) /\ \A u \in Threads \ {t} : blocks'[u] = blocks[u]
      /\ DOMAIN blocks' = Threads
  BY DEF Emits, Sequences
<1>2. IsSequence(s) /\ Pieces(s) \in Seq(Seq(Instants))
  BY DEF Sequences
<1>3. piece = Piece(b, OpenAfter(s, Len(s)) + Mark(b.IsFirst))
  OBVIOUS
<1> HIDE DEF s, v
<1>4. /\ IsSequence(v) /\ Pieces(v) \in Seq(Seq(Instants))
      /\ CoveredBy(v) = CoveredBy(s) \o piece /\ CoveredBy(s) \in Seq(Instants)
      /\ OpenAfter(s, Len(s)) \in Int
      /\ OpenAfter(v, Len(v)) = OpenAfter(s, Len(s)) + Mark(b.IsFirst) - Mark(b.IsLast)
  BY <1>1, <1>2, <1>3, AppendBlock
<1>5. Sequences'
  BY <1>1, <1>4 DEF Sequences, v
<1> QED
  BY <1>1, <1>4, <1>5 DEF s, v

(* A step of MergeTrace for thread t.                                      *)
LEMMA OneIsRead ==
  ASSUME ReplayInv, place \in {"next", "loop"}, place' \in {"next", "loop"}, event' = NoEvent,
         UNCHANGED programVars, NEW t \in Threads,
         \A u \in Threads \ {t} : /\ call_stack'[u] = call_stack[u] /\ is_first'[u] = is_first[u]
                                  /\ blocks'[u] = blocks[u] /\ ~OnTheWay(event, u),
         Sequences', Counted(t)',
         CoveredBy(blocks'[t]) = executed[t] \o Lead(exec[t], call_stack'[t])
  PROVE  ReplayInv'
<1>1. \A u \in Threads : ~OnTheWay(event', u)
  BY DEF OnTheWay, NoEvent, Steps
<1>2. Covers(t)'
  BY <1>1 DEF Covers, programVars
<1>3. \A u \in Threads \ {t} : Covers(u)' /\ Counted(u)'
  BY <1>1 DEF ReplayInv, Covers, Counted, programVars
<1> QED
  BY <1>2, <1>3 DEF ReplayInv

(* The events that name no instruction.                                    *)
LEMMA ReplayOthers ==
  ASSUME SInv, ReplayInv, ReadDeclare \/ ReadArgument \/ ReadHolder
  PROVE  ReplayInv'
<1>1. /\ place = "next" /\ event' = NoEvent /\ place' \in {"next", "loop"}
      /\ UNCHANGED <<programVars, call_stack, is_first, blocks>>
  BY DEF ReadDeclare, ReadArgument, ReadHolder, Read
<1>2. \A u \in Threads : ~OnTheWay(event, u) /\ ~OnTheWay(event', u)
  <2>1. event.label \notin Steps \cup {"BasicBlock"}
    BY DEF ReadDeclare, ReadArgument, ReadHolder, Read, Steps
  <2> QED
    BY <1>1, <2>1 DEF OnTheWay, NoEvent, Steps
<1>3. Sequences'
  BY <1>1 DEF ReplayInv, Sequences, programVars
<1>4. \A u \in Threads : Covers(u)' /\ Counted(u)'
  BY <1>1, <1>2 DEF ReplayInv, Covers, Counted, programVars
<1> QED
  BY <1>1, <1>3, <1>4 DEF ReplayInv

(* The block of an access or an external call is its one instruction.      *)
LEMMA OnePiece ==
  ASSUME NEW b, b.Start \in Nat, b.End = b.Start + 1, NEW d
  PROVE  Piece(b, d) = <<[ins |-> Ins(b.BBID, b.Start), last |-> b.LastBBID, depth |-> d]>>
<1> DEFINE i == b.Start
           y(j) == [ins |-> Ins(b.BBID, j), last |-> b.LastBBID, depth |-> d]
<1>1. b.End - b.Start = 1 /\ i \in Nat
  OBVIOUS
<1>2. Piece(b, d) = [j \in 1 .. 1 |-> y(i + j - 1)]
  BY <1>1 DEF Piece
<1> HIDE DEF i, y
<1>3. \A j \in 1 .. 1 : y(i + j - 1) = y(i)
  <2> SUFFICES ASSUME NEW j \in 1 .. 1 PROVE y(i + j - 1) = y(i)
    OBVIOUS
  <2>1. i + j - 1 = i
    BY <1>1
  <2> QED
    BY <2>1
<1>4. [j \in 1 .. 1 |-> y(i + j - 1)] = <<y(i)>>
  BY <1>3
<1> QED
  BY <1>2, <1>4 DEF i, y

(* A stack keeps its length when its top frame changes.                    *)
LEMMA SetTopLength ==
  ASSUME NEW S, NEW s \in Seq(S), s # <<>>, NEW x
  PROVE  Len(SetTop(s, x)) = Len(s)
<1> DEFINE R == S \cup {x}
<1>1. S \subseteq R /\ x \in R
  OBVIOUS
<1> HIDE DEF R
<1>2. s \in Seq(R)
  BY <1>1, SeqMonotonic
<1> QED
  BY <1>1, <1>2, SetTopFacts

(* The block of one instruction that an event has announced.               *)
LEMMA ConsumesOne ==
  ASSUME ReplayInv, place = "next", event' = NoEvent, UNCHANGED programVars,
         event.label \in Steps, NEW t \in Threads, OnTheWay(event, t),
         NEW b, Emits(t, b), b.Start \in Nat, b.End = b.Start + 1,
         Ins(b.BBID, b.Start) = event.id, b.LastBBID = Top(exec[t]).last,
         b.IsFirst = is_first[t][1], b.IsLast = 0, Next1(t) \in Instants,
         Len(call_stack[t]) = Len(exec[t]), Len(call_stack'[t]) = Len(exec[t]),
         Lead(exec[t], call_stack'[t]) = <<>>, is_first'[t] = <<0, 0>>, place' = "loop",
         \A u \in Threads \ {t} : /\ call_stack'[u] = call_stack[u] /\ is_first'[u] = is_first[u]
  PROVE  ReplayInv'
<1> DEFINE C == CoveredBy(blocks[t])
           o == OpenAfter(blocks[t], Len(blocks[t]))
           d == o + Mark(b.IsFirst)
           x == Next1(t)
           e == executed[t]
           C2 == CoveredBy(blocks'[t])
           o2 == OpenAfter(blocks'[t], Len(blocks'[t]))
<1>1. Sequences /\ e = Append(C, x) /\ e \in Seq(Instants)
  BY DEF ReplayInv, Sequences, Covers
<1>2. d = Len(exec[t])
  BY DEF ReplayInv, Counted
<1>3. Piece(b, d) = <<x>>
  <2>1. Piece(b, d) = <<[ins |-> Ins(b.BBID, b.Start), last |-> b.LastBBID, depth |-> d]>>
    <3> HIDE DEF d
    <3> QED
      BY OnePiece
  <2> HIDE DEF d
  <2> QED
    BY <1>2, <2>1 DEF Next1
<1>4. executed' = executed /\ exec' = exec
  BY DEF programVars
<1>5. x \in Instants
  OBVIOUS
<1> HIDE DEF x
<1>6. <<x>> \in Seq(Instants)
  BY <1>5
<1> DEFINE piece == <<x>>
<1>7. piece = Piece(b, OpenAfter(blocks[t], Len(blocks[t])) + Mark(b.IsFirst)) /\ piece \in Seq(Instants)
  BY <1>3, <1>6
<1> HIDE DEF piece
<1>8. /\ Sequences' /\ \A u \in Threads \ {t} : blocks'[u] = blocks[u]
      /\ C2 = C \o piece /\ C \in Seq(Instants) /\ o \in Int
      /\ o2 = o + Mark(b.IsFirst) - Mark(b.IsLast)
  BY <1>1, <1>4, <1>7, EmitsBlock
<1>9. C2 = executed[t] \o Lead(exec[t], call_stack'[t])
  <2> HIDE DEF C, C2, e
  <2>1. C \o <<x>> = Append(C, x)
    BY <1>5, <1>8, PutInFront
  <2>2. e \o <<>> = e
    BY <1>1, ConcatEmptySeq
  <2> QED
    BY <1>1, <1>8, <2>1, <2>2 DEF piece, e
<1>10. Counted(t)'
  <2>1. is_first'[t][1] = 0 /\ Mark(0) = 0 /\ Mark(b.IsFirst) \in Int
    BY DEF Mark
  <2>2. o2 + Mark(is_first'[t][1]) = Len(call_stack'[t])
    <3> HIDE DEF o, o2
    <3> QED
      BY <1>2, <1>8, <2>1
  <2> QED
    BY <2>1, <2>2 DEF Counted
<1>11. \A u \in Threads \ {t} : ~OnTheWay(event, u)
  BY DEF OnTheWay
<1> QED
  BY <1>8, <1>9, <1>10, <1>11, OneIsRead

(* An access or an external call.                                          *)
LEMMA ReplaySteps ==
  ASSUME SInv, ReplayInv, ReadAccess \/ ReadReturn
  PROVE  ReplayInv'
<1> DEFINE t == event.tid
           P == exec[t]
           M == call_stack[t]
           info == Top(M)
           N == SetTop(M, [info EXCEPT !.CurIndex = @ + 1])
<1>1. /\ place = "next" /\ event' = NoEvent /\ event.label \in Steps
      /\ UNCHANGED <<programVars, last_tid>>
  BY DEF ReadAccess, ReadReturn, Read, Steps
<1>2. /\ t \in Threads /\ OnTheWay(event, t) /\ Stack(P)
      /\ M \in Seq(StackFrames) /\ Announced(event, P, M)
  BY <1>1, OnTheWayFacts
<1>3. /\ M # <<>> /\ info.CurIndex < Size(info.BBID)
      /\ Ins(info.BBID, info.CurIndex) = event.id /\ InLoop(P, N)
  BY <1>1, <1>2, ReadsAccess
<1>4. Expected(t, event.id)
  BY <1>3 DEF Expected
<1>5. PICK type, arguments : Consume(t, type, arguments) /\ place' = "loop"
  BY <1>4 DEF ReadAccess, ReadReturn
<1> DEFINE b == [SmallestBlock(type, info, info.CurIndex, info.CurIndex + 1, is_first[t])
                    EXCEPT !.Args = arguments]
<1>6. /\ Emits(t, b) /\ call_stack' = [call_stack EXCEPT ![t] = N]
      /\ is_first' = [is_first EXCEPT ![t] = <<0, 0>>]
  BY <1>2, <1>5 DEF Consume, SInv, Stacks
<1>7. /\ b.Start = info.CurIndex /\ b.End = info.CurIndex + 1 /\ b.BBID = info.BBID
      /\ b.LastBBID = info.LastBBID /\ b.IsFirst = is_first[t][1] /\ b.IsLast = 0
  BY DEF SmallestBlock
<1>8. /\ Top(P) = P[Len(P)] /\ Len(P) \in Nat \ {0} /\ Len(M) = Len(P)
      /\ M[Len(P)] = Ahead([Top(P) EXCEPT !.index = @ - 1]) /\ Top(P) \in ProgramFrames
  <2>1. Top(P).index > 0
    BY <1>1, <1>2 DEF Announced
  <2> QED
    BY <1>2, <2>1, AnnouncedFacts
<1>9. info.LastBBID = Top(P).last /\ info.CurIndex \in Nat
  <2>1. info = M[Len(P)] /\ info \in StackFrames
    BY <1>2, <1>3, <1>8, TopFacts
  <2>2. info.LastBBID = Top(P).last
    <3> DEFINE f == Top(P)
    <3>1. info = Ahead([f EXCEPT !.index = @ - 1]) /\ f \in ProgramFrames
      BY <1>8, <2>1
    <3> HIDE DEF f, info
    <3>2. [f EXCEPT !.index = @ - 1].last = f.last
      BY <3>1 DEF ProgramFrames
    <3> QED
      BY <3>1, <3>2 DEF Ahead, f
  <2> QED
    BY <2>1, <2>2 DEF StackFrames
<1>10. Len(N) = Len(P)
  <2> DEFINE g == [info EXCEPT !.CurIndex = @ + 1]
  <2> HIDE DEF g
  <2>1. Len(SetTop(M, g)) = Len(M)
    BY <1>2, <1>3, SetTopLength
  <2> QED
    BY <1>8, <2>1 DEF g
<1>11. Lead(P, N) = <<>>
  <2> HIDE DEF N
  <2> QED
    BY <1>2, <1>3, <1>10, LeadLoop
<1>12. Next1(t) \in Instants
  <2>1. event.id \in Instructions
    BY <1>1 DEF SInv, Events, Steps, NoEvent
  <2>2. Top(P).last \in DOMAIN BB2Ins \cup {-1}
    BY <1>8, FrameFacts
  <2> QED
    BY <1>8, <2>1, <2>2 DEF Next1, Instants
<1>13. /\ call_stack'[t] = N /\ is_first'[t] = <<0, 0>>
       /\ \A u \in Threads \ {t} : call_stack'[u] = call_stack[u] /\ is_first'[u] = is_first[u]
  BY <1>2, <1>6 DEF SInv, Stacks, IsFirsts
<1>14. /\ b.Start \in Nat /\ b.End = b.Start + 1 /\ Ins(b.BBID, b.Start) = event.id
       /\ b.LastBBID = Top(exec[t]).last
  BY <1>3, <1>7, <1>9
<1> HIDE DEF b, N, info
<1>15. /\ Len(call_stack[t]) = Len(exec[t]) /\ Len(call_stack'[t]) = Len(exec[t])
       /\ Lead(exec[t], call_stack'[t]) = <<>>
  BY <1>8, <1>10, <1>11, <1>13
<1> HIDE DEF M, P, t
<1> QED
  BY <1>1, <1>2, <1>5, <1>6, <1>7, <1>12, <1>13, <1>14, <1>15, ConsumesOne

(* Where a block is entered, by what is known of the stacks.               *)
LEMMA EntersAt ==
  ASSUME NEW P, Stack(P), NEW M \in Seq(StackFrames), NEW e, Announced(e, P, M),
         e.label = "BasicBlock"
  PROVE  /\ M = <<>> => Len(P) = 1
         /\ M # <<>> => Top(M).CurIndex # 0
         /\ M # <<>> /\ Top(M).CurIndex >= Size(Top(M).BBID) => Len(M) = Len(P)
         /\ M # <<>> /\ ~(Top(M).CurIndex >= Size(Top(M).BBID)) => Len(P) = Len(M) + 1
<1> DEFINE n == Len(P)
           f == Top(P)
<1>1. /\ n \in Nat \ {0} /\ f \in ProgramFrames /\ f.index = 0
      /\ \A k \in 1 .. n - 1 : M[k] = Exact(P[k]) /\ Calls(P[k]) /\ P[k] \in ProgramFrames
      /\ f.last = -1 => Len(M) = n - 1
      /\ f.last # -1 => Len(M) = n /\ M[n].BBID = f.last /\ M[n].CurIndex = Size(f.last)
  <2>1. f.index = 0
    BY DEF Announced
  <2> QED
    BY <2>1, AnnouncedFacts
<1>2. f.last \in DOMAIN BB2Ins \cup {-1}
  BY <1>1, FrameFacts
<1> HIDE DEF n, f
<1>3. M # <<>> => Top(M) = M[Len(M)] /\ Len(M) \in Nat \ {0}
  BY TopFacts
<1>4. M = <<>> => Len(M) = 0
  OBVIOUS
<1>5. CASE f.last = -1
  <2>1. Len(M) = n - 1
    BY <1>1, <1>5
  <2>2. M # <<>> => Top(M).CurIndex > 0 /\ Top(M).CurIndex < Size(Top(M).BBID)
    <3> SUFFICES ASSUME M # <<>>
                 PROVE  Top(M).CurIndex > 0 /\ Top(M).CurIndex < Size(Top(M).BBID)
      OBVIOUS
    <3>1. PICK k \in 1 .. n - 1 : k = n - 1
      BY <1>1, <1>3, <2>1
    <3>2. Top(M) = Exact(P[k]) /\ Calls(P[k]) /\ P[k] \in ProgramFrames
      BY <1>1, <1>3, <2>1, <3>1
    <3>3. P[k].index > 0 /\ P[k].index < Size(P[k].bb)
      BY <3>2, FrameFacts, BlockFacts DEF Calls
    <3> QED
      BY <3>2, <3>3 DEF Exact
  <2>3. M # <<>> => Top(M).CurIndex \in Nat /\ Size(Top(M).BBID) \in Nat
    <3> SUFFICES ASSUME M # <<>> PROVE Top(M).CurIndex \in Nat /\ Size(Top(M).BBID) \in Nat
      OBVIOUS
    <3>1. Top(M) \in StackFrames
      BY TopFacts
    <3> QED
      BY <3>1, BlockFacts DEF StackFrames
  <2> QED
    BY <1>1, <1>3, <1>4, <2>1, <2>2, <2>3 DEF n
<1>6. CASE f.last # -1
  <2>1. Len(M) = n /\ M[n].BBID = f.last /\ M[n].CurIndex = Size(f.last) /\ f.last \in DOMAIN BB2Ins
    BY <1>1, <1>2, <1>6
  <2>2. Size(f.last) \in Nat \ {0}
    BY <2>1, BlockFacts
  <2>3. M # <<>> /\ Top(M).BBID = f.last /\ Top(M).CurIndex = Size(f.last)
    BY <1>1, <1>3, <1>4, <2>1
  <2> QED
    BY <2>1, <2>2, <2>3 DEF n
<1> QED
  BY <1>5, <1>6

(* A block entry: nothing is between the stacks behind it.                 *)
LEMMA ReplayEntry ==
  ASSUME SInv, ReplayInv, place = "next", event' = NoEvent, UNCHANGED <<programVars, blocks>>,
         event.label = "BasicBlock", NEW t \in Threads, OnTheWay(event, t), place' = "loop",
         NEW N, call_stack' = [call_stack EXCEPT ![t] = N], InLoop(exec[t], N), N # <<>>,
         Len(N) = Len(exec[t]), NEW first, is_first' = [is_first EXCEPT ![t] = first],
         OpenAfter(blocks[t], Len(blocks[t])) + Mark(first[1]) = Len(N),
         first[1] # 0 => Top(N).CurIndex = 0
  PROVE  ReplayInv'
<1>1. /\ call_stack'[t] = N /\ is_first'[t] = first
      /\ \A u \in Threads \ {t} : /\ call_stack'[u] = call_stack[u] /\ is_first'[u] = is_first[u]
                                  /\ blocks'[u] = blocks[u] /\ ~OnTheWay(event, u)
  BY DEF SInv, Stacks, IsFirsts, OnTheWay
<1>2. Sequences' /\ executed[t] \in Seq(Instants)
  BY DEF ReplayInv, Sequences, programVars
<1>3. Stack(exec[t])
  BY DEF SInv, Stacks
<1>4. Lead(exec[t], N) = <<>>
  BY <1>3, LeadLoop
<1>5. executed[t] = CoveredBy(blocks[t])
  BY DEF ReplayInv, Covers, Steps
<1>6. executed[t] \o <<>> = executed[t]
  BY <1>2, ConcatEmptySeq
<1>7. CoveredBy(blocks'[t]) = executed[t] \o Lead(exec[t], call_stack'[t])
  BY <1>1, <1>4, <1>5, <1>6
<1>8. Counted(t)'
  BY <1>1 DEF Counted
<1> QED
  BY <1>1, <1>2, <1>7, <1>8, OneIsRead

(* A block entry starts a thread, follows a block or starts a function.    *)
LEMMA ReplayBlock ==
  ASSUME SInv, ReplayInv, ReadBasicBlock
  PROVE  ReplayInv'
<1> DEFINE t == event.tid
           P == exec[t]
           M == call_stack[t]
           info == Top(M)
           o == OpenAfter(blocks[t], Len(blocks[t]))
<1>1. /\ place = "next" /\ event' = NoEvent /\ event.label = "BasicBlock"
      /\ UNCHANGED <<programVars, blocks>> /\ place' = "loop"
  BY DEF ReadBasicBlock, Read
<1>2. /\ t \in Threads /\ OnTheWay(event, t) /\ Stack(P)
      /\ M \in Seq(StackFrames) /\ Announced(event, P, M)
  BY <1>1, OnTheWayFacts
<1>3. /\ M = <<>> => InLoop(P, <<StackInfo(event.id, -1, 0)>>)
      /\ M # <<>> /\ info.CurIndex >= Size(info.BBID) =>
            InLoop(P, SetTop(M, StackInfo(event.id, info.BBID, 0)))
      /\ M # <<>> /\ ~(info.CurIndex >= Size(info.BBID)) =>
            InLoop(P, Append(M, StackInfo(event.id, -1, 0)))
  BY <1>1, <1>2, ReadsBlock
<1>4. /\ M = <<>> => Len(P) = 1 /\ Len(M) = 0
      /\ M # <<>> => info.CurIndex # 0
      /\ M # <<>> /\ info.CurIndex >= Size(info.BBID) => Len(M) = Len(P)
      /\ M # <<>> /\ ~(info.CurIndex >= Size(info.BBID)) => Len(P) = Len(M) + 1
  BY <1>1, <1>2, EntersAt
<1>5. o = Len(M)
  <2>1. o + Mark(is_first[t][1]) = Len(M) /\ is_first[t][1] = 0
    BY <1>1, <1>2, <1>4 DEF ReplayInv, Counted
  <2>2. o \in Int
    <3>1. Len(blocks[t]) \in Nat
      BY <1>2 DEF ReplayInv, Sequences, IsSequence
    <3> QED
      BY <3>1, OpenNext
  <2> HIDE DEF o
  <2> QED
    BY <2>1, <2>2 DEF Mark
<1>6. Mark(0) = 0 /\ Mark(1) = 1 /\ Mark(2) = 1 /\ Len(M) \in Nat
  BY <1>2 DEF Mark
<1>7. \A last : StackInfo(event.id, last, 0).CurIndex = 0
  BY DEF StackInfo
<1>8. CASE NewThread(t)
  <2> DEFINE c == StackInfo(event.id, -1, 0)
             N == <<c>>
             first == <<2, 0>>
  <2>1. M = <<>> /\ is_first' = [is_first EXCEPT ![t] = first]
        /\ call_stack' = [call_stack EXCEPT ![t] = N]
    BY <1>8 DEF ReadBasicBlock, NewThread, SameFunction
  <2>2. N # <<>> /\ Len(N) = 1 /\ Top(N) = c /\ first[1] = 2
    BY DEF Top
  <2> HIDE DEF N, first, c
  <2>3. InLoop(P, N) /\ Len(N) = Len(P) /\ Top(N).CurIndex = 0
    BY <1>3, <1>4, <1>7, <2>1, <2>2 DEF N, c
  <2>4. o + Mark(first[1]) = Len(N)
    BY <1>4, <1>5, <1>6, <2>1, <2>2
  <2> HIDE DEF t
  <2> QED
    BY <1>1, <1>2, <2>1, <2>2, <2>3, <2>4, ReplayEntry
<1>9. CASE SameFunction(t)
  <2> DEFINE c == StackInfo(event.id, info.BBID, 0)
             N == SetTop(M, c)
             first == <<0, 0>>
  <2>1. /\ M # <<>> /\ info.CurIndex >= Size(info.BBID)
        /\ is_first' = [is_first EXCEPT ![t] = first]
        /\ call_stack' = [call_stack EXCEPT ![t] = N]
    BY <1>2, <1>9 DEF ReadBasicBlock, NewThread, SameFunction
  <2>2. InLoop(P, N) /\ Len(M) = Len(P) /\ first[1] = 0
    BY <1>3, <1>4, <2>1
  <2>3. Len(N) = Len(M) /\ Len(M) > 0
    <3> HIDE DEF c, M
    <3> QED
      BY <1>2, <2>1, SetTopLength, TopFacts
  <2> HIDE DEF N, first, c
  <2>4. o + Mark(first[1]) = Len(N) /\ N # <<>>
    BY <1>5, <1>6, <2>2, <2>3
  <2> HIDE DEF t
  <2> QED
    BY <1>1, <1>2, <2>1, <2>2, <2>3, <2>4, ReplayEntry
<1>10. CASE ~NewThread(t) /\ ~SameFunction(t)
  <2> DEFINE c == StackInfo(event.id, -1, 0)
             N == Append(M, c)
             first == <<1, Ins(info.BBID, info.CurIndex - 1)>>
  <2>1. /\ M # <<>> /\ ~(info.CurIndex >= Size(info.BBID))
        /\ is_first' = [is_first EXCEPT ![t] = first]
        /\ call_stack' = [call_stack EXCEPT ![t] = N]
    BY <1>2, <1>10 DEF ReadBasicBlock, NewThread, SameFunction
  <2>2. InLoop(P, N) /\ Len(P) = Len(M) + 1 /\ first[1] = 1
    BY <1>3, <1>4, <2>1
  <2>3. c \in StackFrames
    BY <1>1, <1>2, OnTheWayFacts, BlockFacts DEF StackFrames, StackInfo
  <2>4. N # <<>> /\ Len(N) = Len(M) + 1 /\ Top(N) = c
    <3> HIDE DEF c, M
    <3> QED
      BY <1>2, <2>3, PushFacts
  <2> HIDE DEF N, first
  <2>5. o + Mark(first[1]) = Len(N) /\ Top(N).CurIndex = 0 /\ Len(N) = Len(P)
    BY <1>5, <1>6, <1>7, <2>2, <2>4
  <2> HIDE DEF t, c
  <2> QED
    BY <1>1, <1>2, <2>1, <2>2, <2>4, <2>5, ReplayEntry
<1> QED
  BY <1>8, <1>9, <1>10

-----------------------------------------------------------------------------
(* The while loop                                                          *)

(* The instructions of a frame of MergeTrace up to the one with index end. *)
Span(info, end, depth) ==
    [j \in 1 .. end - info.CurIndex |->
        [ins |-> Ins(info.BBID, info.CurIndex + j - 1), last |-> info.LastBBID, depth |-> depth]]

(* From M to N the loop goes on in the innermost frame, up to index end,   *)
(* and may close it then.                                                  *)
Moves(M, N, end) ==
    /\ M \in Seq(StackFrames) /\ M # <<>>
    /\ end = EndIndex(Top(M).BBID, Top(M).CurIndex)
    /\ \A k \in 1 .. Len(M) - 1 : N[k] = M[k]
    /\ \/ Len(N) = Len(M) /\ N[Len(M)].CurIndex = end
       \/ Len(N) = Len(M) - 1

(* The block that is made then.                                            *)
Makes(M, N, b, first) ==
    /\ Moves(M, N, b.End) /\ b.Start = Top(M).CurIndex /\ b.BBID = Top(M).BBID
    /\ b.LastBBID = Top(M).LastBBID /\ b.IsFirst = first
    /\ Mark(b.IsLast) = Len(M) - Len(N)

(* The loop goes on in the innermost frame, up to an event or to its end.  *)
LEMMA LeadMoves ==
  ASSUME NEW P, Stack(P), NEW M, InLoop(P, M), NEW N, NEW end, Moves(M, N, end)
  PROVE  /\ Lead(P, N) = Lead(P, M) \o Span(Top(M), end, Len(M))
         /\ Span(Top(M), end, Len(M)) \in Seq(Instants) /\ Lead(P, M) \in Seq(Instants)
<1>0. /\ M \in Seq(StackFrames) /\ M # <<>> /\ end = EndIndex(Top(M).BBID, Top(M).CurIndex)
      /\ \A k \in 1 .. Len(M) - 1 : N[k] = M[k]
      /\ \/ Len(N) = Len(M) /\ N[Len(M)].CurIndex = end
         \/ Len(N) = Len(M) - 1
  BY DEF Moves
<1> DEFINE piece == Span(Top(M), end, Len(M))
           n == Len(P)
           m == Len(M)
           info == Top(M)
<1>1. /\ n \in Nat /\ m \in 1 .. n /\ info = M[m] /\ Closed(P, m, M)
      /\ P[m].index >= 0 /\ \A k \in 1 .. m : M[k] = Exact(P[k])
  <2>1. m \in Nat \ {0} /\ info = M[m]
    BY <1>0, TopFacts
  <2>2. PICK k \in 0 .. n : Closed(P, k, M)
    BY DEF InLoop
  <2>3. k = m /\ n \in Nat
    BY <2>2, StackFacts DEF Closed
  <2> QED
    BY <2>1, <2>2, <2>3 DEF Closed, Below
<1>2. \A k \in 1 .. n : /\ P[k] \in ProgramFrames
                        /\ k <= m => Reaches(P, M, k) = P[k].index
  <2>1. m \in 0 .. n
    BY <1>1
  <2> HIDE DEF m, n
  <2> QED
    BY <1>1, <2>1, ReachesLoop DEF n
<1>3. /\ P[m] \in ProgramFrames /\ info.BBID = P[m].bb /\ info.LastBBID = P[m].last
      /\ info.CurIndex = P[m].index
  <2>1. PICK k \in 1 .. n : k = m
    BY <1>1
  <2>2. k \in 1 .. m /\ P[k] \in ProgramFrames
    BY <1>1, <1>2, <2>1
  <2>3. M[m] = Exact(P[m]) /\ P[m] \in ProgramFrames
    BY <1>1, <2>1, <2>2
  <2> HIDE DEF m, n, info
  <2> QED
    BY <1>1, <2>3 DEF Exact
<1>4. /\ end \in P[m].index .. Size(P[m].bb) /\ Size(P[m].bb) \in Nat /\ P[m].index \in Nat
      /\ end = EndIndex(P[m].bb, P[m].index)
  BY <1>0, <1>1, <1>3, EndIndexOf
<1>5. Len(N) \in {m, m - 1} /\ (Len(N) = m => N[m].CurIndex = end)
  BY <1>0, <1>1
<1>6. \A k \in 1 .. m - 1 : N[k] = M[k]
  BY <1>0
<1>7. piece = [j \in 1 .. end - P[m].index |->
                 [ins |-> Ins(P[m].bb, P[m].index + j - 1), last |-> P[m].last, depth |-> m]]
  BY <1>3 DEF Span
<1>8. Fits(P, M) /\ Lead(P, M) \in Seq(Instants)
  BY FitsLoop
<1>9. Len(M) = m /\ Len(P) = n
  OBVIOUS
<1> HIDE DEF n, m, info, piece
<1>10. Reaches(P, N, m) = end
  BY <1>1, <1>4, <1>5 DEF Reaches
<1>11. Segment(P, N, m) = piece
  <2>1. ~(P[m].index < 0)
    BY <1>4
  <2> QED
    BY <1>7, <1>10, <2>1 DEF Segment
<1>12. Segment(P, M, m) = <<>>
  <2>1. m \in 1 .. n /\ m <= m
    BY <1>1
  <2> QED
    BY <1>2, <2>1, SegmentNone
<1>13. piece \in Seq(Instants)
  <2>1. m \in Int /\ end \in Int /\ end <= Size(P[m].bb)
    BY <1>1, <1>4
  <2>2. Segment(P, N, m) \in Seq(Instants)
    BY <1>3, <1>10, <2>1, SegmentType
  <2> QED
    BY <1>11, <2>2
<1>14. \A k \in m + 1 .. n : Segment(P, N, k) = Segment(P, M, k)
  <2> SUFFICES ASSUME NEW k \in m + 1 .. n PROVE Segment(P, N, k) = Segment(P, M, k)
    OBVIOUS
  <2>1. ~(k <= Len(N)) /\ ~(k <= Len(M))
    BY <1>1, <1>5, <1>9
  <2>2. Reaches(P, N, k) = Reaches(P, M, k)
    BY <2>1 DEF Reaches
  <2> QED
    BY <2>2 DEF Segment
<1>15. \A k \in 1 .. m - 1 : Segment(P, N, k) = <<>> /\ Segment(P, M, k) = <<>>
  <2> SUFFICES ASSUME NEW k \in 1 .. m - 1
               PROVE  Segment(P, N, k) = <<>> /\ Segment(P, M, k) = <<>>
    OBVIOUS
  <2>1. k \in 1 .. n /\ k <= m /\ k <= Len(N) /\ k <= Len(M)
    BY <1>1, <1>5, <1>9
  <2>2. Reaches(P, M, k) = P[k].index /\ P[k] \in ProgramFrames
    BY <1>2, <2>1
  <2>3. Reaches(P, N, k) = Reaches(P, M, k)
    BY <1>6, <2>1 DEF Reaches
  <2> QED
    BY <2>2, <2>3, SegmentNone
<1>16. Fits(P, N)
  <2> SUFFICES ASSUME NEW k \in 1 .. n PROVE Segment(P, N, k) \in Seq(Instants)
    BY <1>9 DEF Fits
  <2>1. Segment(P, M, k) \in Seq(Instants)
    BY <1>8, <1>9 DEF Fits
  <2>2. k \in 1 .. m - 1 \/ k = m \/ k \in m + 1 .. n
    BY <1>1
  <2> QED
    BY <1>11, <1>13, <1>14, <1>15, <2>1, <2>2
<1>17. Lead(P, N) = Lead(P, M) \o Segment(P, N, m)
  BY <1>1, <1>8, <1>9, <1>12, <1>14, <1>15, <1>16, LeadFills
<1> QED
  BY <1>8, <1>11, <1>13, <1>17 DEF piece

(* A round of the loop that makes a block.                                 *)
LEMMA ReplayRound ==
  ASSUME SInv, ReplayInv, place = "loop", place' \in {"next", "loop"},
         UNCHANGED <<programVars, event>>, NEW t \in Threads,
         InLoop(exec[t], call_stack[t]), NEW N, NEW b, Makes(call_stack[t], N, b, is_first[t][1]),
         Emits(t, b), call_stack' = [call_stack EXCEPT ![t] = N],
         is_first' = [is_first EXCEPT ![t] = <<0, 0>>]
  PROVE  ReplayInv'
<1> DEFINE P == exec[t]
           M == call_stack[t]
           C == CoveredBy(blocks[t])
           o == OpenAfter(blocks[t], Len(blocks[t]))
           d == o + Mark(b.IsFirst)
           e == executed[t]
           C2 == CoveredBy(blocks'[t])
           o2 == OpenAfter(blocks'[t], Len(blocks'[t]))
           piece == Piece(b, d)
           L == Lead(P, M)
<1>1. event = NoEvent
  BY DEF SInv, Pointers
<1>2. \A u \in Threads : ~OnTheWay(event, u)
  BY <1>1 DEF OnTheWay, NoEvent, Steps
<1>3. Stack(P) /\ M \in Seq(StackFrames)
  BY DEF SInv, Stacks
<1>4. Sequences /\ C = e \o L /\ e \in Seq(Instants) /\ d = Len(M)
  <2>1. b.IsFirst = is_first[t][1]
    BY DEF Makes
  <2> QED
    BY <1>2, <2>1 DEF ReplayInv, Sequences, Covers, Counted
<1>5. /\ Moves(M, N, b.End) /\ Mark(b.IsLast) = Len(M) - Len(N) /\ InLoop(P, M)
      /\ Len(M) \in Nat /\ Len(N) \in Int
  <2>1. Moves(M, N, b.End) /\ Mark(b.IsLast) = Len(M) - Len(N)
    BY DEF Makes
  <2> QED
    BY <1>3, <2>1 DEF Moves
<1>6. piece = Span(Top(M), b.End, Len(M))
  <2> HIDE DEF d
  <2> QED
    BY <1>4 DEF Piece, Span, Makes
<1> HIDE DEF piece, L, P, M
<1>7. /\ Lead(P, N) = Lead(P, M) \o Span(Top(M), b.End, Len(M))
      /\ Span(Top(M), b.End, Len(M)) \in Seq(Instants) /\ Lead(P, M) \in Seq(Instants)
  BY <1>3, <1>5, LeadMoves
<1>8. Lead(P, N) = L \o piece /\ piece \in Seq(Instants) /\ L \in Seq(Instants)
  BY <1>6, <1>7 DEF L
<1>9. executed' = executed /\ exec' = exec /\ event' = NoEvent
  BY <1>1 DEF programVars
<1>10. piece = Piece(b, OpenAfter(blocks[t], Len(blocks[t])) + Mark(b.IsFirst))
  BY DEF piece
<1>11. /\ Sequences' /\ \A u \in Threads \ {t} : blocks'[u] = blocks[u]
       /\ C2 = C \o piece /\ C \in Seq(Instants) /\ o \in Int
       /\ o2 = o + Mark(b.IsFirst) - Mark(b.IsLast)
  BY <1>4, <1>8, <1>9, <1>10, EmitsBlock
<1>12. /\ call_stack'[t] = N /\ is_first'[t] = <<0, 0>>
       /\ \A u \in Threads \ {t} : call_stack'[u] = call_stack[u] /\ is_first'[u] = is_first[u]
  BY DEF SInv, Stacks, IsFirsts
<1>13. C2 = executed[t] \o Lead(exec[t], call_stack'[t])
  <2>1. (e \o L) \o piece = e \o (L \o piece)
    <3> HIDE DEF e
    <3> QED
      BY <1>4, <1>8, ConcatAssociative, SMTT(20)
  <2> HIDE DEF C, C2
  <2> QED
    BY <1>4, <1>8, <1>11, <1>12, <2>1 DEF P
<1>14. Counted(t)'
  <2>1. is_first'[t][1] = 0 /\ Mark(0) = 0 /\ Mark(b.IsFirst) \in Int
    BY <1>12 DEF Mark
  <2>2. o2 + 0 = Len(N)
    <3> HIDE DEF o, o2
    <3> QED
      BY <1>4, <1>5, <1>11, <2>1
  <2> HIDE DEF o2
  <2> QED
    BY <1>12, <2>1, <2>2 DEF Counted, o2
<1> QED
  BY <1>2, <1>9, <1>11, <1>12, <1>13, <1>14, OneIsRead

(* The while loop.                                                         *)
LEMMA ReplayLoop ==
  ASSUME SInv, ReplayInv, Loop
  PROVE  ReplayInv'
<1> DEFINE t == tid_ptr
           M == call_stack[t]
           info == Top(M)
           end == EndIndex(info.BBID, info.CurIndex)
           b == SmallestBlock("NormalBlock", info, info.CurIndex, end, is_first[t])
           moved == SetTop(M, [info EXCEPT !.CurIndex = end])
<1>1. place = "loop" /\ UNCHANGED <<programVars, event, last_tid, args, tid_ptr>>
  BY DEF Loop
<1>2. t \in Threads /\ Stack(exec[t]) /\ M \in Seq(StackFrames) /\ event = NoEvent
  BY <1>1 DEF SInv, Pointers, Stacks
<1>3. CASE UNCHANGED <<call_stack, is_first, blocks>>
  <2>1. place' \in {"next", "loop"}
    <3>1. failed' = FALSE
      BY LoopKeeps DEF SInv
    <3> QED
      BY <3>1 DEF Loop
  <2>2. Sequences'
    BY <1>1, <1>3 DEF ReplayInv, Sequences, programVars
  <2>3. \A u \in Threads : ~OnTheWay(event, u) /\ event' = event
    BY <1>1, <1>2 DEF OnTheWay, NoEvent, Steps
  <2>4. \A u \in Threads : Covers(u) /\ Counted(u)
    BY <1>1 DEF ReplayInv
  <2> HIDE DEF M, t
  <2>5. \A u \in Threads : Covers(u)' /\ Counted(u)'
    BY <1>1, <1>3, <2>3, <2>4 DEF Covers, Counted, programVars
  <2> QED
    BY <2>1, <2>2, <2>5 DEF ReplayInv
<1>4. CASE M # <<>> /\ end > info.CurIndex
  <2>1. InLoop(exec[t], M)
    <3>1. InLoop(exec[t], M) \/ Stays(M)
      <4>1. ~OnTheWay(event, t)
        BY <1>2 DEF OnTheWay, Steps, NoEvent
      <4> QED
        BY <1>1, <1>2, <4>1 DEF SInv, Synchronised
    <3>2. ~Stays(M)
      <4>1. info \in StackFrames
        BY <1>2, <1>4, TopFacts
      <4>2. info.CurIndex \in Nat
        <5> HIDE DEF info
        <5> QED
          BY <4>1 DEF StackFrames
      <4> QED
        BY <1>4, <4>2 DEF Stays
    <3> QED
      BY <3>1, <3>2
  <2>2. /\ b.Start = info.CurIndex /\ b.End = end /\ b.BBID = info.BBID
        /\ b.LastBBID = info.LastBBID /\ b.IsFirst = is_first[t][1] /\ b.IsLast = 0
        /\ b = [b EXCEPT !.IsLast = 0]
    BY DEF SmallestBlock
  <2>3. \A s : /\ LastBlock(b, s).Start = b.Start /\ LastBlock(b, s).End = b.End
               /\ LastBlock(b, s).BBID = b.BBID /\ LastBlock(b, s).LastBBID = b.LastBBID
               /\ LastBlock(b, s).IsFirst = b.IsFirst /\ LastBlock(b, s).IsLast \in {1, 2}
    BY DEF LastBlock, SmallestBlock
  <2>4. ~(end = info.CurIndex)
    <3>1. info \in StackFrames
      BY <1>2, <1>4, TopFacts
    <3>2. info.CurIndex \in Nat
      <4> HIDE DEF info
      <4> QED
        BY <3>1 DEF StackFrames
    <3> QED
      BY <1>4, <3>2
  <2>5. is_first' = [is_first EXCEPT ![t] = <<0, 0>>]
    BY <1>4, <2>4 DEF Loop
  <2>6. CASE ~ReturnsAt(info.BBID, end)
    <3>1. /\ call_stack' = [call_stack EXCEPT ![t] = moved] /\ place' = "next" /\ Emits(t, b)
      BY <1>4, <2>4, <2>6 DEF Loop
    <3>2. /\ Len(moved) = Len(M) /\ \A k \in 1 .. Len(M) - 1 : moved[k] = M[k]
          /\ moved[Len(M)].CurIndex = end
      <4> DEFINE g == [info EXCEPT !.CurIndex = end]
      <4>1. g \in StackFrames
        <5>1. info \in StackFrames
          BY <1>2, <1>4, TopFacts
        <5>2. end \in 0 .. Size(info.BBID)
          <6> HIDE DEF info
          <6>1. info.BBID \in DOMAIN BB2Ins /\ info.CurIndex \in 0 .. Size(info.BBID)
            BY <5>1, BlockFacts DEF StackFrames
          <6>2. end \in info.CurIndex .. Size(info.BBID)
            BY <6>1, EndIndexStep
          <6> QED
            BY <6>1, <6>2, BlockFacts
        <5> HIDE DEF info, end
        <5>3. Size(info.BBID) \in Nat
          BY <5>1, BlockFacts DEF StackFrames
        <5> QED
          BY <5>1, <5>2, <5>3 DEF StackFrames
      <4>2. g.CurIndex = end
        <5>1. info \in StackFrames
          BY <1>2, <1>4, TopFacts
        <5> HIDE DEF info, end
        <5> QED
          BY <5>1 DEF StackFrames
      <4> HIDE DEF g, M, t, info, end
      <4>3. /\ Len(SetTop(M, g)) = Len(M) /\ SetTop(M, g)[Len(M)] = g
            /\ \A k \in 1 .. Len(M) - 1 : SetTop(M, g)[k] = M[k]
        BY <1>2, <1>4, <4>1, SetTopFacts
      <4> QED
        BY <4>2, <4>3 DEF g
    <3> HIDE DEF moved, b
    <3>3. Moves(M, moved, end)
      BY <1>2, <1>4, <3>2 DEF Moves
    <3>4. Mark(b.IsLast) = Len(M) - Len(moved)
      BY <1>2, <2>2, <3>2 DEF Mark
    <3>5. Makes(M, moved, b, is_first[t][1])
      BY <2>2, <3>3, <3>4 DEF Makes
    <3>6. place' \in {"next", "loop"} /\ UNCHANGED <<programVars, event>>
      BY <1>1, <3>1
    <3> HIDE DEF t, end, info
    <3> QED
      BY <1>1, <1>2, <2>1, <2>5, <3>1, <3>5, <3>6, ReplayRound
  <2>7. CASE ReturnsAt(info.BBID, end)
    <3> DEFINE N == Pop(M)
               l == LastBlock(b, N)
    <3>1. CallerWaits(N)
      BY <1>2, <1>4, <2>1, <2>7, LoopRound
    <3>2. call_stack' = [call_stack EXCEPT ![t] = N] /\ place' = "loop" /\ Emits(t, l)
      BY <1>4, <2>4, <2>7, <3>1 DEF Loop
    <3>3. Len(N) = Len(M) - 1 /\ \A k \in 1 .. Len(M) - 1 : N[k] = M[k]
      BY <1>2, <1>4, PopFacts
    <3>4. /\ l.Start = info.CurIndex /\ l.End = end /\ l.BBID = info.BBID
          /\ l.LastBBID = info.LastBBID /\ l.IsFirst = is_first[t][1] /\ l.IsLast \in {1, 2}
      BY <2>2, <2>3
    <3> HIDE DEF N, l, b
    <3>5. Moves(M, N, end)
      BY <1>2, <1>4, <3>3 DEF Moves
    <3>6. Mark(l.IsLast) = Len(M) - Len(N)
      BY <1>2, <3>3, <3>4 DEF Mark
    <3>7. Makes(M, N, l, is_first[t][1])
      BY <3>4, <3>5, <3>6 DEF Makes
    <3>8. place' \in {"next", "loop"} /\ UNCHANGED <<programVars, event>>
      BY <1>1, <3>2
    <3> HIDE DEF t, end, info
    <3> QED
      BY <1>1, <1>2, <2>1, <2>5, <3>2, <3>7, <3>8, ReplayRound
  <2> QED
    BY <2>6, <2>7
<1> QED
  BY <1>3, <1>4 DEF Loop

-----------------------------------------------------------------------------
(* The end of the file                                                     *)

(* A sequence is a prefix of what it is continued by.                      *)
LEMMA PrefixOf ==
  ASSUME NEW S, NEW s \in Seq(S), NEW v \in Seq(S)
  PROVE  IsPrefix(s, s \o v)
<1> DEFINE r == s \o v
           n == Len(s)
<1>1. /\ r \in Seq(S) /\ n \in Nat /\ Len(r) = n + Len(v) /\ Len(v) \in Nat
      /\ \A j \in 1 .. n : r[j] = s[j]
  OBVIOUS
<1> HIDE DEF r, n
<1>2. n <= Len(r)
  BY <1>1
<1>3. SubSeq(s, 1, n) = SubSeq(r, 1, n)
  BY <1>1 DEF n
<1> QED
  BY <1>2, <1>3 DEF IsPrefix, n, r

(* An empty block stands for no instruction.                               *)
LEMMA NoPiece == ASSUME NEW b, b.End - b.Start = 0, NEW d PROVE Piece(b, d) = <<>>
<1>1. 1 .. b.End - b.Start = {}
  OBVIOUS
<1>2. \A g : (DOMAIN g = {} /\ g = [j \in {} |-> g[j]]) => g = <<>>
  OBVIOUS
<1> QED
  BY <1>1, <1>2 DEF Piece

(* After the last event the blocks stay what they are, but for empty ones. *)
LEMMA ReplayFinish ==
  ASSUME SInv, ReplayInv, Finish \/ FinishCrash \/ Done \/ \E t \in Threads : FinishFrame(t)
  PROVE  ReplayInv'
<1>1. executed' = executed /\ place' \notin {"next", "loop"}
  BY DEF Finish, FinishCrash, Done, FinishFrame, programVars, SInv
<1>2. CASE Finish
  <2>1. place = "next" /\ event = NoEvent /\ blocks' = blocks
    BY <1>2 DEF Finish
  <2>2. Sequences'
    BY <1>1, <2>1 DEF ReplayInv, Sequences
  <2>3. ASSUME NEW t \in Threads PROVE IsPrefix(executed[t], Covered(t))
    <3> DEFINE e == executed[t]
               L == Lead(exec[t], call_stack[t])
    <3>1. CoveredBy(blocks[t]) = e \o L /\ e \in Seq(Instants)
      BY <2>1, AllCover
    <3>2. L \in Seq(Instants)
      BY <2>1, AllInStep, FitsStep
    <3> HIDE DEF e, L
    <3>3. IsPrefix(e, e \o L)
      BY <3>1, <3>2, PrefixOf
    <3> QED
      BY <3>1, <3>3, CoveredIs DEF e
  <2>4. Replay'
    <3>1. \A t \in Threads : Covered(t)' = Covered(t)
      BY <2>1 DEF Covered, Depth, DepthBefore
    <3> QED
      BY <1>1, <2>3, <3>1 DEF Replay
  <2> QED
    BY <1>1, <2>2, <2>4 DEF ReplayInv
<1>3. CASE FinishCrash \/ Done
  <2>1. blocks' = blocks /\ place = "finish"
    BY <1>3 DEF FinishCrash, Done
  <2>2. Sequences' /\ Replay
    BY <1>1, <2>1 DEF ReplayInv, Sequences
  <2>3. Replay'
    <3>1. \A t \in Threads : Covered(t)' = Covered(t)
      BY <2>1 DEF Covered, Depth, DepthBefore
    <3> QED
      BY <1>1, <2>1, <2>2, <3>1 DEF Replay
  <2> QED
    BY <1>1, <2>2, <2>3 DEF ReplayInv
<1>4. ASSUME NEW t \in Threads, FinishFrame(t) PROVE ReplayInv'
  <2> DEFINE M == call_stack[t]
             rest == Pop(M)
             info == Top(M)
             b == [SmallestBlock("NormalBlock", info, info.CurIndex, info.CurIndex, <<0, 0>>)
                    EXCEPT !.LastBBID = LeftLastBBID]
             l == LastBlock(b, rest)
  <2>1. failed' = FALSE
    BY <1>4, FinishKeeps DEF SInv
  <2>2. place = "finish" /\ M # <<>> /\ Emits(t, l)
    BY <1>4, <2>1 DEF FinishFrame, Open
  <2>3. info.CurIndex \in Nat
    <3>1. M \in Seq(StackFrames)
      BY DEF SInv, Stacks
    <3>2. info \in StackFrames
      BY <2>2, <3>1, TopFacts
    <3> HIDE DEF info
    <3> QED
      BY <3>2 DEF StackFrames
  <2>4. l.Start = info.CurIndex /\ l.End = info.CurIndex
    BY DEF LastBlock, SmallestBlock
  <2> HIDE DEF l, info
  <2> DEFINE piece == Piece(l, OpenAfter(blocks[t], Len(blocks[t])) + Mark(l.IsFirst))
  <2>5. piece = <<>>
    <3>1. l.End - l.Start = 0
      BY <2>3, <2>4
    <3> QED
      BY <3>1, NoPiece
  <2>6. Sequences /\ Replay
    BY <2>2 DEF ReplayInv
  <2>7. piece \in Seq(Instants)
    <3> HIDE DEF piece
    <3> QED
      BY <2>5
  <2> HIDE DEF M
  <2>8. /\ Sequences' /\ \A u \in Threads \ {t} : blocks'[u] = blocks[u]
        /\ CoveredBy(blocks'[t]) = CoveredBy(blocks[t]) \o piece
        /\ CoveredBy(blocks[t]) \in Seq(Instants)
    BY <1>1, <2>2, <2>6, <2>7, EmitsBlock
  <2>9. CoveredBy(blocks'[t]) = CoveredBy(blocks[t])
    <3> HIDE DEF piece
    <3> QED
      BY <2>5, <2>8, ConcatEmptySeq
  <2>10. \A u \in Threads : CoveredBy(blocks'[u]) = CoveredBy(blocks[u])
    BY <2>8, <2>9
  <2>11. Replay'
    <3>1. \A u : Covered(u)' = CoveredBy(blocks'[u])
      BY DEF Covered, CoveredBy, Pieces, Piece, DepthOf, OpenAfter, Firsts, Lasts, Depth,
             DepthBefore, Mark
    <3>2. \A u \in Threads : Covered(u)' = Covered(u)
      BY <2>10, <3>1, CoveredIs
    <3> QED
      BY <1>1, <2>6, <3>2 DEF Replay
  <2> QED
    BY <1>1, <2>8, <2>11 DEF ReplayInv
<1> QED
  BY <1>2, <1>3, <1>4

(* The invariant holds at first.                                           *)
LEMMA InitReplay == Init => ReplayInv
<1> SUFFICES ASSUME Init PROVE ReplayInv
  OBVIOUS
<1>1. /\ exec = [t \in Threads |-> <<>>] /\ executed = [t \in Threads |-> <<>>]
      /\ blocks = [t \in Threads |-> <<>>] /\ call_stack = [t \in Threads |-> <<>>]
      /\ is_first = [t \in Threads |-> <<0, 0>>] /\ event = NoEvent /\ place = "next"
  BY DEF Init, ProgramInit
<1>2. PICK n \in Nat : n = 0
  OBVIOUS
<1>3. Pieces(<<>>) = <<>>
  BY DEF Pieces
<1>4. CoveredBy(<<>>) = <<>>
  BY <1>3, FlattenEmpty DEF CoveredBy
<1>5. Lead(<<>>, <<>>) = <<>>
  <2>1. Len(<<>>) = n /\ \A k \in 1 .. n : Segment(<<>>, <<>>, k) = <<>>
    BY <1>2
  <2> QED
    BY <2>1, LeadNone
<1>6. Sequences
  <2>1. <<>> \in Seq(Instants) /\ <<>> \in Seq(Seq(Instants)) /\ IsSequence(<<>>)
    BY DEF IsSequence
  <2> QED
    BY <1>1, <1>3, <2>1 DEF Sequences
<1>7. ASSUME NEW t \in Threads PROVE Covers(t) /\ Counted(t)
  <2>1. /\ exec[t] = <<>> /\ executed[t] = <<>> /\ blocks[t] = <<>> /\ call_stack[t] = <<>>
        /\ is_first[t] = <<0, 0>> /\ ~OnTheWay(event, t)
    BY <1>1 DEF OnTheWay, NoEvent, Steps
  <2>2. <<>> \o <<>> = <<>>
    OBVIOUS
  <2>3. Covers(t)
    BY <1>4, <1>5, <2>1, <2>2 DEF Covers
  <2>4. Len(<<>>) = 0 /\ OpenAfter(<<>>, 0) = 0 /\ Mark(0) = 0
    BY OpenNone DEF Mark
  <2>5. is_first[t][1] = 0 /\ Len(blocks[t]) = 0 /\ Len(call_stack[t]) = 0
    BY <2>1
  <2>6. OpenAfter(blocks[t], Len(blocks[t])) + Mark(is_first[t][1]) = Len(call_stack[t])
    BY <2>1, <2>4, <2>5
  <2>7. Counted(t)
    BY <2>5, <2>6 DEF Counted
  <2> QED
    BY <2>3, <2>7
<1> QED
  BY <1>1, <1>6, <1>7 DEF ReplayInv

(* Every step keeps it.                                                    *)
LEMMA NextReplay == ASSUME SInv, ReplayInv, [Next]_vars PROVE ReplayInv'
<1>1. CASE Next
  BY <1>1, ReplayTrace, ReplayOthers, ReplaySteps, ReplayBlock, ReplayLoop, ReplayFinish
     DEF Next, Merge
<1>2. CASE UNCHANGED vars
  <2>1. /\ UNCHANGED <<exec, executed, event, blocks, call_stack, is_first, place>>
    BY <1>2 DEF vars, mergeVars, programVars
  <2>2. Sequences' <=> Sequences
    BY <2>1 DEF Sequences
  <2>3. \A t : (Covers(t)' <=> Covers(t)) /\ (Counted(t)' <=> Counted(t))
    <3>1. \A t : Next1(t)' = Next1(t)
      BY <2>1 DEF Next1
    <3> QED
      BY <2>1, <3>1 DEF Covers, Counted
  <2>4. Replay' <=> Replay
    <3>1. \A t : Covered(t)' = Covered(t)
      BY <2>1 DEF Covered, Depth, DepthBefore
    <3> QED
      BY <2>1, <3>1 DEF Replay
  <2> QED
    BY <2>1, <2>2, <2>3, <2>4 DEF ReplayInv
<1> QED
  BY <1>1, <1>2

(* The inductive invariant of the blocks.                                  *)
THEOREM ReplayInvariance == ~SplitCalls => (Spec => []ReplayInv)
<1> SUFFICES ASSUME ~SplitCalls PROVE Spec => []ReplayInv
  OBVIOUS
<1>1. ReplayInv /\ SInv /\ [Next]_vars => ReplayInv'
  BY NextReplay
<1>2. Spec => []SInv
  BY InSync
<1> QED
  BY <1>1, <1>2, InitReplay, PTL DEF Spec

(* One more element, whatever it is.                                       *)
LEMMA PrefixAppend ==
  ASSUME NEW S, NEW s \in Seq(S), NEW x
  PROVE  IsPrefix(s, Append(s, x)) /\ IsPrefix(s, s)
<1> DEFINE R == S \cup {x}
<1>1. S \subseteq R /\ x \in R
  OBVIOUS
<1> HIDE DEF R
<1>2. s \in Seq(R)
  BY <1>1, SeqMonotonic
<1>3. <<x>> \in Seq(R) /\ <<>> \in Seq(R) /\ Append(s, x) = s \o <<x>> /\ s = s \o <<>>
  BY <1>1, <1>2
<1> DEFINE u == <<x>>
           z == <<>>
<1>4. u \in Seq(R) /\ z \in Seq(R) /\ Append(s, x) = s \o u /\ s = s \o z
  BY <1>3
<1> HIDE DEF u, z
<1>5. IsPrefix(s, s \o u) /\ IsPrefix(s, s \o z)
  BY <1>2, <1>4, PrefixOf
<1> QED
  BY <1>4, <1>5

(* The blocks and the execution are never more than one of them ahead of   *)
(* the other.                                                              *)
LEMMA ReplayFollows == SInv /\ ReplayInv => Replay
<1> SUFFICES ASSUME SInv, ReplayInv PROVE Replay
  OBVIOUS
<1>1. CASE place \notin {"next", "loop"}
  BY <1>1 DEF ReplayInv
<1>2. CASE place \in {"next", "loop"}
  <2> SUFFICES ASSUME NEW t \in Threads
               PROVE  IsPrefix(executed[t], Covered(t)) \/ IsPrefix(Covered(t), executed[t])
    BY DEF Replay
  <2> DEFINE e == executed[t]
             C == CoveredBy(blocks[t])
             L == Lead(exec[t], call_stack[t])
             x == Next1(t)
  <2>1. e \in Seq(Instants) /\ C \in Seq(Instants) /\ Covered(t) = C
    <3>1. Pieces(blocks[t]) \in Seq(Seq(Instants)) /\ e \in Seq(Instants)
      BY DEF ReplayInv, Sequences
    <3> QED
      BY <3>1, FlattenType, CoveredIs DEF CoveredBy
  <2>2. CASE OnTheWay(event, t)
    <3>1. e = Append(C, x) \/ e = C
      BY <1>2, <2>2 DEF ReplayInv, Covers
    <3> HIDE DEF e, C, x
    <3>2. IsPrefix(C, e)
      BY <2>1, <3>1, PrefixAppend
    <3> QED
      BY <2>1, <3>2 DEF e
  <2>3. CASE ~OnTheWay(event, t)
    <3>1. C = e \o L
      BY <1>2, <2>3 DEF ReplayInv, Covers
    <3>2. L \in Seq(Instants)
      <4>1. Stack(exec[t]) /\ (call_stack[t] = <<>> => Len(call_stack[t]) = 0)
        BY DEF SInv, Stacks
      <4>2. InStep(exec[t], call_stack[t]) \/ InLoop(exec[t], call_stack[t])
        BY <1>2, <2>3 DEF SInv, Synchronised
      <4> QED
        BY <4>1, <4>2, FitsStep, FitsLoop
    <3> HIDE DEF e, C, L
    <3>3. IsPrefix(e, e \o L)
      BY <2>1, <3>2, PrefixOf
    <3> QED
      BY <2>1, <3>1, <3>3 DEF e
  <2> QED
    BY <2>2, <2>3
<1> QED
  BY <1>1, <1>2

(* The blocks of a thread replay what it executed: the same instructions   *)
(* in the same order, from the same basic block and at the same depth.     *)
THEOREM ReplayTheorem == ~SplitCalls => (Spec => []Replay)
<1>1. SInv /\ ReplayInv => Replay
  BY ReplayFollows
<1> QED
  BY <1>1, InSync, ReplayInvariance, PTL

-----------------------------------------------------------------------------
(***************************************************************************)
(* The marks of the blocks that MergeTrace makes, for any instrumented     *)
(* program and any interleaving of the events, unless SplitCalls lets the  *)
(* trace be split behind a call: an analysis that reads them forward sees  *)
(* the calls that are open, each under the call instruction that made it,  *)
(* and at the end of the file all of them closed.                          *)
(***************************************************************************)

(* A frame of the program that has not executed anything has been called   *)
(* by the last instruction of the thread, or is at the bottom of its stack.*)
Begins(P, E) ==
    P # <<>> /\ Len(P) # 1 /\ Top(P).last = -1 /\ Top(P).index <= 0 =>
        E # <<>> /\ E[Len(E)].ins = Ins(P[Len(P) - 1].bb, P[Len(P) - 1].index - 1)

Begun == \A t \in Threads : Begins(exec[t], executed[t])

(* The last block before the end of the file stands for an instruction.    *)
Filled(s) ==
    s # <<>> => LET b == s[Len(s)] IN b.Start \in Nat /\ b.End \in Nat /\ b.Start < b.End

(* The marks count the frames, also of those that are closed at the end.   *)
Counts(t) == OpenAfter(blocks[t], Len(blocks[t])) + Mark(is_first[t][1]) = Len(call_stack[t])

(* Where no function is open in front of a block or behind it is marked in *)
(* the block, and the first of the two in is_first already.                *)
EdgesAt(s, k) ==
    /\ s[k].IsFirst = 2 <=> OpenAfter(s, k - 1) = 0
    /\ s[k].IsLast = 2 <=> OpenAfter(s, k) = 0
Edges(s, M) ==
    /\ \A k \in 1 .. Len(s) :
          IF Proper(s[k]) THEN EdgesAt(s, k)
          ELSE s[k].IsLast = 2 => k = Len(s) /\ M = <<>>
    /\ M = <<>> /\ s # <<>> => s[Len(s)].IsLast = 2
Bottom(M, first) == (first[1] = 2 => Len(M) = 1) /\ (first[1] = 1 => Len(M) # 1)

(* CallersMatch for one block behind the blocks s, and for all of s.       *)
Matching(s, b) ==
    LET open == Enters(Callers(s), b) IN
    /\ b.IsFirst = 1 => s # <<>> /\ b.Caller = Ins(Last(s).BBID, Last(s).End - 1)
    /\ b.IsLast = 1 => Last(open) = b.Caller
    /\ b.IsLast = 2 => Len(open) = 1
Matches(s) == \A k \in DOMAIN s : Proper(s[k]) => Matching(SubSeq(s, 1, k - 1), s[k])

(* The calls that are open, with the one whose first block is still to be  *)
(* made, are those that the frames of MergeTrace wait for.                 *)
Names == Instructions \cup {0, -1}
Pending(stack, first) == IF first[1] # 0 THEN Append(stack, first[2]) ELSE stack
Waits(D, M) == Len(D) = Len(M) /\ \A j \in 2 .. Len(M) : D[j] = CallerOf(M[j - 1])
Named(s, M, first) ==
    /\ Callers(s) \in Seq(Names) /\ Waits(Pending(Callers(s), first), M)
    /\ first[1] = 1 => s # <<>> /\ first[2] = Ins(Last(s).BBID, Last(s).End - 1)

MarksInv ==
    /\ Begun
    /\ \A t \in Threads : Edges(blocks[t], call_stack[t]) /\ Matches(blocks[t])
    /\ place \in {"next", "loop"} =>
          \A t \in Threads : /\ Filled(blocks[t]) /\ Bottom(call_stack[t], is_first[t])
                              /\ Named(blocks[t], call_stack[t], is_first[t])
    /\ place \notin {"next", "loop"} => \A t \in Threads : Counts(t)
    /\ place = "done" => Open = {}

-----------------------------------------------------------------------------
(* The calls that are open                                                 *)

(* The recursive function inside Callers(s).                               *)
Opens(f, s) ==
    f = [n \in 0 .. Len(s) |-> IF n = 0 THEN <<>> ELSE AfterBlock(f[n - 1], s[n])]

(* It is what it says at every index.                                      *)
LEMMA OpensAt ==
  ASSUME NEW f, NEW s, Opens(f, s)
  PROVE  \A n \in 0 .. Len(s) : f[n] = IF n = 0 THEN <<>> ELSE AfterBlock(f[n - 1], s[n])
<1> SUFFICES ASSUME NEW n \in 0 .. Len(s)
             PROVE  f[n] = IF n = 0 THEN <<>> ELSE AfterBlock(f[n - 1], s[n])
  OBVIOUS
<1> DEFINE g == [m \in 0 .. Len(s) |-> IF m = 0 THEN <<>> ELSE AfterBlock(f[m - 1], s[m])]
<1>1. g[n] = IF n = 0 THEN <<>> ELSE AfterBlock(f[n - 1], s[n])
  BY Zenon
<1>2. f = g
  BY Zenon DEF Opens
<1> HIDE DEF g
<1> QED
  BY <1>1, <1>2

(* For a longer sequence it goes one step further.                         *)
LEMMA OpensLonger ==
  ASSUME NEW S, NEW s \in Seq(S), NEW x \in S, NEW f, Opens(f, s)
  PROVE  \E g : Opens(g, Append(s, x)) /\ g[Len(s) + 1] = AfterBlock(f[Len(s)], x)
<1>0. \A i \in 0 .. Len(s) : f[i] = IF i = 0 THEN <<>> ELSE AfterBlock(f[i - 1], s[i])
  BY OpensAt
<1> DEFINE n == Len(s)
           v == Append(s, x)
           last == AfterBlock(f[n], x)
           g == [i \in 0 .. n + 1 |-> IF i = n + 1 THEN last ELSE f[i]]
<1>1. /\ n \in Nat /\ Len(v) = n + 1 /\ v[n + 1] = x
      /\ \A i \in 1 .. n : v[i] = s[i]
  OBVIOUS
<1> HIDE DEF v, n
<1>2. \A i \in 0 .. n + 1 : g[i] = IF i = 0 THEN <<>> ELSE AfterBlock(g[i - 1], v[i])
  <2> SUFFICES ASSUME NEW i \in 0 .. n + 1
               PROVE  g[i] = IF i = 0 THEN <<>> ELSE AfterBlock(g[i - 1], v[i])
    OBVIOUS
  <2>1. CASE i = n + 1
    <3>1. i # 0 /\ i - 1 = n /\ n \in 0 .. n + 1 /\ n # n + 1 /\ v[i] = x
      BY <1>1, <2>1
    <3>2. g[i] = last /\ g[n] = f[n]
      BY <2>1, <3>1
    <3> HIDE DEF g
    <3> QED
      BY <3>1, <3>2
  <2>2. CASE i # n + 1
    <3>1. i \in 0 .. n
      BY <1>1, <2>2
    <3>2. f[i] = IF i = 0 THEN <<>> ELSE AfterBlock(f[i - 1], s[i])
      <4>1. i \in 0 .. Len(s)
        BY <3>1 DEF n
      <4> QED
        BY <1>0, <4>1
    <3>3. i # 0 => i - 1 \in 0 .. n + 1 /\ i - 1 # n + 1 /\ v[i] = s[i]
      BY <1>1, <3>1
    <3>4. g[i] = f[i] /\ (i # 0 => g[i - 1] = f[i - 1])
      BY <2>2, <3>3
    <3> HIDE DEF g
    <3> QED
      BY <3>2, <3>3, <3>4
  <2> QED
    BY <2>1, <2>2
<1>3. g = [i \in 0 .. n + 1 |-> g[i]] /\ n + 1 \in 0 .. n + 1 /\ g[n + 1] = last
  BY <1>1
<1>4. Opens(g, v)
  <2> HIDE DEF g
  <2> QED
    BY <1>1, <1>2, <1>3, Zenon DEF Opens
<1> QED
  BY <1>3, <1>4 DEF v, n

(* There is such a function for every sequence.                            *)
LEMMA OpensExists ==
  ASSUME NEW S, NEW s \in Seq(S)
  PROVE  \E f : Opens(f, s)
<1> DEFINE T == {u \in Seq(S) : \E f : Opens(f, u)}
           none == [n \in {0} |-> <<>>]
<1>1. <<>> \in T
  <2>1. 0 .. Len(<<>>) = {0}
    OBVIOUS
  <2>2. none = [n \in {0} |-> IF n = 0 THEN <<>> ELSE AfterBlock(none[n - 1], <<>>[n])]
    OBVIOUS
  <2>3. Opens(none, <<>>)
    <3> HIDE DEF none
    <3> QED
      BY <2>1, <2>2, Zenon DEF Opens
  <2> QED
    BY <2>3
<1>2. ASSUME NEW u \in Seq(S), NEW x \in S, u \in T PROVE Append(u, x) \in T
  <2>1. PICK f : Opens(f, u)
    BY <1>2
  <2>2. \E g : Opens(g, Append(u, x))
    BY <2>1, OpensLonger
  <2> QED
    BY <2>2
<1>3. Seq(S) \subseteq T
  <2> HIDE DEF T
  <2> QED
    BY <1>1, <1>2, SeqSetInduction
<1> QED
  BY <1>3

(* And only one.                                                           *)
LEMMA OpensUnique ==
  ASSUME NEW S, NEW s \in Seq(S), NEW f, NEW g, Opens(f, s), Opens(g, s)
  PROVE  \A n \in 0 .. Len(s) : f[n] = g[n]
<1>0. /\ \A n \in 0 .. Len(s) : f[n] = IF n = 0 THEN <<>> ELSE AfterBlock(f[n - 1], s[n])
      /\ \A n \in 0 .. Len(s) : g[n] = IF n = 0 THEN <<>> ELSE AfterBlock(g[n - 1], s[n])
  BY OpensAt
<1> DEFINE T == {n \in Nat : n \in 0 .. Len(s) => f[n] = g[n]}
<1>1. 0 \in T
  <2>1. 0 \in 0 .. Len(s)
    OBVIOUS
  <2>2. f[0] = <<>> /\ g[0] = <<>>
    BY <2>1, OpensAt
  <2> QED
    BY <2>2
<1>2. ASSUME NEW n \in Nat, n \in T PROVE n + 1 \in T
  <2> SUFFICES ASSUME n + 1 \in 0 .. Len(s) PROVE f[n + 1] = g[n + 1]
    OBVIOUS
  <2>1. (n + 1) - 1 = n /\ n + 1 # 0 /\ n \in 0 .. Len(s)
    OBVIOUS
  <2>2. /\ f[n + 1] = AfterBlock(f[n], s[n + 1])
        /\ g[n + 1] = AfterBlock(g[n], s[n + 1])
    <3>1. f[n + 1] = IF n + 1 = 0 THEN <<>> ELSE AfterBlock(f[(n + 1) - 1], s[n + 1])
      BY <1>0
    <3>2. g[n + 1] = IF n + 1 = 0 THEN <<>> ELSE AfterBlock(g[(n + 1) - 1], s[n + 1])
      BY <1>0
    <3> QED
      BY <2>1, <3>1, <3>2, Zenon
  <2> QED
    BY <1>2, <2>1, <2>2
<1>3. Nat \subseteq T
  <2> HIDE DEF T
  <2> QED
    BY <1>1, <1>2, NatSetInduction
<1> QED
  BY <1>3

(* A block behind others: what it does to the calls that they leave open.  *)
LEMMA CallersAppend ==
  ASSUME NEW S, NEW s \in Seq(S), NEW x \in S
  PROVE  Callers(Append(s, x)) = AfterBlock(Callers(s), x)
<1>1. ASSUME NEW u \in Seq(S), NEW f, Opens(f, u)
      PROVE  Callers(u) = f[Len(u)]
  <2> DEFINE g == CHOOSE h : Opens(h, u)
  <2>1. Callers(u) = g[Len(u)]
    BY Zenon DEF Callers, Opens
  <2>2. Opens(g, u)
    BY <1>1, Zenon
  <2>3. Len(u) \in 0 .. Len(u)
    OBVIOUS
  <2> HIDE DEF g
  <2> QED
    BY <1>1, <2>1, <2>2, <2>3, OpensUnique
<1>2. PICK f : Opens(f, s)
  BY OpensExists
<1>3. PICK g : Opens(g, Append(s, x)) /\ g[Len(s) + 1] = AfterBlock(f[Len(s)], x)
  BY <1>2, OpensLonger
<1>4. Append(s, x) \in Seq(S) /\ Len(Append(s, x)) = Len(s) + 1
  BY AppendIsSeq
<1> QED
  BY <1>1, <1>2, <1>3, <1>4


(* Without blocks no call is open.                                         *)
LEMMA CallersNone == Callers(<<>>) = <<>>
<1>1. <<>> \in Seq({}) /\ Len(<<>>) = 0 /\ 0 \in 0 .. Len(<<>>)
  OBVIOUS
<1> DEFINE g == CHOOSE h : Opens(h, <<>>)
<1>2. Callers(<<>>) = g[0]
  <2>1. Callers(<<>>) = g[Len(<<>>)]
    BY Zenon DEF Callers, Opens
  <2> QED
    BY <1>1, <2>1
<1>3. Opens(g, <<>>)
  BY <1>1, OpensExists, Zenon
<1> HIDE DEF g
<1> QED
  BY <1>1, <1>2, <1>3, OpensAt

(* What a new block does to the calls that are open.                       *)
LEMMA CallersMore ==
  ASSUME NEW s, IsSequence(s), NEW b
  PROVE  Callers(Append(s, b)) = AfterBlock(Callers(s), b)
<1> DEFINE S == {s[k] : k \in DOMAIN s} \cup {b}
<1>1. s \in Seq(S) /\ b \in S
  BY DEF IsSequence
<1> HIDE DEF S
<1> QED
  BY <1>1, CallersAppend

(* A new block is the last one.                                            *)
LEMMA OneBlockMore ==
  ASSUME NEW s, IsSequence(s), NEW b, NEW v, v = Append(s, b)
  PROVE  /\ Len(s) \in Nat /\ Len(v) = Len(s) + 1 /\ DOMAIN v = 1 .. Len(v) /\ DOMAIN s = 1 .. Len(s)
         /\ v # <<>> /\ v[Len(v)] = b /\ \A k \in 1 .. Len(s) : v[k] = s[k]
         /\ \A k \in 1 .. Len(v) : SubSeq(v, 1, k - 1) = SubSeq(s, 1, k - 1)
         /\ SubSeq(s, 1, Len(s)) = s
<1> DEFINE S == {s[k] : k \in DOMAIN s} \cup {b}
<1>1. s \in Seq(S) /\ b \in S
  BY DEF IsSequence
<1> HIDE DEF S
<1>2. /\ Len(s) \in Nat /\ Len(v) = Len(s) + 1 /\ DOMAIN v = 1 .. Len(v) /\ DOMAIN s = 1 .. Len(s)
      /\ v # <<>> /\ v[Len(v)] = b /\ \A k \in 1 .. Len(s) : v[k] = s[k]
  BY <1>1
<1>3. SubSeq(s, 1, Len(s)) = s
  BY <1>1
<1>4. ASSUME NEW k \in 1 .. Len(v) PROVE SubSeq(v, 1, k - 1) = SubSeq(s, 1, k - 1)
  <2>1. k - 1 \in Nat /\ k - 1 <= Len(s) /\ \A j \in 1 .. k - 1 : v[j] = s[j]
    BY <1>2
  <2>2. v \in Seq(S)
    BY <1>1
  <2>3. /\ SubSeq(v, 1, k - 1) \in Seq(S) /\ Len(SubSeq(v, 1, k - 1)) = k - 1
        /\ \A j \in 1 .. k - 1 : SubSeq(v, 1, k - 1)[j] = v[j]
    BY <1>2, <2>1, <2>2
  <2>4. /\ SubSeq(s, 1, k - 1) \in Seq(S) /\ Len(SubSeq(s, 1, k - 1)) = k - 1
        /\ \A j \in 1 .. k - 1 : SubSeq(s, 1, k - 1)[j] = s[j]
    BY <1>1, <1>2, <2>1
  <2> QED
    BY <2>1, <2>3, <2>4, SameSeq
<1> QED
  BY <1>2, <1>3, <1>4

(* It leaves the other ones matched.                                       *)
LEMMA MatchesMore ==
  ASSUME NEW s, IsSequence(s), Matches(s), NEW b, Proper(b) => Matching(s, b)
  PROVE  Matches(Append(s, b))
<1> DEFINE v == Append(s, b)
<1>0. v = Append(s, b)
  OBVIOUS
<1> HIDE DEF v
<1>1. /\ Len(s) \in Nat /\ Len(v) = Len(s) + 1 /\ DOMAIN v = 1 .. Len(v) /\ DOMAIN s = 1 .. Len(s)
      /\ v[Len(v)] = b /\ \A k \in 1 .. Len(s) : v[k] = s[k]
      /\ \A k \in 1 .. Len(v) : SubSeq(v, 1, k - 1) = SubSeq(s, 1, k - 1)
      /\ SubSeq(s, 1, Len(s)) = s
  BY <1>0, OneBlockMore
<1>2. ASSUME NEW k \in DOMAIN v, Proper(v[k]) PROVE Matching(SubSeq(v, 1, k - 1), v[k])
  <2>1. CASE k = Len(v)
    <3>1. k - 1 = Len(s) /\ v[k] = b
      BY <1>1, <2>1
    <3>2. SubSeq(v, 1, k - 1) = s
      BY <1>1, <3>1
    <3> QED
      BY <1>2, <3>1, <3>2
  <2>2. CASE k # Len(v)
    <3>1. k \in DOMAIN s /\ v[k] = s[k] /\ SubSeq(v, 1, k - 1) = SubSeq(s, 1, k - 1)
      BY <1>1, <2>2
    <3> QED
      BY <1>2, <3>1 DEF Matches
  <2> QED
    BY <2>1, <2>2
<1> QED
  BY <1>2 DEF Matches, v

(* It leaves the edges of the other ones marked.                           *)
LEMMA EdgesMore ==
  ASSUME NEW s, IsSequence(s), NEW M, Edges(s, M), M # <<>>, NEW b, NEW N,
         NEW v, v = Append(s, b), Proper(b) => EdgesAt(v, Len(s) + 1),
         b.IsLast = 2 <=> N = <<>>
  PROVE  Edges(v, N)
<1>1. /\ Len(s) \in Nat /\ Len(v) = Len(s) + 1
      /\ v[Len(v)] = b /\ \A k \in 1 .. Len(s) : v[k] = s[k]
  BY OneBlockMore
<1>2. ASSUME NEW k \in 1 .. Len(s)
      PROVE  IF Proper(v[k]) THEN EdgesAt(v, k) ELSE v[k].IsLast = 2 => k = Len(v) /\ N = <<>>
  <2>1. v[k] = s[k]
    BY <1>1
  <2>2. /\ Proper(s[k]) => EdgesAt(s, k)
        /\ ~Proper(s[k]) => s[k].IsLast # 2
    BY DEF Edges
  <2>3. OpenAfter(v, k) = OpenAfter(s, k) /\ OpenAfter(v, k - 1) = OpenAfter(s, k - 1)
    <3>1. /\ k \in Nat /\ k - 1 \in Nat
          /\ \A j \in 1 .. k : v[j] = s[j]
          /\ \A j \in 1 .. k - 1 : v[j] = s[j]
      BY <1>1
    <3> QED
      BY <3>1, OpenSame
  <2> QED
    BY <2>1, <2>2, <2>3 DEF EdgesAt
<1>3. \A k \in 1 .. Len(v) : k \in 1 .. Len(s) \/ k = Len(v)
  BY <1>1
<1>4. ASSUME NEW k \in 1 .. Len(v)
      PROVE  IF Proper(v[k]) THEN EdgesAt(v, k) ELSE v[k].IsLast = 2 => k = Len(v) /\ N = <<>>
  <2>1. CASE k \in 1 .. Len(s)
    BY <1>2, <2>1
  <2>2. CASE k = Len(v)
    BY <1>1, <2>2
  <2> QED
    BY <1>3, <2>1, <2>2
<1> QED
  BY <1>1, <1>4 DEF Edges

(* The edges of a block that MergeTrace makes while it reads.              *)
LEMMA EdgesMade ==
  ASSUME NEW s, IsSequence(s), NEW n, n \in Nat, NEW first \in (0 .. 2) \X (Instructions \cup {0}),
         OpenAfter(s, Len(s)) + Mark(first[1]) = n, n # 0,
         first[1] = 2 => n = 1, first[1] = 1 => n # 1,
         NEW b, b.IsFirst = first[1], NEW m, m = n - Mark(b.IsLast),
         b.IsLast = 2 <=> m = 0, NEW v, v = Append(s, b)
  PROVE  EdgesAt(v, Len(s) + 1)
<1>1. Len(s) \in Nat /\ Len(v) = Len(s) + 1 /\ v[Len(v)] = b /\ \A k \in 1 .. Len(s) : v[k] = s[k]
  BY OneBlockMore
<1>2. OpenAfter(v, Len(s)) = OpenAfter(s, Len(s)) /\ OpenAfter(s, Len(s)) \in Int
  BY <1>1, OpenSame, OpenNext
<1>3. (Len(s) + 1) - 1 = Len(s) /\ v[Len(s) + 1] = b
  BY <1>1
<1>4. OpenAfter(v, Len(s) + 1) = OpenAfter(v, Len(s)) + Mark(b.IsFirst) - Mark(b.IsLast)
  <2>1. \A i \in Nat : OpenAfter(v, i + 1) = OpenAfter(v, i)
                                + Mark(v[i + 1].IsFirst) - Mark(v[i + 1].IsLast)
    BY OpenNext
  <2> QED
    BY <1>1, <1>3, <2>1
<1>5. first[1] \in 0 .. 2 /\ Mark(0) = 0 /\ Mark(1) = 1 /\ Mark(2) = 1
  BY DEF Mark
<1> DEFINE o == OpenAfter(s, Len(s))
           c == first[1]
           w == Mark(b.IsLast)
<1>6. o \in Int /\ c \in 0 .. 2 /\ o + Mark(c) = n /\ w \in {0, 1}
  BY <1>2, <1>5 DEF Mark
<1>7. /\ OpenAfter(v, Len(s)) = o /\ OpenAfter(v, Len(s) + 1) = o + Mark(c) - w
      /\ m = n - w /\ (c = 2 => n = 1) /\ (c = 1 => n # 1) /\ b.IsFirst = c
  BY <1>2, <1>4
<1> HIDE DEF o, c, w
<1>8. c = 2 <=> o = 0
  <2>1. CASE c = 0
    BY <1>5, <1>6, <2>1
  <2>2. CASE c = 1
    BY <1>5, <1>6, <1>7, <2>2
  <2>3. CASE c = 2
    BY <1>5, <1>6, <1>7, <2>3
  <2> QED
    BY <1>6, <2>1, <2>2, <2>3
<1>9. OpenAfter(v, Len(s) + 1) = m
  <2>1. Mark(c) \in Int
    BY DEF Mark
  <2> QED
    BY <1>6, <1>7, <2>1
<1> QED
  BY <1>3, <1>7, <1>8, <1>9 DEF EdgesAt

-----------------------------------------------------------------------------
(* The calls that the frames of MergeTrace wait for                        *)

FirstMarks == (0 .. 2) \X (Instructions \cup {0})

(* The open calls, with the pending one.                                   *)
LEMMA PendingFacts ==
  ASSUME NEW C \in Seq(Names), NEW first \in FirstMarks
  PROVE  /\ Pending(C, first) \in Seq(Names) /\ Pending(C, <<0, 0>>) = C
         /\ first[1] # 0 => /\ Len(Pending(C, first)) = Len(C) + 1
                            /\ Pending(C, first)[Len(C) + 1] = first[2]
         /\ first[2] \in Names
<1>1. first[2] \in Names /\ first[1] \in 0 .. 2
  BY DEF FirstMarks, Names
<1>2. Append(C, first[2]) \in Seq(Names) /\ Len(Append(C, first[2])) = Len(C) + 1
      /\ Append(C, first[2])[Len(C) + 1] = first[2]
  BY <1>1
<1>3. <<0, 0>>[1] = 0
  OBVIOUS
<1> QED
  BY <1>1, <1>2, <1>3 DEF Pending

(* A block that closes no frame.                                           *)
LEMMA NamedMoves ==
  ASSUME NEW s, IsSequence(s), NEW M, NEW first \in FirstMarks, Named(s, M, first),
         NEW b, b.IsFirst = first[1], b.Caller = first[2], b.IsLast = 0,
         NEW N, Len(N) = Len(M), Len(M) \in Nat, \A k \in 1 .. Len(M) - 1 : N[k] = M[k]
  PROVE  Named(Append(s, b), N, <<0, 0>>) /\ Matching(s, b)
<1> DEFINE C == Callers(s)
           D == Pending(C, first)
<1>1. /\ C \in Seq(Names) /\ D \in Seq(Names) /\ Pending(D, <<0, 0>>) = D
  <2>1. C \in Seq(Names)
    BY DEF Named
  <2> HIDE DEF C
  <2>2. D \in Seq(Names)
    BY <2>1, PendingFacts
  <2> HIDE DEF D
  <2> QED
    BY <2>1, <2>2, PendingFacts
<1>2. Enters(C, b) = D
  BY DEF Enters, Pending
<1>3. Callers(Append(s, b)) = D
  <2>1. Callers(Append(s, b)) = AfterBlock(C, b)
    BY CallersMore
  <2> QED
    BY <1>2, <2>1 DEF AfterBlock
<1>4. Waits(D, N)
  <2>1. Waits(D, M)
    BY DEF Named
  <2>2. \A j \in 2 .. Len(M) : N[j - 1] = M[j - 1]
    <3> SUFFICES ASSUME NEW j \in 2 .. Len(M) PROVE N[j - 1] = M[j - 1]
      OBVIOUS
    <3>1. PICK k \in 1 .. Len(M) - 1 : k = j - 1
      OBVIOUS
    <3> QED
      BY <3>1
  <2> HIDE DEF D
  <2> QED
    BY <2>1, <2>2 DEF Waits
<1>5. Named(Append(s, b), N, <<0, 0>>)
  <2> HIDE DEF C, D
  <2> QED
    BY <1>1, <1>3, <1>4 DEF Named
<1>6. Matching(s, b)
  BY DEF Matching, Named
<1> QED
  BY <1>5, <1>6

(* A block that closes a frame.                                            *)
LEMMA NamedPops ==
  ASSUME NEW s, IsSequence(s), NEW M, NEW first \in FirstMarks, Named(s, M, first),
         NEW l, l.IsFirst = first[1],
         NEW N, Len(N) = Len(M) - 1, Len(M) \in Nat \ {0}, \A k \in 1 .. Len(M) - 1 : N[k] = M[k],
         Len(N) = 0 => l.IsLast = 2 /\ l.Caller = first[2],
         Len(N) # 0 => l.IsLast = 1 /\ l.Caller = CallerOf(N[Len(N)])
  PROVE  Named(Append(s, l), N, <<0, 0>>) /\ Matching(s, l)
<1> DEFINE C == Callers(s)
           D == Pending(C, first)
<1>1. C \in Seq(Names) /\ D \in Seq(Names)
  <2>1. C \in Seq(Names)
    BY DEF Named
  <2> HIDE DEF C
  <2> QED
    BY <2>1, PendingFacts
<1>2. Len(D) = Len(M) /\ \A j \in 2 .. Len(M) : D[j] = CallerOf(M[j - 1])
  BY DEF Named, Waits
<1>3. first[1] # 0 => D[Len(D)] = first[2]
  <2> HIDE DEF C
  <2> QED
    BY <1>1, PendingFacts
<1>4. Len(N) # 0 => D[Len(D)] = l.Caller
  <2> SUFFICES ASSUME Len(N) # 0 PROVE D[Len(D)] = l.Caller
    OBVIOUS
  <2>1. PICK k \in 1 .. Len(M) - 1 : k = Len(N)
    OBVIOUS
  <2>2. N[Len(N)] = M[k]
    BY <2>1
  <2>3. PICK j \in 2 .. Len(M) : j = Len(M)
    OBVIOUS
  <2>4. j - 1 = k
    BY <2>1, <2>3
  <2>5. D[Len(D)] = CallerOf(M[k])
    BY <1>2, <2>3, <2>4
  <2> QED
    BY <2>2, <2>5
<1>5. first[1] # 0 => l.Caller = first[2]
  BY <1>3, <1>4
<1>6. Enters(C, l) = D
  BY <1>5 DEF Enters, Pending
<1>7. Callers(Append(s, l)) = Front(D)
  <2>1. Callers(Append(s, l)) = AfterBlock(C, l)
    BY CallersMore
  <2>2. l.IsLast # 0
    OBVIOUS
  <2> QED
    BY <1>6, <2>1, <2>2 DEF AfterBlock
<1> HIDE DEF D
<1>8. /\ Front(D) \in Seq(Names) /\ Len(Front(D)) = Len(N) /\ Last(D) = D[Len(D)]
      /\ \A j \in 1 .. Len(N) : Front(D)[j] = D[j]
  BY <1>1, <1>2 DEF Front, Last
<1> DEFINE F == Front(D)
<1>9. Waits(F, N)
  <2>1. \A j \in 2 .. Len(N) : F[j] = CallerOf(N[j - 1])
    <3> SUFFICES ASSUME NEW j \in 2 .. Len(N) PROVE F[j] = CallerOf(N[j - 1])
      OBVIOUS
    <3>1. PICK k \in 1 .. Len(M) - 1 : k = j - 1
      OBVIOUS
    <3>2. F[j] = D[j] /\ j \in 2 .. Len(M)
      BY <1>8
    <3>3. D[j] = CallerOf(M[j - 1])
      BY <1>2, <3>2
    <3> HIDE DEF F
    <3> QED
      BY <3>1, <3>2, <3>3
  <2> QED
    BY <1>8, <2>1 DEF Waits
<1>10. Pending(F, <<0, 0>>) = F
  BY DEF Pending
<1>11. Named(Append(s, l), N, <<0, 0>>)
  <2>1. F \in Seq(Names)
    BY <1>8
  <2> HIDE DEF F, C
  <2> QED
    BY <1>7, <1>9, <1>10, <2>1 DEF Named, F
<1>12. Matching(s, l)
  <2>1. l.IsFirst = 1 => s # <<>> /\ l.Caller = Ins(Last(s).BBID, Last(s).End - 1)
    BY <1>5 DEF Named
  <2>2. l.IsLast = 1 => Last(D) = l.Caller
    BY <1>4, <1>8
  <2>3. l.IsLast = 2 => Len(D) = 1
    BY <1>2
  <2> HIDE DEF C
  <2> QED
    BY <1>6, <2>1, <2>2, <2>3 DEF Matching, C
<1> QED
  BY <1>11, <1>12

(* A block entry: the first frame of a thread, another block in the same   *)
(* frame, and a frame for a callee.                                        *)
LEMMA NamedEntry ==
  ASSUME NEW s, NEW M, Len(M) \in Nat, NEW first, first[1] = 0, Named(s, M, first)
  PROVE  /\ Len(M) = 0 => \A c : Named(s, <<c>>, <<2, 0>>)
         /\ \A N : Len(N) = Len(M) /\ (\A k \in 1 .. Len(M) - 1 : N[k] = M[k]) =>
                Named(s, N, <<0, 0>>)
<1> DEFINE C == Callers(s)
<1>1. C \in Seq(Names) /\ Len(C) = Len(M) /\ \A j \in 2 .. Len(M) : C[j] = CallerOf(M[j - 1])
  BY DEF Named, Pending, Waits
<1> HIDE DEF C
<1>2. ASSUME Len(M) = 0, NEW c PROVE Named(s, <<c>>, <<2, 0>>)
  <2>1. Append(C, 0) \in Seq(Names) /\ Len(Append(C, 0)) = 1
    BY <1>1, <1>2 DEF Names
  <2>2. Pending(C, <<2, 0>>) = Append(C, 0)
    BY DEF Pending
  <2>3. Len(<<c>>) = 1 /\ 2 .. 1 = {}
    OBVIOUS
  <2>4. Waits(Append(C, 0), <<c>>)
    BY <2>1, <2>3 DEF Waits
  <2>5. <<2, 0>>[1] # 1
    OBVIOUS
  <2> QED
    BY <1>1, <2>2, <2>4, <2>5 DEF Named, C
<1>3. ASSUME NEW N, Len(N) = Len(M), \A k \in 1 .. Len(M) - 1 : N[k] = M[k]
      PROVE  Named(s, N, <<0, 0>>)
  <2>1. \A j \in 2 .. Len(M) : M[j - 1] = N[j - 1]
    <3> SUFFICES ASSUME NEW j \in 2 .. Len(M) PROVE M[j - 1] = N[j - 1]
      OBVIOUS
    <3>1. PICK k \in 1 .. Len(M) - 1 : k = j - 1
      OBVIOUS
    <3> QED
      BY <1>3, <3>1
  <2>2. Waits(C, N)
    BY <1>1, <1>3, <2>1 DEF Waits
  <2>3. Pending(C, <<0, 0>>) = C
    BY DEF Pending
  <2> QED
    BY <1>1, <2>2, <2>3 DEF Named, C
<1> QED
  BY <1>2, <1>3

(* A frame for a callee.                                                   *)
LEMMA NamedPush ==
  ASSUME NEW s, s # <<>>, NEW M, Len(M) \in Nat \ {0}, NEW first, first[1] = 0, Named(s, M, first),
         NEW i \in Instructions, i = CallerOf(M[Len(M)]), i = Ins(Last(s).BBID, Last(s).End - 1),
         NEW N, Len(N) = Len(M) + 1, \A k \in 1 .. Len(M) : N[k] = M[k]
  PROVE  Named(s, N, <<1, i>>)
<1> DEFINE C == Callers(s)
           D == Append(C, i)
<1>1. C \in Seq(Names) /\ Len(C) = Len(M) /\ \A j \in 2 .. Len(M) : C[j] = CallerOf(M[j - 1])
  BY DEF Named, Pending, Waits
<1>2. Pending(C, <<1, i>>) = D
  BY DEF Pending
<1> HIDE DEF C
<1>3. /\ D \in Seq(Names) /\ Len(D) = Len(C) + 1 /\ D[Len(C) + 1] = i
      /\ \A j \in 1 .. Len(C) : D[j] = C[j]
  BY <1>1 DEF Names
<1> HIDE DEF D
<1>4. \A j \in 2 .. Len(N) : D[j] = CallerOf(N[j - 1])
  <2> SUFFICES ASSUME NEW j \in 2 .. Len(N) PROVE D[j] = CallerOf(N[j - 1])
    OBVIOUS
  <2>1. PICK k \in 1 .. Len(M) : k = j - 1
    OBVIOUS
  <2>2. CASE j = Len(N)
    <3>1. k = Len(M) /\ j = Len(C) + 1
      BY <1>1, <2>1, <2>2
    <3>2. D[j] = i /\ N[j - 1] = M[Len(M)]
      BY <1>3, <2>1, <3>1
    <3> QED
      BY <3>2
  <2>3. CASE j # Len(N)
    <3>1. j \in 2 .. Len(M) /\ D[j] = C[j]
      BY <1>1, <1>3, <2>3
    <3> QED
      BY <1>1, <2>1, <3>1
  <2> QED
    BY <2>2, <2>3
<1>5. Waits(D, N)
  BY <1>1, <1>3, <1>4 DEF Waits
<1>6. <<1, i>>[2] = i
  OBVIOUS
<1> QED
  BY <1>1, <1>2, <1>5, <1>6 DEF Named, C

-----------------------------------------------------------------------------
(* The last instruction                                                    *)

(* A sequence behind others.                                               *)
LEMMA FlattenLast ==
  ASSUME NEW S, NEW W \in Seq(Seq(S)), W # <<>>, W[Len(W)] # <<>>
  PROVE  /\ FlattenSeq(W) \in Seq(S) /\ FlattenSeq(W) # <<>> /\ W[Len(W)] \in Seq(S)
         /\ FlattenSeq(W)[Len(FlattenSeq(W))] = W[Len(W)][Len(W[Len(W)])]
<1> DEFINE U == SubSeq(W, 1, Len(W) - 1)
           x == W[Len(W)]
           G == FlattenSeq(U)
<1>1. U \in Seq(Seq(S)) /\ x \in Seq(S) /\ W = Append(U, x)
  OBVIOUS
<1> HIDE DEF U, x
<1>2. FlattenSeq(W) = G \o x /\ G \in Seq(S)
  BY <1>1, FlattenAppend, FlattenType
<1> HIDE DEF G
<1>3. x # <<>>
  BY DEF x
<1>4. G \o x \in Seq(S) /\ G \o x # <<>> /\ (G \o x)[Len(G \o x)] = x[Len(x)]
  BY <1>1, <1>2, <1>3
<1> QED
  BY <1>1, <1>2, <1>4 DEF x

(* The last block ends with the last of the instructions.                  *)
LEMMA BlocksEndIn ==
  ASSUME NEW s, IsSequence(s), Pieces(s) \in Seq(Seq(Instants)), s # <<>>, Filled(s)
  PROVE  /\ CoveredBy(s) # <<>>
         /\ CoveredBy(s)[Len(CoveredBy(s))].ins = Ins(Last(s).BBID, Last(s).End - 1)
<1> DEFINE n == Len(s)
           b == s[n]
           d == DepthOf(s, n)
           y(j) == [ins |-> Ins(b.BBID, b.Start + j - 1), last |-> b.LastBBID, depth |-> d]
<1>1. n \in Nat \ {0} /\ DOMAIN s = 1 .. n /\ Last(s) = b
  BY DEF IsSequence, Last
<1>2. b.Start \in Nat /\ b.End \in Nat /\ b.Start < b.End
  BY DEF Filled
<1>3. Len(Pieces(s)) = n /\ Pieces(s)[n] = Piece(b, d)
  BY <1>1 DEF Pieces
<1> HIDE DEF d, n
<1> DEFINE m == b.End - b.Start
<1>4. m \in Nat \ {0} /\ b.Start + m - 1 = b.End - 1
  BY <1>2
<1>5. Piece(b, d) = [j \in 1 .. m |-> y(j)]
  BY DEF Piece
<1> HIDE DEF m, y
<1>6. Len(Piece(b, d)) = m /\ Piece(b, d)[m] = y(m) /\ Piece(b, d) # <<>>
  <2>1. DOMAIN Piece(b, d) = 1 .. m
    BY <1>5
  <2>2. Len(Piece(b, d)) = m
    BY <1>4, <1>5
  <2>3. Piece(b, d)[m] = y(m)
    BY <1>4, <1>5
  <2>4. Piece(b, d) # <<>>
    <3>1. m \in 1 .. m /\ DOMAIN <<>> = {}
      BY <1>4
    <3> QED
      BY <2>1, <3>1
  <2> QED
    BY <2>2, <2>3, <2>4
<1>7. y(m).ins = Ins(b.BBID, b.End - 1)
  BY <1>4 DEF y
<1> HIDE DEF b
<1> DEFINE W == Pieces(s)
<1>8. W \in Seq(Seq(Instants)) /\ W # <<>> /\ W[Len(W)] = Piece(b, d)
  BY <1>1, <1>3
<1> HIDE DEF W
<1>9. FlattenSeq(W) # <<>> /\ FlattenSeq(W)[Len(FlattenSeq(W))] = W[Len(W)][Len(W[Len(W)])]
  BY <1>6, <1>8, FlattenLast
<1> QED
  BY <1>1, <1>6, <1>7, <1>8, <1>9 DEF CoveredBy, W

-----------------------------------------------------------------------------
(* The first instruction of a frame                                        *)

(* One thread makes a step.                                                *)
LEMMA OneBegins ==
  ASSUME Begun, NEW t \in Threads,
         \A u \in Threads \ {t} : exec'[u] = exec[u] /\ executed'[u] = executed[u],
         Begins(exec'[t], executed'[t])
  PROVE  Begun'
<1> SUFFICES ASSUME NEW u \in Threads PROVE Begins(exec'[u], executed'[u])
  BY DEF Begun
<1>1. CASE u = t
  BY <1>1
<1>2. CASE u # t
  BY <1>2 DEF Begun
<1> QED
  BY <1>1, <1>2

(* A frame enters its block.                                               *)
LEMMA BeginsEntered ==
  ASSUME NEW P, Stack(P), P # <<>>, Top(P).index = -1, NEW E, Begins(P, E),
         NEW Q, Q = SetTop(P, [Top(P) EXCEPT !.index = 0])
  PROVE  Begins(Q, E)
<1> DEFINE f == Top(P)
           g == [f EXCEPT !.index = 0]
<1>1. /\ f \in ProgramFrames /\ Len(P) \in Nat \ {0}
  BY StackTop
<1>2. g.last = f.last
  <2> HIDE DEF f
  <2> QED
    BY <1>1 DEF ProgramFrames
<1>3. /\ Len(SetTop(P, g)) = Len(P) /\ Top(SetTop(P, g)) = g
      /\ \A k \in 1 .. Len(P) - 1 : SetTop(P, g)[k] = P[k]
  <2> DEFINE R == ProgramFrames \cup {g}
  <2>1. ProgramFrames \subseteq R /\ g \in R
    OBVIOUS
  <2> HIDE DEF R, g
  <2>2. P \in Seq(R)
    BY <2>1, SeqMonotonic DEF Stack
  <2> QED
    BY <2>1, <2>2, SetTopFacts
<1>4. Q = SetTop(P, g)
  OBVIOUS
<1> HIDE DEF g
<1>5. Len(Q) = Len(P) /\ Top(Q).last = f.last
  BY <1>2, <1>3, <1>4
<1>6. Len(Q) # 1 => Q[Len(Q) - 1] = P[Len(P) - 1]
  <2> SUFFICES ASSUME Len(Q) # 1 PROVE Q[Len(Q) - 1] = P[Len(P) - 1]
    OBVIOUS
  <2>1. Len(P) \in Nat \ {0, 1}
    BY <1>1, <1>5
  <2>2. PICK k \in 1 .. Len(P) - 1 : k = Len(P) - 1
    <3>1. \A n \in Nat \ {0, 1} : n - 1 \in 1 .. n - 1
      OBVIOUS
    <3> QED
      BY <2>1, <3>1
  <2>3. Q[k] = P[k]
    BY <1>3, <1>4
  <2> QED
    BY <1>5, <2>2, <2>3
<1>7. f.index <= 0
  OBVIOUS
<1> HIDE DEF f
<1> QED
  BY <1>5, <1>6, <1>7 DEF Begins, f

(* A frame that goes on has executed an instruction.                       *)
LEMMA BeginsAdvanced ==
  ASSUME NEW P, Stack(P), P # <<>>, Top(P).index >= 0, NEW E,
         NEW Q, Q = SetTop(P, [Top(P) EXCEPT !.index = @ + 1])
  PROVE  Begins(Q, E)
<1> DEFINE f == Top(P)
           g == [f EXCEPT !.index = @ + 1]
<1>1. f \in ProgramFrames /\ Len(P) \in Nat \ {0}
  BY StackTop
<1>2. g.index = f.index + 1 /\ f.index \in Int
  <2> HIDE DEF f
  <2> QED
    BY <1>1 DEF ProgramFrames
<1>3. Top(SetTop(P, g)) = g
  <2> DEFINE R == ProgramFrames \cup {g}
  <2>1. ProgramFrames \subseteq R /\ g \in R
    OBVIOUS
  <2> HIDE DEF R, g
  <2>2. P \in Seq(R)
    BY <2>1, SeqMonotonic DEF Stack
  <2> QED
    BY <2>1, <2>2, SetTopFacts
<1>4. Q = SetTop(P, g)
  OBVIOUS
<1> HIDE DEF g
<1>5. ~(Top(Q).index <= 0)
  BY <1>2, <1>3, <1>4
<1> QED
  BY <1>5 DEF Begins

(* A call is the last instruction before the callee begins.                *)
LEMMA BeginsCalled ==
  ASSUME NEW P, Stack(P), P # <<>>, Top(P).index >= 0, NEW E \in Seq(Instants),
         NEW x \in Instants, x.ins = Ins(Top(P).bb, Top(P).index), NEW c,
         NEW Q, Q = Append(SetTop(P, [Top(P) EXCEPT !.index = @ + 1]), c)
  PROVE  Begins(Q, Append(E, x))
<1> DEFINE f == Top(P)
           g == [f EXCEPT !.index = @ + 1]
           F == Append(E, x)
<1>1. f \in ProgramFrames /\ Len(P) \in Nat \ {0}
  BY StackTop
<1>2. g.index - 1 = f.index /\ g.bb = f.bb
  <2> HIDE DEF f
  <2> QED
    BY <1>1 DEF ProgramFrames
<1>3. F # <<>> /\ F[Len(F)] = x
  OBVIOUS
<1>4. Len(Append(SetTop(P, g), c)) = Len(P) + 1 /\ Append(SetTop(P, g), c)[Len(P)] = g
  <2> DEFINE R == ProgramFrames \cup {g, c}
  <2>1. ProgramFrames \subseteq R /\ g \in R /\ c \in R
    OBVIOUS
  <2> HIDE DEF R, g
  <2>2. P \in Seq(R)
    BY <2>1, SeqMonotonic DEF Stack
  <2>3. /\ SetTop(P, g) \in Seq(R) /\ Len(SetTop(P, g)) = Len(P) /\ SetTop(P, g)[Len(P)] = g
    BY <2>1, <2>2, SetTopFacts
  <2> DEFINE T == SetTop(P, g)
  <2> HIDE DEF T
  <2>4. T \in Seq(R) /\ Len(T) = Len(P) /\ T[Len(P)] = g
    BY <2>3 DEF T
  <2>5. Len(Append(T, c)) = Len(P) + 1 /\ Append(T, c)[Len(P)] = g
    BY <1>1, <2>1, <2>4
  <2> QED
    BY <2>5 DEF T
<1>5. Q = Append(SetTop(P, g), c)
  OBVIOUS
<1> HIDE DEF g, F
<1>6. Len(Q) # 1 /\ Q[Len(Q) - 1] = g
  <2>1. Len(Q) = Len(P) + 1 /\ Q[Len(P)] = g
    BY <1>4, <1>5, Zenon
  <2>2. Len(Q) # 1 /\ Len(Q) - 1 = Len(P)
    <3>1. \A m \in Nat \ {0} : m + 1 # 1 /\ (m + 1) - 1 = m
      OBVIOUS
    <3> QED
      BY <1>1, <2>1, <3>1, Zenon
  <2> QED
    BY <2>1, <2>2, Zenon
<1>7. F[Len(F)].ins = Ins(g.bb, g.index - 1)
  BY <1>2, <1>3
<1> QED
  BY <1>3, <1>6, <1>7 DEF Begins, F

(* A block of the same function begins after another one, and a caller     *)
(* after its call.                                                         *)
LEMMA BeginsBehind ==
  ASSUME NEW P, Stack(P), P # <<>>, NEW E
  PROVE  /\ \A bb : Begins(SetTop(P, Frame(bb, Top(P).bb)), E)
         /\ Begins(Pop(P), E)
<1>1. /\ Top(P) \in ProgramFrames /\ Len(P) \in Nat \ {0} /\ Top(P).bb \in DOMAIN BB2Ins
  BY StackTop
<1>2. ASSUME NEW bb PROVE Begins(SetTop(P, Frame(bb, Top(P).bb)), E)
  <2> DEFINE g == Frame(bb, Top(P).bb)
             R == ProgramFrames \cup {g}
  <2>1. ProgramFrames \subseteq R /\ g \in R
    OBVIOUS
  <2>2. g.last # -1
    BY <1>1, GraphAssumption DEF Frame
  <2> HIDE DEF R, g
  <2>3. P \in Seq(R)
    BY <2>1, SeqMonotonic DEF Stack
  <2>4. Top(SetTop(P, g)) = g
    BY <2>1, <2>3, SetTopFacts
  <2>5. Begins(SetTop(P, g), E)
    BY <2>2, <2>4 DEF Begins
  <2> QED
    BY <2>5 DEF g
<1>3. Begins(Pop(P), E)
  <2> SUFFICES ASSUME Pop(P) # <<>> PROVE ~(Top(Pop(P)).index <= 0)
    BY DEF Begins
  <2>1. Top(Pop(P)) = P[Len(P) - 1] /\ Len(Pop(P)) = Len(P) - 1 /\ Pop(P) \in Seq(ProgramFrames)
    BY PopFacts DEF Stack
  <2>2. Len(P) - 1 \in 1 .. Len(P) - 1
    <3>1. Len(Pop(P)) # 0
      BY <2>1
    <3> QED
      BY <1>1, <2>1, <3>1
  <2>3. PICK k \in 1 .. Len(P) - 1 : k = Len(P) - 1
    BY <2>2
  <2>4. Calls(P[k]) /\ P[k] \in ProgramFrames
    BY <1>1, <2>3 DEF Stack
  <2>5. P[k].index > 0 /\ P[k].index \in Int
    BY <2>4 DEF Calls, ProgramFrames
  <2> QED
    BY <2>1, <2>3, <2>5
<1> QED
  BY <1>2, <1>3

(* A step of the program for thread t.                                     *)
LEMMA BegunThread ==
  ASSUME SInv, ReplayInv, Begun, NEW t \in Threads, Step(t)
  PROVE  Begun'
<1> DEFINE P == exec[t]
           E == executed[t]
           f == Top(P)
<1>1. /\ Stack(P) /\ E \in Seq(Instants) /\ Begins(P, E)
      /\ DOMAIN exec = Threads /\ executed \in [Threads -> Seq(Instants)]
  BY DEF SInv, Stacks, ReplayInv, Sequences, Begun
<1>2. \A Q : exec' = [exec EXCEPT ![t] = Q] =>
          exec'[t] = Q /\ \A u \in Threads \ {t} : exec'[u] = exec[u]
  BY <1>1
<1>3. CASE StartThread(t) \/ RunOuter(t)
  <2>1. PICK bb : executed' = executed /\ exec' = [exec EXCEPT ![t] = <<Frame(bb, -1)>>]
    BY <1>3, EntersOuter
  <2> DEFINE Q == <<Frame(bb, -1)>>
  <2>2. Len(Q) = 1
    OBVIOUS
  <2> HIDE DEF Q
  <2>3. Begins(Q, E)
    BY <2>2 DEF Begins
  <2>4. exec'[t] = Q /\ \A u \in Threads \ {t} : exec'[u] = exec[u]
    BY <1>2, <2>1 DEF Q
  <2> QED
    BY <2>1, <2>3, <2>4, OneBegins
<1>4. CASE EnterBlock(t)
  <2> DEFINE Q == SetTop(P, [f EXCEPT !.index = 0])
  <2>1. /\ P # <<>> /\ f.index = -1 /\ executed' = executed
        /\ exec' = [exec EXCEPT ![t] = Q]
    BY <1>4 DEF EnterBlock
  <2>2. Begins(Q, E)
    BY <1>1, <2>1, BeginsEntered
  <2> HIDE DEF Q
  <2>3. exec'[t] = Q /\ \A u \in Threads \ {t} : exec'[u] = exec[u]
    BY <1>2, <2>1
  <2> QED
    BY <2>1, <2>2, <2>3, OneBegins
<1>5. ASSUME NEW i \in Instructions, RecordArgument(t, i) PROVE Begun'
  BY <1>5 DEF RecordArgument, Begun
<1>6. ASSUME NEW i \in Instructions, At(t, i), Execute(t),
             NEW Q, exec' = [exec EXCEPT ![t] = Q],
             \A x \in Instants : x.ins = Ins(f.bb, f.index) => Begins(Q, Append(E, x))
      PROVE  Begun'
  <2>1. P # <<>> /\ f.index >= 0
    BY <1>1, <1>6 DEF At
  <2>2. Executed(t) \in Instants /\ Executed(t).ins = Ins(f.bb, f.index)
    <3>1. Following(P) \in Instants
      BY <1>1, <2>1, FollowingType
    <3>2. Executed(t) = Following(P) /\ Executed(t).ins = Ins(f.bb, f.index)
      BY DEF Executed, Following, Ins
    <3> QED
      BY <3>1, <3>2
  <2>3. /\ executed'[t] = Append(E, Executed(t))
        /\ \A u \in Threads \ {t} : executed'[u] = executed[u]
    BY <1>1, <1>6, <2>2, ExecuteOne
  <2>4. exec'[t] = Q /\ \A u \in Threads \ {t} : exec'[u] = exec[u]
    BY <1>2, <1>6
  <2>5. Begins(exec'[t], executed'[t])
    BY <1>6, <2>2, <2>3, <2>4
  <2> QED
    BY <1>6, <2>1, <2>3, <2>4, <2>5, OneBegins
<1>7. ASSUME NEW i \in Instructions, PlainStep(t, i) \/ AccessStep(t, i) \/ ExternalCall(t, i)
      PROVE  Begun'
  <2> DEFINE Q == SetTop(P, [f EXCEPT !.index = @ + 1])
  <2>1. /\ At(t, i) /\ Execute(t) /\ exec' = [exec EXCEPT ![t] = Q]
    BY <1>7 DEF PlainStep, AccessStep, ExternalCall, Advance
  <2>2. \A x \in Instants : Begins(Q, Append(E, x))
    BY <1>1, <2>1, BeginsAdvanced DEF At
  <2> HIDE DEF Q, P, E, f
  <2> QED
    BY <1>6, <2>1, <2>2
<1>8. ASSUME NEW i \in Instructions, Call(t, i) PROVE Begun'
  <2> DEFINE c == Frame(Callee[i], -1)
             Q == Append(SetTop(P, [f EXCEPT !.index = @ + 1]), c)
  <2>1. /\ At(t, i) /\ Execute(t) /\ exec' = [exec EXCEPT ![t] = Q]
    BY <1>8 DEF Call, Advance
  <2>2. P # <<>> /\ f.index >= 0
    BY <2>1 DEF At
  <2>3. ASSUME NEW x \in Instants, x.ins = Ins(f.bb, f.index) PROVE Begins(Q, Append(E, x))
    BY <1>1, <2>2, <2>3, BeginsCalled
  <2> HIDE DEF Q, P, E, f
  <2> QED
    BY <1>6, <2>1, <2>3
<1>9. ASSUME NEW i \in Instructions, Branch(t, i) PROVE Begun'
  <2>1. PICK bb \in Successors[i] : exec' = [exec EXCEPT ![t] = SetTop(P, Frame(bb, f.bb))]
    BY <1>9 DEF Branch
  <2> DEFINE Q == SetTop(P, Frame(bb, f.bb))
  <2>2. /\ At(t, i) /\ Execute(t) /\ exec' = [exec EXCEPT ![t] = Q]
    BY <1>9, <2>1 DEF Branch
  <2>3. \A x \in Instants : Begins(Q, Append(E, x))
    BY <1>1, <2>2, BeginsBehind DEF At
  <2> HIDE DEF Q, P, E, f
  <2> QED
    BY <1>6, <2>2, <2>3
<1>10. ASSUME NEW i \in Instructions, Return(t, i) PROVE Begun'
  <2> DEFINE Q == Pop(P)
  <2>1. /\ At(t, i) /\ Execute(t) /\ exec' = [exec EXCEPT ![t] = Q]
    BY <1>10 DEF Return
  <2>2. \A x \in Instants : Begins(Q, Append(E, x))
    BY <1>1, <2>1, BeginsBehind DEF At
  <2> HIDE DEF Q, P, E, f
  <2> QED
    BY <1>6, <2>1, <2>2
<1> QED
  BY <1>3, <1>4, <1>5, <1>7, <1>8, <1>9, <1>10 DEF Step

(* Every step keeps it.                                                    *)
LEMMA BegunKept ==
  ASSUME SInv, ReplayInv, Begun, Next
  PROVE  Begun'
<1>1. CASE \E t \in Threads : Step(t)
  BY <1>1, BegunThread
<1>2. CASE UNCHANGED <<exec, executed>>
  BY <1>2 DEF Begun
<1>3. CASE DeclareGlobal \/ PlaceHolder \/ EndEvent(FALSE) \/ EndEvent(TRUE) \/ EndOfFile
  BY <1>2, <1>3, QuietStep
<1>4. CASE Merge
  <2>1. UNCHANGED programVars
    BY <1>4 DEF Merge, ReadDeclare, ReadArgument, ReadBasicBlock, ReadAccess, ReadReturn, ReadHolder,
                Read, Loop, Finish, FinishCrash, Done, FinishFrame
  <2> QED
    BY <1>2, <2>1 DEF programVars
<1> QED
  BY <1>1, <1>3, <1>4 DEF Next, Trace, Program

-----------------------------------------------------------------------------
(* The marks                                                               *)

(* CallersMatch in terms of the sequences of blocks.                       *)
LEMMA CallersMatchIs == CallersMatch <=> \A t \in Threads : Matches(blocks[t])
BY DEF CallersMatch, Matches, Matching

(* A step that makes no block for a thread but that of thread t.           *)
LEMMA MarksOne ==
  ASSUME MarksInv, Begun', place \in {"next", "loop"}, place' \in {"next", "loop"}, NEW t \in Threads,
         \A u \in Threads \ {t} : /\ blocks'[u] = blocks[u] /\ call_stack'[u] = call_stack[u]
                                  /\ is_first'[u] = is_first[u],
         Edges(blocks'[t], call_stack'[t]), Matches(blocks'[t]), Filled(blocks'[t]),
         Bottom(call_stack'[t], is_first'[t]), Named(blocks'[t], call_stack'[t], is_first'[t])
  PROVE  MarksInv'
<1>1. ASSUME NEW u \in Threads
      PROVE  /\ Edges(blocks'[u], call_stack'[u]) /\ Matches(blocks'[u]) /\ Filled(blocks'[u])
             /\ Bottom(call_stack'[u], is_first'[u])
             /\ Named(blocks'[u], call_stack'[u], is_first'[u])
  <2>1. CASE u = t
    BY <2>1
  <2>2. CASE u # t
    BY <2>2 DEF MarksInv
  <2> QED
    BY <2>1, <2>2
<1> QED
  BY <1>1 DEF MarksInv

(* A step that makes no block and leaves the stacks alone.                 *)
LEMMA MarksQuiet ==
  ASSUME MarksInv, Begun', UNCHANGED <<blocks, call_stack, is_first>>,
         \/ place \in {"next", "loop"} /\ place' \in {"next", "loop"}
         \/ place' = place
  PROVE  MarksInv'
<1>1. \A t \in Threads : Edges(blocks'[t], call_stack'[t]) /\ Matches(blocks'[t])
  BY DEF MarksInv
<1>2. place' \in {"next", "loop"} =>
         \A t \in Threads : /\ Filled(blocks'[t]) /\ Bottom(call_stack'[t], is_first'[t])
                             /\ Named(blocks'[t], call_stack'[t], is_first'[t])
  BY DEF MarksInv
<1>3. place' \notin {"next", "loop"} => \A t \in Threads : Counts(t)'
  BY DEF MarksInv, Counts
<1>4. place' = "done" => Open' = {}
  BY DEF MarksInv, Open
<1> QED
  BY <1>1, <1>2, <1>3, <1>4 DEF MarksInv

(* What is known of a thread while MergeTrace reads.                       *)
LEMMA ThreadMarks ==
  ASSUME SInv, ReplayInv, MarksInv, place \in {"next", "loop"}, NEW t \in Threads
  PROVE  /\ IsSequence(blocks[t]) /\ Edges(blocks[t], call_stack[t]) /\ Matches(blocks[t])
         /\ Counts(t) /\ Bottom(call_stack[t], is_first[t]) /\ Filled(blocks[t]) /\ Named(blocks[t], call_stack[t], is_first[t])
         /\ is_first[t] \in FirstMarks /\ call_stack[t] \in Seq(StackFrames)
         /\ Len(call_stack[t]) \in Nat
         /\ DOMAIN blocks = Threads /\ DOMAIN call_stack = Threads /\ DOMAIN is_first = Threads
<1>1. call_stack[t] \in Seq(StackFrames) /\ DOMAIN call_stack = Threads
  BY DEF SInv, Stacks
<1>2. is_first[t] \in FirstMarks /\ DOMAIN is_first = Threads
  BY DEF SInv, IsFirsts, FirstMarks
<1> QED
  BY <1>1, <1>2 DEF ReplayInv, Counted, Counts, Sequences, MarksInv

(* A new block of thread t.                                                *)
LEMMA MarksEmit ==
  ASSUME SInv, ReplayInv, MarksInv, Begun', place \in {"next", "loop"}, place' \in {"next", "loop"},
         NEW t \in Threads, NEW b, Emits(t, b), b.Start \in Nat, b.End \in Nat, b.Start < b.End,
         NEW N, call_stack' = [call_stack EXCEPT ![t] = N],
         is_first' = [is_first EXCEPT ![t] = <<0, 0>>],
         Named(Append(blocks[t], b), N, <<0, 0>>), Matching(blocks[t], b),
         call_stack[t] # <<>>, b.IsFirst = is_first[t][1], b.IsLast = 2 <=> N = <<>>,
         Len(N) = Len(call_stack[t]) - Mark(b.IsLast), N = <<>> <=> Len(N) = 0
  PROVE  MarksInv'
<1> DEFINE s == blocks[t]
           v == Append(s, b)
           M == call_stack[t]
           first == is_first[t]
<1>1. /\ IsSequence(s) /\ Edges(s, M) /\ Matches(s) /\ Bottom(M, first)
      /\ OpenAfter(s, Len(s)) + Mark(first[1]) = Len(M)
      /\ first \in (0 .. 2) \X (Instructions \cup {0}) /\ Len(M) \in Nat /\ M \in Seq(StackFrames)
      /\ DOMAIN blocks = Threads /\ DOMAIN call_stack = Threads /\ DOMAIN is_first = Threads
  BY ThreadMarks DEF Counts, FirstMarks
<1>2. /\ blocks'[t] = v /\ call_stack'[t] = N /\ is_first'[t] = <<0, 0>>
      /\ \A u \in Threads \ {t} : /\ blocks'[u] = blocks[u] /\ call_stack'[u] = call_stack[u]
                                  /\ is_first'[u] = is_first[u]
  BY <1>1 DEF Emits
<1>3. Edges(v, N)
  <2>1. Len(M) # 0 /\ M # <<>>
    <3>1. \A q \in Seq(StackFrames) : q # <<>> => Len(q) # 0
      OBVIOUS
    <3> QED
      BY <1>1, <3>1
  <2>2. v = Append(s, b) /\ b.IsFirst = first[1] /\ Len(N) = Len(M) - Mark(b.IsLast)
    OBVIOUS
  <2> HIDE DEF s, v, M, first
  <2>3. EdgesAt(v, Len(s) + 1)
    BY <1>1, <2>1, <2>2, EdgesMade DEF Bottom
  <2> QED
    BY <1>1, <2>1, <2>2, <2>3, EdgesMore
<1>4. Matches(v)
  <2>1. Matching(s, b)
    BY DEF s
  <2> HIDE DEF s
  <2> QED
    BY <1>1, <2>1, MatchesMore
<1> HIDE DEF s, M, first
<1>5. Filled(v)
  <2>1. v[Len(v)] = b
    <3>1. v = Append(s, b)
      OBVIOUS
    <3> HIDE DEF v
    <3> QED
      BY <1>1, <3>1, OneBlockMore
  <2> HIDE DEF v
  <2> QED
    BY <2>1 DEF Filled
<1>6. Named(v, N, <<0, 0>>) /\ Bottom(N, <<0, 0>>)
  BY DEF s, Bottom
<1> HIDE DEF v
<1> QED
  BY <1>2, <1>3, <1>4, <1>5, <1>6, MarksOne

-----------------------------------------------------------------------------
(* The steps of MergeTrace                                                 *)

(* The events that name no instruction.                                    *)
LEMMA MarksOthers ==
  ASSUME MarksInv, Begun', ReadDeclare \/ ReadArgument \/ ReadHolder
  PROVE  MarksInv'
<1>1. /\ place = "next" /\ place' \in {"next", "loop"}
      /\ UNCHANGED <<call_stack, is_first, blocks>>
  BY DEF ReadDeclare, ReadArgument, ReadHolder, Read
<1> QED
  BY <1>1, MarksQuiet

(* An access or an external call.                                          *)
LEMMA MarksSteps ==
  ASSUME SInv, ReplayInv, MarksInv, Begun', ReadAccess \/ ReadReturn
  PROVE  MarksInv'
<1> DEFINE t == event.tid
           P == exec[t]
           M == call_stack[t]
           info == Top(M)
           g == [info EXCEPT !.CurIndex = @ + 1]
           N == SetTop(M, g)
           first == is_first[t]
           s == blocks[t]
<1>1. place = "next" /\ event.label \in Steps
  BY DEF ReadAccess, ReadReturn, Read, Steps
<1>2. /\ t \in Threads /\ Stack(P) /\ M \in Seq(StackFrames) /\ Announced(event, P, M)
  BY <1>1, OnTheWayFacts
<1>3. /\ M # <<>> /\ info.CurIndex < Size(info.BBID) /\ Ins(info.BBID, info.CurIndex) = event.id
  BY <1>1, <1>2, ReadsAccess
<1>4. Expected(t, event.id)
  BY <1>3 DEF Expected
<1>5. PICK type, arguments : Consume(t, type, arguments) /\ place' = "loop"
  BY <1>4 DEF ReadAccess, ReadReturn
<1> DEFINE b == [SmallestBlock(type, info, info.CurIndex, info.CurIndex + 1, first)
                    EXCEPT !.Args = arguments]
<1>6. /\ Emits(t, b) /\ call_stack' = [call_stack EXCEPT ![t] = N]
      /\ is_first' = [is_first EXCEPT ![t] = <<0, 0>>]
  BY <1>2, <1>5 DEF Consume, SInv, Stacks
<1>7. /\ b.Start = info.CurIndex /\ b.End = info.CurIndex + 1
      /\ b.IsFirst = first[1] /\ b.Caller = first[2] /\ b.IsLast = 0
  BY DEF SmallestBlock
<1>8. info.CurIndex \in Nat
  <2>1. info \in StackFrames
    BY <1>2, <1>3, TopFacts
  <2> HIDE DEF info
  <2> QED
    BY <2>1 DEF StackFrames
<1>9. /\ Len(N) = Len(M) /\ Len(M) \in Nat \ {0} /\ \A k \in 1 .. Len(M) - 1 : N[k] = M[k]
  <2> DEFINE R == StackFrames \cup {g}
  <2>1. StackFrames \subseteq R /\ g \in R
    OBVIOUS
  <2> HIDE DEF R, g
  <2>2. M \in Seq(R)
    BY <1>2, <2>1, SeqMonotonic
  <2> HIDE DEF M
  <2> QED
    BY <1>3, <2>1, <2>2, SetTopFacts
<1>10. /\ IsSequence(s) /\ Named(s, M, first) /\ first \in FirstMarks
  BY <1>1, <1>2, ThreadMarks
<1> HIDE DEF b, N, info, g
<1>11. Named(Append(s, b), N, <<0, 0>>) /\ Matching(s, b)
  <2> HIDE DEF M, first, s
  <2> QED
    BY <1>7, <1>9, <1>10, NamedMoves
<1>12. b.Start \in Nat /\ b.End \in Nat /\ b.Start < b.End
  BY <1>7, <1>8
<1>13. /\ b.IsLast = 2 <=> N = <<>>
       /\ Len(N) = Len(M) - Mark(b.IsLast) /\ (N = <<>> <=> Len(N) = 0)
  <2>1. N # <<>> /\ Len(N) # 0
    BY <1>9
  <2> QED
    BY <1>7, <1>9, <2>1 DEF Mark
<1> QED
  BY <1>1, <1>2, <1>3, <1>5, <1>6, <1>7, <1>11, <1>12, <1>13, MarksEmit

(* Blocks that stand for nothing are no blocks.                            *)
LEMMA NothingCovered == CoveredBy(<<>>) = <<>>
<1>1. Pieces(<<>>) = <<>>
  BY DEF Pieces
<1> QED
  BY <1>1, FlattenEmpty DEF CoveredBy

(* Where a block is entered, by what the blocks before stand for.          *)
LEMMA EntersBehind ==
  ASSUME NEW P, Stack(P), NEW M \in Seq(StackFrames), NEW e, Announced(e, P, M),
         e.label = "BasicBlock", NEW E, Begins(P, E), NEW s, IsSequence(s),
         Pieces(s) \in Seq(Seq(Instants)), Filled(s), E = CoveredBy(s)
  PROVE  M # <<>> /\ ~(Top(M).CurIndex >= Size(Top(M).BBID)) =>
             LET i == Ins(Top(M).BBID, Top(M).CurIndex - 1) IN
             /\ i \in Instructions /\ i = CallerOf(Top(M))
             /\ s # <<>> /\ i = Ins(Last(s).BBID, Last(s).End - 1)
<1> DEFINE n == Len(P)
           f == Top(P)
<1>1. /\ n \in Nat \ {0} /\ f \in ProgramFrames /\ f.index = 0 /\ P # <<>>
      /\ \A k \in 1 .. n - 1 : M[k] = Exact(P[k]) /\ Calls(P[k]) /\ P[k] \in ProgramFrames
      /\ f.last = -1 => Len(M) = n - 1
      /\ f.last # -1 => Len(M) = n /\ M[n].BBID = f.last /\ M[n].CurIndex = Size(f.last)
  <2>1. f.index = 0 /\ P # <<>>
    BY DEF Announced
  <2> QED
    BY <2>1, AnnouncedFacts
<1>2. f.last = -1 /\ n # 1 => E # <<>> /\ E[Len(E)].ins = Ins(P[n - 1].bb, P[n - 1].index - 1)
  BY <1>1 DEF Begins
<1>3. s # <<>> => CoveredBy(s) # <<>>
                  /\ CoveredBy(s)[Len(CoveredBy(s))].ins = Ins(Last(s).BBID, Last(s).End - 1)
  BY BlocksEndIn
<1> HIDE DEF n, f
<1>4. M # <<>> => Top(M) = M[Len(M)] /\ Len(M) \in Nat \ {0}
  BY TopFacts
<1>5. ASSUME M # <<>>, ~(Top(M).CurIndex >= Size(Top(M).BBID))
      PROVE  LET i == Ins(Top(M).BBID, Top(M).CurIndex - 1) IN
             /\ i \in Instructions /\ i = CallerOf(Top(M))
             /\ s # <<>> /\ i = Ins(Last(s).BBID, Last(s).End - 1)
  <2> DEFINE i == Ins(Top(M).BBID, Top(M).CurIndex - 1)
  <2>1. f.last = -1
    <3> SUFFICES ASSUME f.last # -1 PROVE FALSE
      OBVIOUS
    <3>1. Len(M) = n /\ Top(M).BBID = f.last /\ Top(M).CurIndex = Size(f.last)
      BY <1>1, <1>4, <1>5
    <3>2. f.last \in DOMAIN BB2Ins
      BY <1>1, FrameFacts
    <3>3. Size(f.last) \in Nat
      BY <3>2, BlockFacts
    <3> QED
      BY <1>5, <3>1, <3>3
  <2>2. PICK k \in 1 .. n - 1 : k = n - 1 /\ k = Len(M)
    BY <1>1, <1>4, <1>5, <2>1
  <2>3. Top(M) = Exact(P[k]) /\ Calls(P[k]) /\ P[k] \in ProgramFrames
    BY <1>1, <1>4, <1>5, <2>2
  <2>4. i = Ins(P[k].bb, P[k].index - 1)
    BY <2>3 DEF Exact
  <2>5. P[k].index > 0 /\ IsCall(i)
    BY <2>3, <2>4 DEF Calls
  <2>6. i \in Instructions
    <3>1. /\ P[k].bb \in DOMAIN BB2Ins /\ P[k].index \in Int /\ P[k].index <= Size(P[k].bb) - 1
      BY <2>3, FrameFacts, BlockFacts
    <3>2. P[k].index - 1 \in 0 .. Size(P[k].bb) - 1
      <4>1. Size(P[k].bb) \in Nat
        BY <3>1, BlockFacts
      <4> QED
        BY <2>5, <3>1, <4>1
    <3> QED
      BY <2>4, <3>1, <3>2, BlockFacts
  <2>7. i = CallerOf(Top(M))
    BY <2>5 DEF CallerOf, IsCall
  <2>8. E # <<>> /\ E[Len(E)].ins = i
    BY <1>1, <1>2, <2>1, <2>2, <2>4
  <2>9. s # <<>>
    BY <2>8, NothingCovered
  <2>10. i = Ins(Last(s).BBID, Last(s).End - 1)
    BY <1>3, <2>8, <2>9
  <2> QED
    BY <2>6, <2>7, <2>9, <2>10
<1> QED
  BY <1>5

(* A block entry.                                                          *)
LEMMA MarksBlock ==
  ASSUME SInv, ReplayInv, MarksInv, Begun', ReadBasicBlock
  PROVE  MarksInv'
<1> DEFINE t == event.tid
           P == exec[t]
           M == call_stack[t]
           info == Top(M)
           s == blocks[t]
           first == is_first[t]
<1>1. /\ place = "next" /\ event.label = "BasicBlock" /\ UNCHANGED blocks /\ place' = "loop"
  BY DEF ReadBasicBlock, Read
<1>2. /\ t \in Threads /\ OnTheWay(event, t) /\ Stack(P)
      /\ M \in Seq(StackFrames) /\ Announced(event, P, M)
  BY <1>1, OnTheWayFacts
<1>3. /\ IsSequence(s) /\ Edges(s, M) /\ Matches(s) /\ Filled(s) /\ Named(s, M, first)
      /\ Len(M) \in Nat /\ DOMAIN call_stack = Threads /\ DOMAIN is_first = Threads
  BY <1>1, <1>2, ThreadMarks
<1>4. Pieces(s) \in Seq(Seq(Instants)) /\ executed[t] = CoveredBy(s) /\ Begins(P, executed[t])
  BY <1>1, <1>2 DEF ReplayInv, Sequences, Covers, Steps, MarksInv, Begun
<1>5. M # <<>> /\ ~(info.CurIndex >= Size(info.BBID)) =>
          LET i == Ins(info.BBID, info.CurIndex - 1) IN
          /\ i \in Instructions /\ i = CallerOf(info)
          /\ s # <<>> /\ i = Ins(Last(s).BBID, Last(s).End - 1)
  <2> HIDE DEF s, P, M
  <2> QED
    BY <1>1, <1>2, <1>3, <1>4, EntersBehind
<1>6. first[1] = 0
  <2>1. M # <<>> => info.CurIndex # 0
    BY <1>1, <1>2, EntersAt
  <2>2. Counted(t)
    BY <1>1, <1>2 DEF ReplayInv
  <2> QED
    BY <2>1, <2>2 DEF Counted
<1>7. ASSUME NEW N, N # <<>> PROVE Edges(s, N)
  <2>1. \A k \in 1 .. Len(s) : ~Proper(s[k]) => s[k].IsLast # 2
    <3> SUFFICES ASSUME NEW k \in 1 .. Len(s), ~Proper(s[k]), s[k].IsLast = 2 PROVE FALSE
      OBVIOUS
    <3>1. k = Len(s)
      BY <1>3 DEF Edges
    <3>2. s # <<>>
      <4>1. Len(<<>>) = 0 /\ 1 .. 0 = {}
        OBVIOUS
      <4> QED
        BY <4>1
    <3> QED
      BY <1>3, <3>1, <3>2 DEF Filled, Proper
  <2> QED
    BY <1>3, <1>7, <2>1 DEF Edges
<1>8. ASSUME NEW N, call_stack' = [call_stack EXCEPT ![t] = N],
             NEW mark, is_first' = [is_first EXCEPT ![t] = mark],
             N # <<>>, Bottom(N, mark), Named(s, N, mark)
      PROVE  MarksInv'
  <2>1. /\ call_stack'[t] = N /\ is_first'[t] = mark /\ blocks' = blocks
        /\ \A u \in Threads \ {t} : call_stack'[u] = call_stack[u] /\ is_first'[u] = is_first[u]
    BY <1>1, <1>2, <1>3, <1>8
  <2>2. Edges(s, N)
    BY <1>3, <1>8, <1>7
  <2> HIDE DEF t
  <2> QED
    BY <1>1, <1>2, <1>3, <1>8, <2>1, <2>2, MarksOne
<1>9. CASE NewThread(t)
  <2> DEFINE N == <<StackInfo(event.id, -1, 0)>>
             mark == <<2, 0>>
  <2>1. M = <<>> /\ is_first' = [is_first EXCEPT ![t] = mark]
        /\ call_stack' = [call_stack EXCEPT ![t] = N]
    BY <1>9 DEF ReadBasicBlock, NewThread, SameFunction
  <2>2. N # <<>> /\ Bottom(N, mark)
    <3>1. N # <<>> /\ Len(N) = 1 /\ mark[1] = 2
      OBVIOUS
    <3> HIDE DEF N, mark
    <3> QED
      BY <3>1 DEF Bottom
  <2>3. Named(s, N, mark)
    <3>1. Len(M) = 0
      BY <2>1
    <3> HIDE DEF s, M, first
    <3> QED
      BY <1>3, <1>6, <3>1, NamedEntry
  <2> HIDE DEF N, mark
  <2> QED
    BY <1>8, <2>1, <2>2, <2>3
<1>10. CASE SameFunction(t)
  <2> DEFINE c == StackInfo(event.id, info.BBID, 0)
             N == SetTop(M, c)
             mark == <<0, 0>>
  <2>1. /\ M # <<>> /\ is_first' = [is_first EXCEPT ![t] = mark]
        /\ call_stack' = [call_stack EXCEPT ![t] = N]
    BY <1>2, <1>10 DEF ReadBasicBlock, NewThread, SameFunction
  <2>2. /\ Len(N) = Len(M) /\ \A k \in 1 .. Len(M) - 1 : N[k] = M[k]
        /\ N # <<>>
    <3> DEFINE R == StackFrames \cup {c}
    <3>1. StackFrames \subseteq R /\ c \in R
      OBVIOUS
    <3> HIDE DEF R, c
    <3>2. M \in Seq(R)
      BY <1>2, <3>1, SeqMonotonic
    <3> HIDE DEF M
    <3> QED
      BY <2>1, <3>1, <3>2, SetTopFacts
  <2>3. Bottom(N, mark)
    <3>1. mark[1] = 0
      OBVIOUS
    <3> HIDE DEF N, mark
    <3> QED
      BY <3>1 DEF Bottom
  <2>4. Named(s, N, mark)
    <3> HIDE DEF s, M, first, N
    <3> QED
      BY <1>3, <1>6, <2>2, NamedEntry
  <2> HIDE DEF N, mark
  <2> QED
    BY <1>8, <2>1, <2>2, <2>3, <2>4
<1>11. CASE ~NewThread(t) /\ ~SameFunction(t)
  <2> DEFINE c == StackInfo(event.id, -1, 0)
             N == Append(M, c)
             i == Ins(info.BBID, info.CurIndex - 1)
             mark == <<1, i>>
  <2>1. /\ M # <<>> /\ ~(info.CurIndex >= Size(info.BBID))
        /\ is_first' = [is_first EXCEPT ![t] = mark]
        /\ call_stack' = [call_stack EXCEPT ![t] = N]
    BY <1>2, <1>11 DEF ReadBasicBlock, NewThread, SameFunction
  <2>2. /\ i \in Instructions /\ i = CallerOf(info)
        /\ s # <<>> /\ i = Ins(Last(s).BBID, Last(s).End - 1)
    BY <1>5, <2>1
  <2>3. /\ Len(N) = Len(M) + 1 /\ N # <<>> /\ \A k \in 1 .. Len(M) : N[k] = M[k]
    <3> DEFINE R == StackFrames \cup {c}
    <3>1. StackFrames \subseteq R /\ c \in R
      OBVIOUS
    <3> HIDE DEF R, c
    <3>2. M \in Seq(R)
      BY <1>2, <3>1, SeqMonotonic
    <3> HIDE DEF M
    <3> QED
      BY <3>1, <3>2
  <2>4. Len(M) \in Nat \ {0} /\ info = M[Len(M)]
    BY <1>2, <2>1, TopFacts
  <2>5. Bottom(N, mark)
    <3>1. mark[1] = 1
      OBVIOUS
    <3>2. Len(N) # 1
      <4> HIDE DEF N, M
      <4> QED
        BY <2>3, <2>4
    <3> HIDE DEF N, mark
    <3> QED
      BY <3>1, <3>2 DEF Bottom
  <2>6. Named(s, N, mark)
    <3> HIDE DEF s, M, first, N, i, info
    <3> QED
      BY <1>3, <1>6, <2>2, <2>3, <2>4, NamedPush
  <2> HIDE DEF N, mark
  <2> QED
    BY <1>8, <2>1, <2>3, <2>5, <2>6
<1> QED
  BY <1>9, <1>10, <1>11

(* The while loop.                                                         *)
LEMMA MarksLoop ==
  ASSUME SInv, ReplayInv, MarksInv, Begun', Loop
  PROVE  MarksInv'
<1> DEFINE t == tid_ptr
           M == call_stack[t]
           info == Top(M)
           end == EndIndex(info.BBID, info.CurIndex)
           first == is_first[t]
           s == blocks[t]
           b == SmallestBlock("NormalBlock", info, info.CurIndex, end, first)
           moved == SetTop(M, [info EXCEPT !.CurIndex = end])
<1>1. place = "loop" /\ UNCHANGED <<programVars, event, last_tid, args, tid_ptr>>
  BY DEF Loop
<1>2. t \in Threads /\ Stack(exec[t]) /\ M \in Seq(StackFrames) /\ event = NoEvent
  BY <1>1 DEF SInv, Pointers, Stacks
<1>3. place' \in {"next", "loop"}
  <2>1. failed' = FALSE
    BY LoopKeeps DEF SInv
  <2> QED
    BY <2>1 DEF Loop
<1>4. CASE UNCHANGED <<call_stack, is_first, blocks>>
  BY <1>1, <1>3, <1>4, MarksQuiet
<1>5. CASE M # <<>> /\ end > info.CurIndex
  <2>1. info.CurIndex \in Nat /\ end \in Nat
    <3>1. info \in StackFrames
      BY <1>2, <1>5, TopFacts
    <3> HIDE DEF info
    <3>2. /\ info.BBID \in DOMAIN BB2Ins /\ info.CurIndex \in 0 .. Size(info.BBID)
          /\ Size(info.BBID) \in Nat
      BY <3>1, BlockFacts DEF StackFrames
    <3>3. end \in info.CurIndex .. Size(info.BBID)
      BY <3>2, EndIndexStep
    <3> HIDE DEF end
    <3> QED
      BY <3>2, <3>3
  <2>2. ~(end = info.CurIndex)
    BY <1>5, <2>1
  <2>3. is_first' = [is_first EXCEPT ![t] = <<0, 0>>]
    BY <1>5, <2>2 DEF Loop
  <2>4. /\ b.Start = info.CurIndex /\ b.End = end
        /\ b.IsFirst = first[1] /\ b.Caller = first[2] /\ b.IsLast = 0
    BY DEF SmallestBlock
  <2>5. IsSequence(s) /\ Named(s, M, first) /\ first \in FirstMarks
    BY <1>1, <1>2, ThreadMarks
  <2>6. CASE ~ReturnsAt(info.BBID, end)
    <3>1. /\ call_stack' = [call_stack EXCEPT ![t] = moved] /\ Emits(t, b)
      BY <1>5, <2>2, <2>6 DEF Loop
    <3>2. /\ Len(moved) = Len(M) /\ Len(M) \in Nat \ {0}
          /\ \A k \in 1 .. Len(M) - 1 : moved[k] = M[k]
      <4> DEFINE g == [info EXCEPT !.CurIndex = end]
                 R == StackFrames \cup {g}
      <4>1. StackFrames \subseteq R /\ g \in R
        OBVIOUS
      <4> HIDE DEF R, g
      <4>2. M \in Seq(R)
        BY <1>2, <4>1, SeqMonotonic
      <4> HIDE DEF M
      <4>3. /\ Len(SetTop(M, g)) = Len(M) /\ Len(M) \in Nat \ {0}
            /\ \A k \in 1 .. Len(M) - 1 : SetTop(M, g)[k] = M[k]
        BY <1>5, <4>1, <4>2, SetTopFacts
      <4> QED
        BY <4>3 DEF g
    <3> HIDE DEF moved, b
    <3>3. Named(Append(s, b), moved, <<0, 0>>) /\ Matching(s, b)
      <4> HIDE DEF M, first, s
      <4> QED
        BY <2>4, <2>5, <3>2, NamedMoves
    <3>4. /\ b.IsLast = 2 <=> moved = <<>>
          /\ Len(moved) = Len(M) - Mark(b.IsLast) /\ (moved = <<>> <=> Len(moved) = 0)
      <4>1. moved # <<>> /\ Len(moved) # 0
        BY <3>2
      <4> QED
        BY <2>4, <3>2, <4>1 DEF Mark
    <3> HIDE DEF end, info
    <3> QED
      BY <1>1, <1>2, <1>3, <1>5, <2>1, <2>3, <2>4, <3>1, <3>3, <3>4, MarksEmit
  <2>7. CASE ReturnsAt(info.BBID, end)
    <3> DEFINE N == Pop(M)
               l == LastBlock(b, N)
    <3>1. CallerWaits(N)
      <4>1. failed' = FALSE
        BY LoopKeeps DEF SInv
      <4> QED
        BY <1>5, <2>2, <2>7, <4>1 DEF Loop
    <3>2. call_stack' = [call_stack EXCEPT ![t] = N] /\ Emits(t, l)
      BY <1>5, <2>2, <2>7, <3>1 DEF Loop
    <3>3. /\ Len(N) = Len(M) - 1 /\ Len(M) \in Nat \ {0} /\ \A k \in 1 .. Len(M) - 1 : N[k] = M[k]
          /\ N \in Seq(StackFrames)
      BY <1>2, <1>5, PopFacts
    <3>4. Len(N) = 0 <=> N = <<>>
      <4>1. \A q \in Seq(StackFrames) : Len(q) = 0 <=> q = <<>>
        OBVIOUS
      <4> HIDE DEF N
      <4> QED
        BY <3>3, <4>1
    <3>5. /\ l.Start = info.CurIndex /\ l.End = end /\ l.IsFirst = first[1]
          /\ N = <<>> => l.IsLast = 2 /\ l.Caller = first[2]
          /\ N # <<>> => l.IsLast = 1 /\ l.Caller = CallerOf(Top(N))
      <4> HIDE DEF N, end, info
      <4> QED
        BY DEF LastBlock, SmallestBlock
    <3> HIDE DEF l, b
    <3>6. Named(Append(s, l), N, <<0, 0>>) /\ Matching(s, l)
      <4>1. Top(N) = N[Len(N)]
        BY DEF Top
      <4> HIDE DEF M, first, s, N
      <4> QED
        BY <2>5, <3>3, <3>4, <3>5, <4>1, NamedPops
    <3>7. /\ l.IsLast = 2 <=> N = <<>>
          /\ Len(N) = Len(M) - Mark(l.IsLast)
      <4>1. Mark(l.IsLast) = 1 /\ (l.IsLast = 2 <=> N = <<>>)
        BY <3>5 DEF Mark
      <4> HIDE DEF N
      <4> QED
        BY <3>3, <4>1
    <3> HIDE DEF end, info, N
    <3> QED
      BY <1>1, <1>2, <1>3, <1>5, <2>1, <2>3, <3>2, <3>4, <3>5, <3>6, <3>7, MarksEmit
  <2> QED
    BY <2>6, <2>7
<1> QED
  BY <1>4, <1>5 DEF Loop

(* After the last event.                                                   *)
LEMMA MarksFinish ==
  ASSUME SInv, ReplayInv, MarksInv, Begun', Finish \/ FinishCrash \/ Done \/ \E t \in Threads : FinishFrame(t)
  PROVE  MarksInv'
<1>1. CASE Finish \/ FinishCrash \/ Done
  <2>1. /\ UNCHANGED <<blocks, call_stack, is_first>> /\ place' \in {"finish", "crashed", "done"}
        /\ place' = "done" => Open = {}
    BY <1>1 DEF Finish, FinishCrash, Done
  <2>2. \A t \in Threads : Counts(t)
    BY <1>1 DEF MarksInv, ReplayInv, Counted, Counts, Finish, FinishCrash, Done
  <2>3. \A t \in Threads : Counts(t)'
    BY <2>1, <2>2 DEF Counts
  <2>4. Open' = Open
    BY <2>1 DEF Open
  <2> QED
    BY <2>1, <2>3, <2>4 DEF MarksInv
<1>2. ASSUME NEW t \in Threads, FinishFrame(t) PROVE MarksInv'
  <2> DEFINE M == call_stack[t]
             N == Pop(M)
             info == Top(M)
             s == blocks[t]
             b == [SmallestBlock("NormalBlock", info, info.CurIndex, info.CurIndex, <<0, 0>>)
                    EXCEPT !.LastBBID = LeftLastBBID]
             l == LastBlock(b, N)
             v == Append(s, l)
  <2>1. failed' = FALSE
    BY <1>2, FinishKeeps DEF SInv
  <2>2. /\ place = "finish" /\ place' = "finish" /\ M # <<>> /\ Emits(t, l)
        /\ call_stack' = [call_stack EXCEPT ![t] = N] /\ is_first' = is_first
    BY <1>2, <2>1 DEF FinishFrame, Open
  <2>3. /\ M \in Seq(StackFrames) /\ DOMAIN call_stack = Threads
        /\ IsSequence(s) /\ DOMAIN blocks = Threads /\ Edges(s, M) /\ Matches(s) /\ Counts(t)
    BY <2>2 DEF SInv, Stacks, ReplayInv, Sequences, MarksInv
  <2>4. Len(N) = Len(M) - 1 /\ Len(M) \in Nat \ {0}
    BY <2>2, <2>3, PopFacts
  <2>5. info.CurIndex \in Nat
    <3>1. info \in StackFrames
      BY <2>2, <2>3, TopFacts
    <3> HIDE DEF info
    <3> QED
      BY <3>1 DEF StackFrames
  <2>6. /\ l.Start = info.CurIndex /\ l.End = info.CurIndex /\ l.IsFirst = 0
        /\ l.IsLast = 2 <=> N = <<>>
        /\ l.IsLast \in {1, 2}
    <3> HIDE DEF N, info
    <3> QED
      BY DEF LastBlock, SmallestBlock
  <2> HIDE DEF l, b
  <2>7. /\ blocks'[t] = v /\ call_stack'[t] = N
        /\ \A u \in Threads \ {t} : blocks'[u] = blocks[u] /\ call_stack'[u] = call_stack[u]
    BY <2>2, <2>3 DEF Emits
  <2> HIDE DEF info, N
  <2>8. ~Proper(l)
    BY <2>5, <2>6 DEF Proper
  <2>9. Edges(v, N) /\ Matches(v)
    <3>1. v = Append(s, l)
      OBVIOUS
    <3> HIDE DEF s, M, v
    <3>2. Edges(v, N)
      BY <2>2, <2>3, <2>6, <2>8, <3>1, EdgesMore
    <3> QED
      BY <2>3, <2>8, <3>1, <3>2, MatchesMore
  <2>10. Counts(t)'
    <3> DEFINE n == Len(s)
               o == OpenAfter(s, n)
               m == Mark(is_first[t][1])
    <3>1. /\ n \in Nat /\ Len(v) = n + 1 /\ v[n + 1] = l /\ \A j \in 1 .. n : v[j] = s[j]
      <4>1. v = Append(s, l)
        OBVIOUS
      <4> HIDE DEF v, s
      <4> QED
        BY <2>3, <4>1, OneBlockMore
    <3> HIDE DEF v, n
    <3>2. OpenAfter(v, n) = o /\ o \in Int
      <4> HIDE DEF s
      <4> QED
        BY <3>1, OpenSame, OpenNext
    <3>3. OpenAfter(v, n + 1) = OpenAfter(v, n) + Mark(l.IsFirst) - Mark(l.IsLast)
      BY <3>1, OpenNext
    <3>4. Mark(l.IsFirst) = 0 /\ Mark(l.IsLast) = 1 /\ m \in Int
      BY <2>6 DEF Mark
    <3>5. o + m = Len(M)
      BY <2>3 DEF Counts, n
    <3> HIDE DEF o, m, M, s
    <3>6. OpenAfter(v, Len(v)) + m = Len(N)
      BY <2>4, <3>1, <3>2, <3>3, <3>4, <3>5
    <3> QED
      BY <2>2, <2>7, <3>6 DEF Counts, m
  <2> HIDE DEF v, s, M
  <2>11. \A u \in Threads : /\ Edges(blocks'[u], call_stack'[u]) /\ Matches(blocks'[u])
                            /\ Counts(u)'
    <3> SUFFICES ASSUME NEW u \in Threads
                 PROVE  /\ Edges(blocks'[u], call_stack'[u]) /\ Matches(blocks'[u])
                        /\ Counts(u)'
      OBVIOUS
    <3>1. CASE u = t
      BY <2>7, <2>9, <2>10, <3>1
    <3>2. CASE u # t
      BY <2>2, <2>7, <3>2 DEF MarksInv, Counts
    <3> QED
      BY <3>1, <3>2
  <2> QED
    BY <2>2, <2>11 DEF MarksInv
<1> QED
  BY <1>1, <1>2

(* A step of the program.                                                  *)
LEMMA MarksTrace ==
  ASSUME MarksInv, Begun', Trace
  PROVE  MarksInv'
<1>1. place = "next" /\ UNCHANGED mergeVars
  BY DEF Trace
<1> QED
  BY <1>1, MarksQuiet DEF mergeVars

-----------------------------------------------------------------------------
(* The theorems                                                            *)

(* The marks at first.                                                     *)
LEMMA InitMarks == Init => MarksInv
<1> SUFFICES ASSUME Init PROVE MarksInv
  OBVIOUS
<1>1. /\ exec = [t \in Threads |-> <<>>] /\ executed = [t \in Threads |-> <<>>]
      /\ blocks = [t \in Threads |-> <<>>] /\ call_stack = [t \in Threads |-> <<>>]
      /\ is_first = [t \in Threads |-> <<0, 0>>] /\ place = "next"
  BY DEF Init, ProgramInit
<1>2. /\ \A t \in Threads : /\ exec[t] = <<>> /\ executed[t] = <<>> /\ blocks[t] = <<>>
                            /\ call_stack[t] = <<>> /\ is_first[t] = <<0, 0>>
  BY <1>1
<1>3. Len(<<>>) = 0 /\ 1 .. 0 = {} /\ 2 .. 0 = {} /\ DOMAIN <<>> = {} /\ <<>> \in Seq(Names)
  OBVIOUS
<1>4. Begun
  BY <1>2 DEF Begun, Begins
<1>5. /\ Edges(<<>>, <<>>) /\ Matches(<<>>) /\ Filled(<<>>) /\ Bottom(<<>>, <<0, 0>>)
  BY <1>3 DEF Edges, Matches, Filled, Bottom
<1>6. Named(<<>>, <<>>, <<0, 0>>)
  <2>1. Pending(<<>>, <<0, 0>>) = <<>> /\ Waits(<<>>, <<>>) /\ <<0, 0>>[1] # 1
    BY <1>3 DEF Pending, Waits
  <2> QED
    BY <1>3, <2>1, CallersNone DEF Named
<1> QED
  BY <1>1, <1>2, <1>4, <1>5, <1>6 DEF MarksInv

(* Every step keeps them.                                                  *)
LEMMA NextMarks == ASSUME SInv, ReplayInv, MarksInv, [Next]_vars PROVE MarksInv'
<1>1. CASE Next
  <2>1. Begun'
    BY <1>1, BegunKept DEF MarksInv
  <2> QED
    BY <1>1, <2>1, MarksTrace, MarksOthers, MarksSteps, MarksBlock, MarksLoop, MarksFinish
       DEF Next, Merge
<1>2. CASE UNCHANGED vars
  <2>1. UNCHANGED <<exec, executed, blocks, call_stack, is_first, place>>
    BY <1>2 DEF vars, mergeVars, programVars
  <2>2. Begun'
    BY <2>1 DEF MarksInv, Begun
  <2> QED
    BY <2>1, <2>2, MarksQuiet
<1> QED
  BY <1>1, <1>2

(* The inductive invariant of the marks: the calls that are open in them   *)
(* are those that the frames of MergeTrace wait for, and they count its    *)
(* frames.                                                                 *)
THEOREM MarksInvariance == ~SplitCalls => (Spec => []MarksInv)
<1> SUFFICES ASSUME ~SplitCalls PROVE Spec => []MarksInv
  OBVIOUS
<1>1. SInv /\ ReplayInv /\ MarksInv /\ [Next]_vars => MarksInv'
  BY NextMarks
<1>2. Spec => []SInv
  BY InSync
<1>3. Spec => []ReplayInv
  BY ReplayInvariance
<1> QED
  BY <1>1, <1>2, <1>3, InitMarks, PTL DEF Spec

(* A called function starts right after the call that its first block      *)
(* names, and its last block names the same call, through any recursion    *)
(* and however many functions one event shows to have returned.            *)
THEOREM CallersMatchTheorem == ~SplitCalls => (Spec => []CallersMatch)
<1> SUFFICES ASSUME ~SplitCalls PROVE Spec => []CallersMatch
  OBVIOUS
<1>1. MarksInv => CallersMatch
  BY CallersMatchIs DEF MarksInv
<1> QED
  BY <1>1, MarksInvariance, PTL

(* The depth that the marks give, by the blocks read so far.               *)
LEMMA DepthIs ==
  ASSUME NEW t, NEW k \in Nat
  PROVE  DepthBefore(t, k + 1) = OpenAfter(blocks[t], k)
<1>1. (k + 1) - 1 = k
  OBVIOUS
<1>2. DepthBefore(t, k + 1) = Cardinality({j \in 1 .. (k + 1) - 1 : blocks[t][j].IsFirst # 0})
                              - Cardinality({j \in 1 .. (k + 1) - 1 : blocks[t][j].IsLast # 0})
  BY DEF DepthBefore
<1> QED
  BY <1>1, <1>2 DEF OpenAfter, Firsts, Lasts

(* The marks say where no function is open, and the frames that are left   *)
(* at the end are closed, at most one before it had a first block.         *)
LEMMA AllClosedFollows == SInv /\ ReplayInv /\ MarksInv => AllClosed
<1> SUFFICES ASSUME SInv, ReplayInv, MarksInv, NEW t \in Threads, blocks[t] # <<>>
             PROVE  /\ \A k \in DOMAIN blocks[t] : Proper(blocks[t][k]) =>
                          /\ blocks[t][k].IsFirst = 2 <=> DepthBefore(t, k) = 0
                          /\ blocks[t][k].IsLast = 2 <=> DepthBefore(t, k + 1) = 0
                    /\ place = "done" =>
                          /\ DepthBefore(t, Len(blocks[t]) + 1) \in {-1, 0}
                          /\ \A k \in DOMAIN blocks[t] : ~Proper(blocks[t][k]) =>
                                (blocks[t][k].IsLast = 2 <=> k = Len(blocks[t]))
                          /\ Last(blocks[t]).IsLast = 2
  BY DEF AllClosed
<1> DEFINE s == blocks[t]
           n == Len(s)
<1>1. IsSequence(s) /\ Edges(s, call_stack[t])
  BY DEF ReplayInv, Sequences, MarksInv
<1>2. n \in Nat /\ DOMAIN s = 1 .. n /\ Last(s) = s[n]
  BY <1>1 DEF IsSequence, Last
<1>3. \A k \in Nat : DepthBefore(t, k + 1) = OpenAfter(s, k)
  BY DepthIs
<1>4. ASSUME NEW k \in DOMAIN s, Proper(s[k])
      PROVE  /\ s[k].IsFirst = 2 <=> DepthBefore(t, k) = 0
             /\ s[k].IsLast = 2 <=> DepthBefore(t, k + 1) = 0
  <2>1. EdgesAt(s, k)
    BY <1>1, <1>2, <1>4 DEF Edges
  <2>2. k \in Nat /\ k - 1 \in Nat /\ (k - 1) + 1 = k
    BY <1>2
  <2>3. DepthBefore(t, k + 1) = OpenAfter(s, k) /\ DepthBefore(t, k) = OpenAfter(s, k - 1)
    <3>1. DepthBefore(t, (k - 1) + 1) = OpenAfter(s, k - 1)
      BY <1>3, <2>2
    <3> QED
      BY <1>3, <2>2, <3>1
  <2> HIDE DEF s
  <2> QED
    BY <2>1, <2>3 DEF EdgesAt
<1>5. ASSUME place = "done"
      PROVE  /\ DepthBefore(t, n + 1) \in {-1, 0}
             /\ \A k \in DOMAIN s : ~Proper(s[k]) => (s[k].IsLast = 2 <=> k = n)
             /\ Last(s).IsLast = 2
  <2>1. Counts(t) /\ call_stack[t] = <<>>
    BY <1>5 DEF MarksInv, Open
  <2>2. s[n].IsLast = 2
    BY <1>1, <2>1 DEF Edges
  <2>3. \A k \in DOMAIN s : ~Proper(s[k]) => (s[k].IsLast = 2 <=> k = n)
    BY <1>1, <1>2, <2>2 DEF Edges
  <2>4. OpenAfter(s, n) + Mark(is_first[t][1]) = 0
    BY <2>1 DEF Counts
  <2>5. OpenAfter(s, n) \in Int /\ Mark(is_first[t][1]) \in {0, 1}
    BY <1>2, OpenNext DEF Mark
  <2> HIDE DEF s, n
  <2>6. OpenAfter(s, n) \in {-1, 0}
    BY <2>4, <2>5
  <2> QED
    BY <1>2, <1>3, <2>2, <2>3, <2>6
<1> QED
  BY <1>4, <1>5

(* Whatever functions run at the bottom of a thread, constructors and      *)
(* destructors with main, the marks say where none is open; and a trace    *)
(* that stops anywhere, deep in calls or not, leaves no frame of any       *)
(* thread open.                                                            *)
THEOREM AllClosedTheorem == ~SplitCalls => (Spec => []AllClosed)
<1> SUFFICES ASSUME ~SplitCalls PROVE Spec => []AllClosed
  OBVIOUS
<1>1. Spec => []SInv
  BY InSync
<1>2. Spec => []ReplayInv
  BY ReplayInvariance
<1> QED
  BY <1>1, <1>2, MarksInvariance, AllClosedFollows, PTL
=============================================================================
