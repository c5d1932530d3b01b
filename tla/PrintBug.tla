------------------------------ MODULE PrintBug ------------------------------
(***************************************************************************)
(* print-bug (main of tools/PrintBug/PrintBug.cpp): MergeTrace,            *)
(* GroupMemory and ExtractMemoryDependency as in MemoryDependency, then    *)
(* PreparePostDominator, then ExtractUneededOperation, which reads the     *)
(* blocks backwards and reports the dynamic instructions that nothing      *)
(* needs, and PrintBug, which clusters them.                               *)
(*                                                                         *)
(* A block has these fields besides those of GroupMemory: its basic block  *)
(* bb, the one executed before it, lastbb, and the IsLast mark, last.  The *)
(* three stacks of a thread are pushed and popped together and are one     *)
(* stack of frames here.                                                   *)
(***************************************************************************)
EXTENDS MemoryDependency, PostDominator

CONSTANTS
    BBGraph,          \* the graph of the basic blocks, see PostDominator
    BB2Ins,           \* basic block -> its instructions, in order
    PhiDependencies,  \* instruction -> its <<basic block, kind, number>>
    TerminatorInst, ReturnInst, ReturnVoid, OneSuccessor, \* sets of instructions
    Ignorable         \* calls of free, va_start and va_end

(* Every basic block in the file has a successor. *)
ASSUME GraphAssumption ==
    /\ IsFiniteSet(DOMAIN BBGraph) /\ DOMAIN BBGraph \subseteq Nat
    /\ \A i \in DOMAIN BBGraph :
          BBGraph[i] # {} /\ IsFiniteSet(BBGraph[i]) /\ BBGraph[i] \subseteq Nat

(* The continue skips what is done at the first block of a function. *)
Skipped(b) == b.type = "ExternalCall" /\ b.ins \in Ignorable

(* The instructions are the lines of the inst file; one that accesses      *)
(* memory or calls an external function has blocks of its own, and any     *)
(* other runs at most once in a block.                                     *)
ASSUME InstructionAssumption ==
    /\ IsFiniteSet(DOMAIN SSADependencies) /\ DOMAIN SSADependencies \subseteq Nat
    /\ \A bb \in DOMAIN BB2Ins : BB2Ins[bb] \in Seq(DOMAIN SSADependencies)
    /\ \A b \in Blocks : b.type # "Declare" =>
          /\ b.bb \in DOMAIN BB2Ins /\ b.first \in 0 .. 2 /\ b.last \in 0 .. 2
          /\ IF b.type = "Normal" THEN IsInjective(b.code) ELSE b.code = <<b.ins>>
          /\ \A c \in Blocks : (c.type # "Declare" /\ b.type # "Normal" /\ b.ins \in ToSet(c.code)) =>
                c.type # "Normal" /\ (Skipped(b) <=> Skipped(c))

VARIABLES
    slice,      \* the variables of ExtractUneededOperation
    printed,    \* the instructions that are in a report
    reports     \* the reports, each the set of its instructions

sliceVars == <<slice, printed, reports>>
mainVars == <<vars, dominatorVars, sliceVars>>

NoInst == DynamicInst(0, 0, 0)

(* at, the number of blocks not yet read, is the loop variable; kept is a  *)
(* history of the calls of OneInstruction: the instruction, at, and if it  *)
(* was OneBlock that called.                                               *)
NoSlice ==
    [at |-> 0, inst_count |-> <<>>, needed |-> {}, mem_depended |-> {},
     frames |-> [t \in Tids |-> <<>>], this_bb_used |-> FALSE,
     unneeded_di |-> {}, Addr2Unneded |-> {}, kept |-> {}]

MainInit ==
    /\ Init
    /\ Prepare(BBGraph)
    /\ slice = NoSlice /\ printed = {} /\ reports = {}

-----------------------------------------------------------------------------
(* One needed instruction, and the terminator of a used basic block.       *)

Cnt(u, tid, ins) ==
    IF <<tid, ins>> \in DOMAIN u.inst_count THEN u.inst_count[<<tid, ins>>] ELSE 0

(* Mutation of CountIns: the second and later executions are not counted. *)
CountInsOnce(u, tid, ins) == [u EXCEPT !.inst_count = With(@, <<tid, ins>>, 1)]

CountIns(u, tid, ins) ==
    [u EXCEPT !.inst_count = With(@, <<tid, ins>>, Cnt(u, tid, ins) + 1)]

Current(u, tid, ins) == DynamicInst(tid, ins, -Cnt(u, tid, ins))

SSANeeds(d) == {<<d.TID, dep[2]>> : dep \in {x \in ToSet(SSADependencies[d.ID]) : x[1] = "Inst"}}

PhiNeeds(d, last_bb_id) ==
    {<<d.TID, phi[3]>> : phi \in
        {x \in ToSet(PhiDependencies[d.ID]) : x[1] = last_bb_id /\ x[2] = "Inst"}}

(* Mutations of MemNeeds: the dependencies are looked up one execution     *)
(* off, and every execution of the instruction that wrote is needed.       *)
MemNeedsNext(d) == {p[2] : p \in {x \in mem_dep : x[1] = [d EXCEPT !.Cnt = @ - 1]}}
MemNeedsAll(d) ==
    {[x[1][2] EXCEPT !.Cnt = x[2]] : x \in {p \in mem_dep : p[1] = d} \X (-3 .. 0)}

MemNeeds(d) == {p[2] : p \in {x \in mem_dep : x[1] = d}}

OneInstruction(u, d, last_bb_id, late) ==
    [u EXCEPT !.needed = (@ \ {<<d.TID, d.ID>>}) \cup SSANeeds(d) \cup PhiNeeds(d, last_bb_id),
              !.mem_depended = (@ \ {d}) \cup MemNeeds(d),
              !.kept = @ \cup {[inst |-> d, at |-> u.at, late |-> late]}]

Needs(u, d) == <<d.TID, d.ID>> \in u.needed \/ d \in u.mem_depended

(* The instructions of code, the last one first. *)
FromLast(code, Step(_, _), u) ==
    LET after[k \in 0 .. Len(code)] ==
            IF k = 0 THEN u ELSE Step(after[k - 1], code[Len(code) - k + 1])
    IN  after[Len(code)]

Late(u, b, d) == [OneInstruction(u, d, b.lastbb, TRUE) EXCEPT !.unneeded_di = @ \ {d}]

(* Mutation of OneBlock: what is found to be needed is not added to needed. *)
OneBlockForgets(u, d, b, bb) == [Late(u, b, d) EXCEPT !.needed = u.needed]

(* The terminator d of basic block bb turns out to be needed when bb has   *)
(* been read: the instructions of bb are gone through once more.  b is the *)
(* first block of bb if that is where a function starts, and otherwise the *)
(* block before.                                                           *)
OneBlock(u, d, b, bb) ==
    LET diff == d.Cnt + Cnt(u, b.tid, d.ID)
        Again(x, ins) ==
            LET e == DynamicInst(b.tid, ins, diff - Cnt(u, b.tid, ins)) IN
            IF Needs(x, e) THEN Late(x, b, e) ELSE x
        all == FromLast(BB2Ins[bb], Again, Late([u EXCEPT !.needed = {}], b, d))
    IN  [all EXCEPT !.needed = u.needed \cup @]

-----------------------------------------------------------------------------
(* The frames of a thread: fun_used, next_bb_used and terminator_stack.    *)

Frame(bb) == [used |-> FALSE, bb |-> bb, bb_used |-> FALSE,
              terminator |-> NoInst, settled |-> TRUE]

Top(u, b) == Last(u.frames[b.tid])
SetTop(u, b, frame) == [u EXCEPT !.frames[b.tid] = Append(Front(@), frame)]

SettleTerminator(u, b, bb) ==
    IF Top(u, b).settled THEN u ELSE OneBlock(u, Top(u, b).terminator, b, bb)

(* The end of a function, or of the basic block that is executed after b. *)
EnterBlock(u, b) ==
    IF b.last > 0 THEN [u EXCEPT !.frames[b.tid] = Append(@, Frame(b.bb))]
    ELSE IF u.frames[b.tid] # <<>> /\ Top(u, b).bb # b.bb /\ Top(u, b).bb_used
    THEN LET settled == SettleTerminator(u, b, Top(u, b).bb) IN
         SetTop(settled, b, [Top(u, b) EXCEPT !.terminator = NoInst, !.settled = TRUE])
    ELSE u

Use(u, b, is_needed) ==
    [SetTop(u, b, [Top(u, b) EXCEPT !.used = @ \/ is_needed])
        EXCEPT !.this_bb_used = @ \/ is_needed]

LeaveBlock(u, b) ==
    LET top == Top(u, b) IN
    [SetTop(u, b, [top EXCEPT !.bb = b.bb,
                              !.bb_used = u.this_bb_used \/ (top.bb = b.bb /\ @)])
        EXCEPT !.this_bb_used = FALSE]

(* Mutation of StartOfFunction: the call of a used function is not needed. *)
StartOfFunctionAlone(u, b) ==
    IF b.first = 0 THEN u
    ELSE LET settled == IF Top(u, b).bb_used THEN SettleTerminator(u, b, b.bb) ELSE u
         IN  [settled EXCEPT !.frames[b.tid] = Front(@)]

StartOfFunction(u, b) ==
    IF b.first = 0 THEN u
    ELSE LET called == b.first = 1 /\ b.caller # -1 /\ Top(u, b).used
             u1 == IF called THEN [u EXCEPT !.needed = @ \cup {<<b.tid, b.caller>>}] ELSE u
             u2 == IF Top(u, b).bb_used THEN SettleTerminator(u1, b, b.bb) ELSE u1
         IN  [u2 EXCEPT !.frames[b.tid] = Front(@)]

-----------------------------------------------------------------------------
(* The blocks, from the last one backwards.                                *)

SliceBlock(b, types) ==
    /\ phase = "ExtractUneededOperation"
    /\ slice.at > 0 /\ b = block_trace[slice.at] /\ b.type \in types
    /\ UNCHANGED <<vars, dominatorVars, printed, reports>>

(* What is done to the instructions of the block, between its two ends. *)
Sliced(b, body(_)) ==
    slice' = [StartOfFunction(LeaveBlock(body(EnterBlock(slice, b)), b), b) EXCEPT !.at = @ - 1]

SliceDeclare(b) ==
    /\ SliceBlock(b, {"Declare"})
    /\ slice' = [slice EXCEPT !.at = @ - 1]

SliceIgnorable(b) ==
    /\ SliceBlock(b, {"ExternalCall"}) /\ Skipped(b)
    /\ slice' = [EnterBlock(slice, b) EXCEPT !.at = @ - 1]

SliceImpactful(b) ==
    /\ SliceBlock(b, {"ImpactfulCall"})
    /\ Sliced(b, LAMBDA u :
           CountIns(Use(OneInstruction(u, Current(u, b.tid, b.ins), b.lastbb, FALSE), b, TRUE),
                    b.tid, b.ins))

SliceAccess(b) ==
    /\ SliceBlock(b, Accesses \cup {"ExternalCall"}) /\ ~Skipped(b)
    /\ Sliced(b, LAMBDA u :
           LET d == Current(u, b.tid, b.ins)
               address == IF b.type \in Accesses \ {"Memset", "Memmove"} /\ Efficacious(b)
                          THEN {<<b.start, b.ins>>} ELSE {}
               u1 == IF Needs(u, d) THEN OneInstruction(u, d, b.lastbb, FALSE)
                     ELSE [u EXCEPT !.unneeded_di = @ \cup {d},
                                    !.Addr2Unneded = @ \cup address]
           IN  CountIns(Use(u1, b, Needs(u, d)), b.tid, b.ins))

PostDominators(bb) == IF bb \in DOMAIN post_dominator THEN post_dominator[bb] ELSE {}

(* Mutation of Wanted: the condition of a branch is not needed by what is  *)
(* executed because of it.                                                 *)
WantedBranchless(u, b, ins) ==
    \/ <<b.tid, ins>> \in u.needed
    \/ ins \in ReturnInst /\ (ins \in ReturnVoid \/ b.last = 2)
    \/ ins \in ReturnInst /\ b.last = 1 /\ <<b.tid, b.caller>> \in u.needed

Wanted(u, b, ins) ==
    \/ <<b.tid, ins>> \in u.needed
    \/ ins \in TerminatorInst /\ Top(u, b).bb \notin PostDominators(b.bb) /\ Top(u, b).bb_used
    \/ ins \in ReturnInst /\ (ins \in ReturnVoid \/ b.last = 2)
    \/ ins \in ReturnInst /\ b.last = 1 /\ <<b.tid, b.caller>> \in u.needed

NormalInst(u, b, ins) ==
    LET d == Current(u, b.tid, ins)
        is_needed == Wanted(u, b, ins)
        u1 == IF ins \in TerminatorInst
              THEN SetTop(u, b, [Top(u, b) EXCEPT !.terminator = d, !.settled = is_needed]) ELSE u
        u2 == IF is_needed THEN OneInstruction(u1, d, b.lastbb, FALSE)
              ELSE IF ins \in TerminatorInst \cap OneSuccessor THEN u1
              ELSE [u1 EXCEPT !.unneeded_di = @ \cup {d}]
    IN  CountIns(Use(u2, b, is_needed), b.tid, ins)

SliceNormal(b) ==
    /\ SliceBlock(b, {"Normal"})
    /\ Sliced(b, LAMBDA u : FromLast(b.code, LAMBDA x, ins : NormalInst(x, b, ins), u))

Slice ==
    /\ slice.at > 0
    /\ LET b == block_trace[slice.at] IN
       \/ SliceDeclare(b) \/ SliceIgnorable(b)
       \/ SliceImpactful(b) \/ SliceAccess(b) \/ SliceNormal(b)

-----------------------------------------------------------------------------
(* PrintBug: the instructions that have an unneeded execution are the      *)
(* nodes of a graph, and each connected component is a report.             *)

UneededIns == {d.ID : d \in slice.unneeded_di}

(* The edges of uneeded_graph.  The operand is taken to have been executed *)
(* as often as the instruction; the instructions of one address are        *)
(* joined, also those that have become needed since.                       *)
UneededPairs ==
    LET SSA(d) == {n[2] : n \in {m \in SSANeeds(d) :
                     DynamicInst(d.TID, m[2], d.Cnt) \in slice.unneeded_di}}
        Memory(d) == {e.ID : e \in MemNeeds(d) \cap slice.unneeded_di}
    IN  (UNION {{d.ID} \X (SSA(d) \cup Memory(d)) : d \in slice.unneeded_di}) \cup
        {<<z[1][2], z[2][2]>> : z \in
            {z \in slice.Addr2Unneded \X slice.Addr2Unneded : z[1][1] = z[2][1]}}

UneededNodes == UneededIns \cup {x[2] : x \in slice.Addr2Unneded}

(* Mutation of UneededGraph: the edges go one way only. *)
UneededGraphOneWay == [i \in UneededNodes |-> {j \in UneededNodes : <<i, j>> \in UneededPairs}]

UneededGraph ==
    [i \in UneededNodes |->
        {j \in UneededNodes : <<i, j>> \in UneededPairs \/ <<j, i>> \in UneededPairs}]

BFSOnUneededGraph(i) == Reach(UneededGraph, {i}, printed)

Report ==
    /\ phase = "PrintBug" /\ UneededIns \ printed # {}
    /\ LET bug == BFSOnUneededGraph(Min(UneededIns \ printed)) IN
       reports' = reports \cup {bug} /\ printed' = printed \cup bug
    /\ UNCHANGED <<vars, dominatorVars, slice>>

-----------------------------------------------------------------------------
(* main *)

NextPhase(from, to) ==
    /\ phase = from /\ phase' = to
    /\ UNCHANGED <<block_trace, groupVars, dependVars, dominatorVars, printed, reports>>

Dominate ==
    /\ phase = "PreparePostDominator"
    /\ StartSweeps \/ Sweep
    /\ UNCHANGED <<vars, sliceVars>>

StartSlice ==
    /\ NextPhase("PreparePostDominator", "ExtractUneededOperation") /\ ~changed
    /\ slice' = [slice EXCEPT !.at = Len(block_trace)]

StartReport ==
    /\ NextPhase("ExtractUneededOperation", "PrintBug") /\ slice.at = 0
    /\ UNCHANGED slice

Exit ==
    /\ NextPhase("PrintBug", "exit") /\ UneededIns \subseteq printed
    /\ UNCHANGED slice

MainNext ==
    \/ Next /\ UNCHANGED <<dominatorVars, sliceVars>>
    \/ Dominate \/ StartSlice \/ Slice \/ StartReport \/ Report \/ Exit

MainSpec == MainInit /\ [][MainNext]_mainVars

-----------------------------------------------------------------------------
(* The blocks of thread t from i to j in the trace s that start, or end, a *)
(* function.                                                               *)
FirstBlocks(s, t, i, j) ==
    {k \in i .. j : s[k].tid = t /\ s[k].type # "Declare" /\ s[k].first > 0}
LastBlocks(s, t, i, j) ==
    {k \in i .. j : s[k].tid = t /\ s[k].type # "Declare" /\ s[k].last > 0}

(* The marks of MergeTrace: from the end of the trace to any block, more   *)
(* functions of its thread are entered by their last block than are left   *)
(* by their first, see AllClosed in MergeTrace.                            *)
Framed(s) ==
    \A k \in DOMAIN s : s[k].type # "Declare" =>
        Cardinality(FirstBlocks(s, s[k].tid, k + 1, Len(s)))
            < Cardinality(LastBlocks(s, s[k].tid, k, Len(s)))

(* The instances of instructions in the trace, as <<position, instruction>>. *)

Instances ==
    {x \in (DOMAIN block_trace) \X UNION {ToSet(b.code) : b \in ToSet(block_trace)} :
        block_trace[x[1]].type # "Declare" /\ x[2] \in ToSet(block_trace[x[1]].code)}

InstanceOf(k, ins) ==
    LET t == block_trace[k].tid IN
    DynamicInst(t, ins, -Cardinality({j \in k + 1 .. Len(block_trace) :
                             block_trace[j].tid = t /\ <<j, ins>> \in Instances}))

(* The execution of an operand that the value comes from: the last one of  *)
(* the thread, as long as no function is entered recursively.              *)
LastExecution(k, ins, operand) ==
    LET code == block_trace[k].code
        js == {x \in Instances :
                  /\ x[2] = operand /\ block_trace[x[1]].tid = block_trace[k].tid
                  /\ \/ x[1] < k
                     \/ x[1] = k /\ \E m, n \in DOMAIN code :
                                       m < n /\ code[m] = operand /\ code[n] = ins}
    IN  {x \in js : \A y \in js : y[1] <= x[1]}

Operands(k, ins) ==
    UNION {LastExecution(k, ins, dep[2]) : dep \in
              {x \in ToSet(SSADependencies[ins]) : x[1] = "Inst"}}

Incoming(k, ins) ==
    UNION {LastExecution(k, ins, phi[3]) : phi \in
              {x \in ToSet(PhiDependencies[ins]) : x[1] = block_trace[k].lastbb /\ x[2] = "Inst"}}

(* The blocks whose writes block k reads, from the definition of the       *)
(* accesses in MemoryDependency.                                           *)
Written(k) == {<<j, block_trace[j].ins>> : j \in {x[2] : x \in {y \in Depends : y[1] = k}}}

Sources(k, ins) ==
    Operands(k, ins) \cup Incoming(k, ins) \cup
    (IF block_trace[k].type = "Normal" THEN {} ELSE Written(k))

Reported(x) == InstanceOf(x[1], x[2]) \in slice.unneeded_di
SliceDone == phase = "PrintBug"

-----------------------------------------------------------------------------
(* Properties *)

OpenFrames(t) ==
    LET n == Len(block_trace) IN
    Cardinality(LastBlocks(block_trace, t, slice.at + 1, n)) -
        Cardinality({k \in FirstBlocks(block_trace, t, slice.at + 1, n) : ~Skipped(block_trace[k])})

(* The stacks of a thread are as deep as the functions that have been      *)
(* entered from their end and not left at their start, except that an      *)
(* ignorable call that starts a function leaves its frame behind, and each *)
(* count is the number of executions read.                                 *)
MainTypeOK ==
    phase = "ExtractUneededOperation" =>
        /\ \A t \in Tids : Len(slice.frames[t]) = OpenFrames(t)
        /\ ~slice.this_bb_used
        /\ \A x \in Instances :
              (x[1] = slice.at + 1 /\ ~Skipped(block_trace[x[1]])) =>
                  Current(slice, block_trace[x[1]].tid, x[2]).Cnt = InstanceOf(x[1], x[2]).Cnt - 1

(* What an instruction that is found to be needed takes its values from is *)
(* not reported: operands, incoming values of phi nodes and the last       *)
(* writes of the memory it reads, by any thread.                           *)
DependenciesKept ==
    SliceDone => \A x \in Instances : \A h \in slice.kept :
        (h.inst = InstanceOf(x[1], x[2]) /\ ~h.late) =>
            \A y \in Sources(x[1], x[2]) : ~Reported(y)

(* If it is found late, by OneBlock, this holds of the operands and writes *)
(* that are still to be read.                                              *)
LateDependenciesKept ==
    SliceDone => \A x \in Instances : \A h \in slice.kept :
        (h.inst = InstanceOf(x[1], x[2]) /\ h.late) =>
            \A y \in Sources(x[1], x[2]) :
                (y[1] < h.at /\ y \notin Incoming(x[1], x[2])) => ~Reported(y)

(* An ignorable call that starts a function leaves its frame behind.       *)
Leaves(t, i, j) == \E k \in FirstBlocks(block_trace, t, i, j) : Skipped(block_trace[k])

Computes(ins) == ins \notin TerminatorInst \cup ReturnInst \cup CallInst

(* An access or a computation that is not reported is used later by one    *)
(* that is not reported either, or it is a call with an effect outside.    *)
KeptForAReason ==
    SliceDone => \A x \in Instances :
        (/\ Computes(x[2]) /\ ~Reported(x)
         /\ block_trace[x[1]].type # "ImpactfulCall" /\ ~Skipped(block_trace[x[1]]))
        => \E y \in Instances :
              /\ ~Reported(y) /\ y[1] >= x[1]
              /\ \/ x \in Sources(y[1], y[2])
                 \/ \E phi \in ToSet(PhiDependencies[y[2]]) : phi[3] = x[2]

(* The branch that led to a basic block is not reported when an            *)
(* instruction of that visit of the basic block is found to be needed,     *)
(* unless no path could have got round it, or a function in between left   *)
(* its frame behind.                                                       *)
BranchesKept ==
    SliceDone => \A x \in Instances :
        LET t == block_trace[x[1]].tid
            bb == block_trace[x[1]].bb
            own == {j \in DOMAIN block_trace : block_trace[j].tid = t}
            lead == {j \in own : /\ j < x[1]
                                 /\ ToSet(block_trace[j].code) \cap TerminatorInst # {}
                                 /\ block_trace[j].bb = block_trace[x[1]].lastbb
                                 /\ \A i \in own : j < i /\ i < x[1] =>
                                       block_trace[i].bb # block_trace[j].bb}
        IN  \A h \in slice.kept, j \in lead :
              (/\ h.inst = InstanceOf(x[1], x[2]) /\ ~h.late
               /\ bb \notin Unavoidable(block_trace[j].bb) /\ ~Leaves(t, j, x[1]))
              => \A ins \in ToSet(block_trace[j].code) \cap TerminatorInst : ~Reported(<<j, ins>>)

(* The blocks of the function that starts at block f, in that execution of *)
(* it: since f more functions have started than ended, and one more.       *)
Body(f) ==
    LET t == block_trace[f].tid
        Started(j) == Cardinality(FirstBlocks(block_trace, t, f, j))
        Ended(j) == Cardinality(LastBlocks(block_trace, t, f, j))
    IN  {j \in f .. Len(block_trace) :
            /\ block_trace[j].tid = t /\ Started(j) = Ended(j - 1) + 1
            /\ \A i \in f .. j - 1 : Started(i) > Ended(i)}

(* The call of a function is needed if an instruction of the function is   *)
(* found to be needed, unless the function or one that it calls before     *)
(* left its frame behind.                                                  *)
CallsKept ==
    SliceDone => \A f \in DOMAIN block_trace :
        LET b == block_trace[f] IN
        (/\ b.type # "Declare" /\ b.first = 1 /\ b.caller # -1
         /\ \E h \in slice.kept : ~h.late /\ \E j \in Body(f) : \E ins \in ToSet(block_trace[j].code) :
                <<j, ins>> \in Instances /\ h.inst = InstanceOf(j, ins) /\ ~Leaves(b.tid, f, j))
        => \A x \in LastExecution(f, b.caller, b.caller) : ~Reported(x)

(* Every unneeded execution is in one report, and in the report of those   *)
(* unneeded executions that it reads the memory of.                        *)
ReportsMatch ==
    phase = "exit" =>
        /\ UneededIns \subseteq UNION reports
        /\ \A r, s \in reports : r = s \/ r \cap s = {}
        /\ \A d \in slice.unneeded_di : \A e \in MemNeeds(d) \cap slice.unneeded_di :
              \E r \in reports : {d.ID, e.ID} \subseteq r

(* "if it is marked as needed by former iterated dynamic instructions,     *)
(* mark all the dependency of it as needed" (doc/Analyzing.md): what an    *)
(* instruction that is found to be needed depends on is not reported.      *)
ReportSound ==
    SliceDone => \A x \in Instances :
        (\E h \in slice.kept : h.inst = InstanceOf(x[1], x[2])) =>
            \A y \in Sources(x[1], x[2]) : ~Reported(y)
=============================================================================
