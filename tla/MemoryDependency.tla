-------------------------- MODULE MemoryDependency --------------------------
(***************************************************************************)
(* ExtractMemoryDependency (tools/PrintBug/ExtractMemoryDependency.cpp),   *)
(* run as main of print-bug runs it: on the trace that MergeTrace returns, *)
(* after GroupMemory.  The blocks are read in order, last_store maps each  *)
(* address to the dynamic instruction that wrote it last, and every read   *)
(* depends on the instructions it finds there.  At the end the executions  *)
(* of an instruction are renumbered from the last one, 0, downwards, as    *)
(* the backward pass over the trace counts them.                           *)
(***************************************************************************)
EXTENDS GroupMemory

CONSTANTS
    Blocks,          \* the blocks that MergeTrace can return
    NextBlocks(_)    \* those that may follow a trace, none at its end

(* Threads and instructions are in the inst file, and no address is beyond *)
(* the right end of the tree.                                              *)
ASSUME BlockAssumption ==
    \A b \in Blocks :
        /\ b.tid \in Tids
        /\ b.type \in Accesses \cup {"Declare", "Normal", "ExternalCall", "ImpactfulCall"}
        /\ b.ins \in DOMAIN SSADependencies /\ b.code \in Seq(DOMAIN SSADependencies)
        /\ b.start \in 0 .. MAX_RANGE /\ b.end \in 0 .. MAX_RANGE
        /\ b.type = "Memmove" => b.source \in Nat /\ SourceEnd(b) <= MAX_RANGE
        /\ b.args \in Seq(Addresses)

ASSUME NoWriterAssumption ==
    NoValue \notin [TID : Tids, ID : DOMAIN SSADependencies, Cnt : Int]

VARIABLES
    phase,        \* the pass that is running, in the order of main
    read,         \* how many blocks this pass has read
    last_store,   \* address -> the dynamic instruction that wrote it last
    ins_count,    \* <<thread, instruction>> -> how often it has been executed
    found,        \* _mem_dep: the pairs <<reader, writer>>, counted forwards
    mem_dep       \* the same pairs renumbered from the end

dependVars == <<read, last_store, ins_count, found, mem_dep>>
vars == <<block_trace, groupVars, phase, dependVars>>

I(b) == <<b.tid, b.ins>>
DynamicInst(tid, ins, cnt) == [TID |-> tid, ID |-> ins, Cnt |-> cnt]

Init ==
    /\ block_trace = <<>> /\ GroupInit
    /\ phase = "MergeTrace"
    /\ read = 0
    /\ last_store = NewTree
    /\ ins_count = <<>> /\ found = {} /\ mem_dep = {}

Following == Blocks \cap NextBlocks(block_trace)

(* MergeTrace returns one block after the other. *)
Merge ==
    /\ phase = "MergeTrace"
    /\ \E b \in Following : block_trace' = Append(block_trace, b)
    /\ left' = Len(block_trace')
    /\ UNCHANGED <<groups, crashed, phase, dependVars>>

StartGroup ==
    /\ phase = "MergeTrace" /\ Following = {}
    /\ phase' = "GroupMemory"
    /\ UNCHANGED <<block_trace, groupVars, dependVars>>

Group ==
    /\ phase = "GroupMemory"
    /\ GroupNext
    /\ UNCHANGED <<phase, dependVars>>

StartDepend ==
    /\ phase = "GroupMemory" /\ left = 0 /\ ~crashed
    /\ phase' = "ExtractMemoryDependency"
    /\ UNCHANGED <<block_trace, groupVars, dependVars>>

Executed(i) == IF i \in DOMAIN ins_count THEN ins_count[i] ELSE 0

(* The dynamic instruction of the block that is read. *)
Inst(b) == DynamicInst(b.tid, b.ins, Executed(I(b)))

(* Obtaining all the last writes of a range. *)
LastWrites(store, me, l, r) ==
    {<<me, s.value>> : s \in {x \in ToSet(Collect(store, l, r)) : IsCovered(x)}}

ReadBlock(b) ==
    /\ phase = "ExtractMemoryDependency"
    /\ read < Len(block_trace) /\ b = block_trace[read + 1]
    /\ read' = read + 1
    /\ UNCHANGED <<block_trace, groupVars, phase, mem_dep>>

(* A block that accesses memory or calls is one execution of an instruction. *)
Count(b) ==
    /\ ReadBlock(b)
    /\ ins_count' = With(ins_count, I(b), Executed(I(b)) + 1)

NoAccess(b) ==
    /\ b.type \in {"Normal", "Declare"}
    /\ ReadBlock(b)
    /\ UNCHANGED <<last_store, ins_count, found>>

(* A write of the value that is there already, and an alloca or an atomic  *)
(* operation: the test for AtomicInst stands inside the branch of LoadInst. *)
Ignored(b) ==
    \/ b.type \in {"StoreInst", "LoadInst", "Memset", "Memmove"} /\ ~Efficacious(b)
    \/ b.type \in {"AllocaInst", "AtomicInst"}

Skip(b) ==
    /\ Ignored(b)
    /\ Count(b)
    /\ UNCHANGED <<last_store, found>>

Store(b) ==
    /\ b.type \in {"StoreInst", "Memset"} /\ Efficacious(b)
    /\ Count(b)
    /\ last_store' = Set(last_store, b.start, b.end, Inst(b))
    /\ UNCHANGED found

Load(b) ==
    /\ b.type = "LoadInst" /\ Efficacious(b)
    /\ Count(b)
    /\ found' = found \cup LastWrites(last_store, Inst(b), b.start, b.end)
    /\ UNCHANGED last_store

(* Mutation of Memmove: the write is recorded before the source is read. *)
MemmoveStoresFirst(b) ==
    /\ b.type = "Memmove" /\ Efficacious(b)
    /\ Count(b)
    /\ last_store' = Set(last_store, b.start, b.end, Inst(b))
    /\ found' = found \cup LastWrites(last_store', Inst(b), b.source, SourceEnd(b))

Memmove(b) ==
    /\ b.type = "Memmove" /\ Efficacious(b)
    /\ Count(b)
    /\ found' = found \cup LastWrites(last_store, Inst(b), b.source, SourceEnd(b))
    /\ last_store' = Set(last_store, b.start, b.end, Inst(b))

(* What an instruction that reads and writes a segment of its group does   *)
(* to last_store and to the dependencies.                                  *)
AccessSegment(m, s, me) ==
    [store |-> Set(m.store, s.left, s.right, me),
     dep |-> m.dep \cup LastWrites(m.store, me, s.left, s.right)]

AccessSegments(m, segments, me) ==
    LET after[k \in 0 .. Len(segments)] ==
            IF k = 0 THEN m
            ELSE IF ~IsCovered(segments[k]) THEN after[k - 1]
            ELSE AccessSegment(after[k - 1], segments[k], me)
    IN  after[Len(segments)]

AccessGroup(m, arg, me) ==
    IF GroupOf(arg) = NoValue THEN m
    ELSE AccessSegments(m, Collect(groups.Group2Addr[GroupOf(arg)], 0, MAX_RANGE), me)

(* An external call is assumed to access all addresses of the groups of    *)
(* its arguments, one argument and one segment after the other.            *)
ExternalCall(b) ==
    /\ IsCall(b)
    /\ Count(b)
    /\ LET after[k \in 0 .. Len(b.args)] ==
               IF k = 0 THEN [store |-> last_store, dep |-> found]
               ELSE AccessGroup(after[k - 1], b.args[k], Inst(b))
           m == after[Len(b.args)]
       IN  last_store' = m.store /\ found' = m.dep

(* Mutation of Renumber: the last execution is number -1. *)
RenumberOffByOne(d) == [d EXCEPT !.Cnt = @ - ins_count[<<d.TID, d.ID>>]]

Renumber(d) == [d EXCEPT !.Cnt = @ - (ins_count[<<d.TID, d.ID>>] - 1)]

Finish ==
    /\ phase = "ExtractMemoryDependency" /\ read = Len(block_trace)
    /\ phase' = "PreparePostDominator"
    /\ mem_dep' = {<<Renumber(p[1]), Renumber(p[2])>> : p \in found}
    /\ UNCHANGED <<block_trace, groupVars, read, last_store, ins_count, found>>

Depend ==
    /\ read < Len(block_trace)
    /\ LET b == block_trace[read + 1] IN
       NoAccess(b) \/ Skip(b) \/ Store(b) \/ Load(b) \/ Memmove(b) \/ ExternalCall(b)

Next == Merge \/ StartGroup \/ Group \/ StartDepend \/ Depend \/ Finish

Spec == Init /\ [][Next]_vars

-----------------------------------------------------------------------------
(* What the dependencies are, address by address, with no tree.  An atomic *)
(* operation is given no access here, see AtomicIsStore.                   *)

trace == SubSeq(block_trace, 1, read)
Bytes(l, r) == {a \in Addresses : l <= a /\ a < r}
GroupsOf(b) == {a \in Addresses : \E arg \in ToSet(b.args) : GroupOf(a) = GroupOf(arg)}

Reads(b) ==
    CASE b.type = "LoadInst" -> Bytes(b.start, b.end)
      [] b.type = "Memmove" -> Bytes(b.source, SourceEnd(b))
      [] IsCall(b) -> GroupsOf(b)
      [] OTHER -> {}

Writes(b) ==
    CASE b.type \in {"StoreInst", "Memset", "Memmove"} -> Bytes(b.start, b.end)
      [] IsCall(b) -> GroupsOf(b)
      [] OTHER -> {}

(* The block before position k that wrote address a last, or 0. *)
Writer(a, k) ==
    LET js == {j \in 1 .. k - 1 : a \in Writes(trace[j])} IN
    IF js = {} THEN 0 ELSE CHOOSE j \in js : \A i \in js : i <= j

Depends == {p \in (DOMAIN trace) \X (DOMAIN trace) :
               \E a \in Reads(trace[p[1]]) : Writer(a, p[1]) = p[2]}

Counted(b) == b.type \notin {"Normal", "Declare"}
Same(k) == {j \in DOMAIN trace : Counted(trace[j]) /\ I(trace[j]) = I(trace[k])}
Forward(k) ==
    DynamicInst(trace[k].tid, trace[k].ins, Cardinality({j \in Same(k) : j < k}))
Backward(k) ==
    DynamicInst(trace[k].tid, trace[k].ins, -Cardinality({j \in Same(k) : j > k}))

(* The dependencies that are no dependency of an instruction on itself. *)
Proper(pairs) == {p \in pairs : p[1] # p[2]}

(* The counters count and the tree of the last writes is well formed: the  *)
(* assertion of Set holds, leaves that hold the same are joined.           *)
TypeOK ==
    /\ WellFormed(last_store)
    /\ \A k \in DOMAIN trace :
          Counted(trace[k]) => ins_count[I(trace[k])] = Cardinality(Same(k))

(* The tree maps every address to the instruction that wrote it last,      *)
(* through any splitting and joining of its segments.                      *)
LastStore ==
    \A a \in Addresses :
        LET j == Writer(a, Len(trace) + 1) IN
        Get(last_store, a) = IF j = 0 THEN NoValue ELSE Forward(j)

(* Collect returns, for every range, the longest segments of equal value,  *)
(* in order, without a gap, and enough of them to cover the range.         *)
CollectTiles ==
    \A l, r \in 0 .. MAX_RANGE : l < r =>
        LET res == Collect(last_store, l, r) IN
        /\ res[1].left <= l /\ Last(res).right >= r
        /\ \A k \in DOMAIN res :
              \A a \in Bytes(res[k].left, res[k].right) : Get(last_store, a) = res[k].value
        /\ \A k \in 1 .. Len(res) - 1 :
              res[k].right = res[k + 1].left /\ res[k].value # res[k + 1].value

(* Every read depends on the instructions whose values it reads, of any    *)
(* thread, and on no other; a call may be found to depend on itself, when  *)
(* two of its arguments are in one group.                                  *)
LastWriters ==
    /\ Proper(found) = {<<Forward(p[1]), Forward(p[2])>> : p \in Depends}
    /\ \A p \in found \ Proper(found) :
          \E b \in ToSet(trace) : IsCall(b) /\ I(b) = <<p[1].TID, p[1].ID>>
                                /\ Len(b.args) > 1

(* The numbers in mem_dep are the ones a backward pass gives: minus the    *)
(* number of executions that are still to come.                            *)
CountedFromEnd ==
    phase = "PreparePostDominator" => Proper(mem_dep) = {<<Backward(p[1]), Backward(p[2])>> : p \in Depends}

(* "Recording a store from atomic operation" (the comment in the branch of *)
(* AtomicInst): what was last accessed by an atomic operation is found in  *)
(* last_store as written by it.                                            *)
AtomicIsStore ==
    (trace # <<>> /\ Last(trace).type = "AtomicInst" /\ Efficacious(Last(trace))) =>
        Get(last_store, Last(trace).start) = Forward(Len(trace))
=============================================================================
