---------------------------- MODULE GroupMemory ----------------------------
(***************************************************************************)
(* GroupMemory (tools/PrintBug/GroupMemory.cpp): the blocks of the trace   *)
(* are read backwards, and addresses that are accessed through the same    *)
(* pointers are merged into groups, so that an external call can be taken  *)
(* to access all that it can reach.  Addr2Group and Group2Addr are two     *)
(* views of the groups, and so are Ins2Group and Group2Ins of the pointers *)
(* whose values lie in a group.                                            *)
(*                                                                         *)
(* A block is its type, thread and instructions, the range it accesses,    *)
(* for a memmove the start of its source, for an external call its pointer *)
(* arguments, and the IsFirst and Caller marks of MergeTrace.              *)
(***************************************************************************)
EXTENDS SegmentTree, FiniteSets

CONSTANTS
    Tids,             \* the threads of the trace
    SSADependencies,  \* instruction -> its operands, as <<kind, number>>
    IsPointer,        \* the instructions whose result is a pointer
    MaxArgs,          \* no function has more arguments
    CallInst          \* the calls of instrumented functions

ASSUME NoGroupAssumption == NoValue \notin Nat
ASSUME DependencyAssumption ==
    /\ MaxArgs \in Nat
    /\ \A ins \in DOMAIN SSADependencies :
          /\ SSADependencies[ins] \in Seq(STRING \X Nat)
          /\ \A dep \in ToSet(SSADependencies[ins]) : dep[1] = "PointerArg" => dep[2] < MaxArgs

VARIABLES
    block_trace,   \* what MergeTrace returns
    left,          \* how many of its blocks have not been read
    groups,        \* the maps, see NoGroups
    crashed        \* a null pointer or an empty vector has been used

groupVars == <<left, groups, crashed>>

(* The fields are the global variables of GroupMemory.cpp; Group2Ins holds *)
(* the empty set for a group that has been erased.                         *)
NoGroups ==
    [MaxGroupID |-> 0, Addr2Group |-> NewTree, Group2Addr |-> <<>>,
     Ins2Group |-> <<>>, Group2Ins |-> <<>>, labeled_args |-> [t \in Tids |-> {}]]

GroupInit == left = 0 /\ groups = NoGroups /\ crashed = FALSE

Accesses == {"StoreInst", "LoadInst", "AtomicInst", "AllocaInst", "Memset", "Memmove"}
IsCall(b) == b.type \in {"ExternalCall", "ImpactfulCall"}
Efficacious(b) == b.start < b.end
SourceEnd(b) == b.source + b.end - b.start

(* Collect of GroupMemory.cpp: the segments, cut to the range. *)
Segments(m, l, r) ==
    LET s == Collect(m.Addr2Group, l, r) IN [[s EXCEPT ![1].left = l] EXCEPT ![Len(s)].right = r]

-----------------------------------------------------------------------------
(* Merging of groups and of their trees.                                   *)

(* The map f with y for x. *)
With(f, x, y) == [z \in DOMAIN f \cup {x} |-> IF z = x THEN y ELSE f[z]]

(* The union of the trees; equal children stay apart here. *)
MergedTree(trees) ==
    [n \in Nodes |->
        IF \E tree \in trees : IsCovered(tree[n]) THEN Leaf("COVERED_SEGMENT", 1)
        ELSE IF \E tree \in trees : tree[n] = Partial THEN Partial
        ELSE Leaf("EMPTY_SEGMENT", NoValue)]

NewGroup(m) ==
    LET g == m.MaxGroupID + 1 IN
    [mem |-> [m EXCEPT !.MaxGroupID = g, !.Group2Addr = With(@, g, NewTree),
                       !.Group2Ins = With(@, g, {})],
     group |-> g]

(* Mutation of SetAll: the last address of each segment is missed. *)
SetShort(tree, segments, type, v) ==
    LET after[k \in 0 .. Len(segments)] ==
            IF k = 0 THEN tree
            ELSE IF segments[k].type # type THEN after[k - 1]
            ELSE Set(after[k - 1], segments[k].left, segments[k].right - 1, v)
    IN  after[Len(segments)]

(* Set the segments of one type to v, one after the other. *)
SetAll(tree, segments, type, v) ==
    LET after[k \in 0 .. Len(segments)] ==
            IF k = 0 THEN tree
            ELSE IF segments[k].type # type THEN after[k - 1]
            ELSE Set(after[k - 1], segments[k].left, segments[k].right, v)
    IN  after[Len(segments)]

MergedAddrs(m, gs) == MergedTree({m.Group2Addr[h] : h \in gs})

(* Mutation of MovedAddr2Group: the addresses keep the groups that are erased. *)
KeptAddr2Group(m, gs) == m.Addr2Group

MovedAddr2Group(m, gs) ==
    SetAll(m.Addr2Group, Collect(MergedAddrs(m, gs), 0, MAX_RANGE), "COVERED_SEGMENT", Min(gs))

(* Mutation of MovedIns2Group: the pointers of the erased groups are not moved. *)
KeptIns2Group(m, gs) == m.Ins2Group

MovedIns2Group(m, gs) ==
    [k \in DOMAIN m.Ins2Group |->
        IF \E h \in gs : k \in m.Group2Ins[h] THEN Min(gs) ELSE m.Ins2Group[k]]

(* Mutation of Kept: the last of the groups is kept. *)
KeptLast(gs) == Max(gs)

(* The group that is returned is the one that is kept. *)
Kept(gs) == Min(gs)

(* The groups gs become the one with the smallest number; no group at all  *)
(* becomes a new one.                                                      *)
Merging(m, gs) ==
    LET g == Min(gs) IN
    IF gs = {} THEN NewGroup(m)
    ELSE IF gs = {g} THEN [mem |-> m, group |-> g]
    ELSE [mem |-> [m EXCEPT
              !.Addr2Group = MovedAddr2Group(m, gs),
              !.Group2Addr = With(Restrict(@, DOMAIN @ \ gs), g, MergedAddrs(m, gs)),
              !.Ins2Group = MovedIns2Group(m, gs),
              !.Group2Ins = [h \in DOMAIN @ |-> IF h = g THEN UNION {@[x] : x \in gs}
                                                ELSE IF h \in gs THEN {} ELSE @[h]]],
          group |-> Kept(gs)]

-----------------------------------------------------------------------------
(* The pointers: a result of an instruction or an argument of a function.  *)

IsPointerDep(dep) ==
    dep[1] = "PointerArg" \/ (dep[1] = "Inst" /\ dep[2] \in IsPointer)

PointerDeps(ins) == {dep \in ToSet(SSADependencies[ins]) : IsPointerDep(dep)}

Key(tid, dep) == <<tid, dep[1], dep[2]>>

GroupsOfKeys(m, keys) == {m.Ins2Group[k] : k \in keys \cap DOMAIN m.Ins2Group}

Unlabel(m, k) ==
    IF k \notin DOMAIN m.Ins2Group THEN m
    ELSE [m EXCEPT !.Group2Ins[m.Ins2Group[k]] = @ \ {k},
                   !.Ins2Group = Restrict(@, DOMAIN @ \ {k})]

Label(m, tid, deps, g) ==
    LET keys == {Key(tid, dep) : dep \in deps} IN
    [m EXCEPT !.Ins2Group = [k \in DOMAIN @ \cup keys |-> IF k \in keys THEN g ELSE @[k]],
              !.Group2Ins[g] = @ \cup keys,
              !.labeled_args[tid] = @ \cup {dep[2] : dep \in {d \in deps : d[1] = "PointerArg"}}]

(* At the entry of a function the group of an argument goes over to the    *)
(* value that the caller passes for it.                                    *)
MapArgument(m, b, arg) ==
    LET k == Key(b.tid, <<"PointerArg", arg>>)
        m1 == Unlabel(m, k)
        used == SSADependencies[b.caller][arg + 1]
        to == Merging(m1, {m.Ins2Group[k]} \cup GroupsOfKeys(m1, {Key(b.tid, used)})) IN
    IF k \notin DOMAIN m.Ins2Group THEN m
    ELSE IF ~(b.first = 1 /\ b.caller # -1 /\ IsPointerDep(used)) THEN m1
    ELSE Label(to.mem, b.tid, {used}, to.group)

(* The arguments one after the other, in the order of their numbers. *)
MapArguments(m, b) ==
    LET labeled_arg == m.labeled_args[b.tid]
        after[k \in 0 .. MaxArgs] ==
            IF k = 0 THEN [m EXCEPT !.labeled_args[b.tid] = {}]
            ELSE IF k - 1 \notin labeled_arg THEN after[k - 1]
            ELSE MapArgument(after[k - 1], b, k - 1)
    IN  IF b.first = 0 THEN m ELSE after[MaxArgs]

(* Mutation of MergeInst: the groups of the operands are not merged. *)
MergeInstNotOperands(m, gs, ins, b) ==
    LET me == Key(b.tid, <<"Inst", ins>>)
        to == Merging(m, gs \cup GroupsOfKeys(m, {me})) IN
    [mem |-> MapArguments(
                 Label(Unlabel(to.mem, me), b.tid, PointerDeps(ins), to.group), b),
     group |-> to.group]

(* The groups gs, that of the result and those of the operands become one; *)
(* the result gives up its label, since it has no value before.  The group *)
(* returned is the one before MapArguments, which may merge it away.       *)
MergeInst(m, gs, ins, b) ==
    LET me == Key(b.tid, <<"Inst", ins>>)
        keys == {Key(b.tid, dep) : dep \in PointerDeps(ins)}
        to == Merging(m, gs \cup GroupsOfKeys(m, {me} \cup keys)) IN
    [mem |-> MapArguments(
                 Label(Unlabel(to.mem, me), b.tid, PointerDeps(ins), to.group), b),
     group |-> to.group]

-----------------------------------------------------------------------------
(* One block, from the last one backwards.                                 *)

GroupBlock(b, types) ==
    /\ left > 0 /\ ~crashed
    /\ b = block_trace[left] /\ b.type \in types
    /\ left' = left - 1
    /\ UNCHANGED block_trace

AnyEmpty(segments) == \E s \in ToSet(segments) : s.type = "EMPTY_SEGMENT"
Present(segments) == {s.value : s \in {x \in ToSet(segments) : IsCovered(x)}}

(* Group2Addr[new_group]->Set and Addr2Group->Set of the ranges that are   *)
(* in no group; for a group that has been erased the first is a call on a  *)
(* null pointer.                                                           *)
AddRanges(r, segments) ==
    IF AnyEmpty(segments) /\ r.group \notin DOMAIN r.mem.Group2Addr
    THEN crashed' = TRUE /\ UNCHANGED groups
    ELSE /\ groups' = IF ~AnyEmpty(segments) THEN r.mem ELSE
               [r.mem EXCEPT !.Group2Addr[r.group] = SetAll(@, segments, "EMPTY_SEGMENT", 1),
                             !.Addr2Group = SetAll(@, segments, "EMPTY_SEGMENT", r.group)]
         /\ UNCHANGED crashed

GroupAccess(b) ==
    /\ GroupBlock(b, Accesses)
    /\ IF ~Efficacious(b) THEN UNCHANGED <<groups, crashed>>
       ELSE LET own == Segments(groups, b.start, b.end)
                all == IF b.type = "Memmove"
                       THEN own \o Segments(groups, b.source, SourceEnd(b)) ELSE own
            IN  AddRanges(MergeInst(groups, Present(all), b.ins, b), all)

(* A global; for one of size zero the first element of an empty vector is  *)
(* written.                                                                *)
GroupDeclare(b) ==
    /\ GroupBlock(b, {"Declare"})
    /\ IF ~Efficacious(b) THEN crashed' = TRUE /\ UNCHANGED groups
       ELSE LET own == Segments(groups, b.start, b.end)
            IN  AddRanges(Merging(groups, Present(own)), own)

(* An argument that points to memory nothing accesses later gets a group. *)
AddArgument(m, a) ==
    LET r == NewGroup(m) IN
    IF Get(m.Addr2Group, a) # NoValue THEN m
    ELSE [r.mem EXCEPT !.Group2Addr[r.group] = Set(@, a, a + 1, 1),
                       !.Addr2Group = Set(@, a, a + 1, r.group)]

GroupCall(b) ==
    /\ GroupBlock(b, {"ExternalCall", "ImpactfulCall"})
    /\ LET after[k \in 0 .. Len(b.args)] ==
               IF k = 0 THEN groups ELSE AddArgument(after[k - 1], b.args[k])
       IN  groups' = after[Len(b.args)]
    /\ UNCHANGED crashed

MergePointer(m, ins, b) ==
    IF ins \in IsPointer \ CallInst THEN MergeInst(m, {}, ins, b).mem ELSE m

(* The instructions of the block, the last one first. *)
GroupNormal(b) ==
    /\ GroupBlock(b, {"Normal"})
    /\ LET after[k \in 0 .. Len(b.code)] ==
               IF k = 0 THEN groups
               ELSE MergePointer(after[k - 1], b.code[Len(b.code) - k + 1], b)
       IN  groups' = after[Len(b.code)]
    /\ UNCHANGED crashed

GroupNext ==
    /\ left > 0
    /\ LET b == block_trace[left] IN
       GroupAccess(b) \/ GroupDeclare(b) \/ GroupCall(b) \/ GroupNormal(b)

-----------------------------------------------------------------------------
(* Properties of the groups *)

GroupOf(a) == Get(groups.Addr2Group, a)

(* The addresses that are mapped to a group are the ones in its tree, and  *)
(* both maps know the same groups, through any merging.                    *)
AddressesMatch ==
    \A a \in Addresses :
        /\ GroupOf(a) # NoValue => GroupOf(a) \in DOMAIN groups.Group2Addr
        /\ \A g \in DOMAIN groups.Group2Addr :
              GroupOf(a) = g <=> Get(groups.Group2Addr[g], a) = 1

(* A pointer is labelled with a group if and only if it is listed in it,   *)
(* and that group still exists.                                            *)
PointersMatch ==
    /\ \A k \in DOMAIN groups.Ins2Group :
          /\ groups.Ins2Group[k] \in DOMAIN groups.Group2Addr
          /\ k \in groups.Group2Ins[groups.Ins2Group[k]]
    /\ \A g \in DOMAIN groups.Group2Ins : \A k \in groups.Group2Ins[g] :
          k \in DOMAIN groups.Ins2Group /\ groups.Ins2Group[k] = g

Touched(b) ==
    IF b.type \in Accesses \cup {"Declare"} /\ Efficacious(b)
    THEN b.start .. b.end - 1 \cup
         (IF b.type = "Memmove" THEN b.source .. SourceEnd(b) - 1 ELSE {})
    ELSE {}

Read(k) == k > left /\ (crashed => k > left + 1)

Latest(js) == IF js = {} THEN 0 ELSE CHOOSE j \in js : \A i \in js : i <= j

(* MergeInst runs in block k, so that it hands labels on. *)
Merges(k) ==
    LET b == block_trace[k] IN
    Read(k) /\ \/ b.type \in Accesses /\ Efficacious(b)
               \/ b.type = "Normal" /\ ToSet(b.code) \cap (IsPointer \ CallInst) # {}

(* The values that a pointer used in block k was calculated from: results  *)
(* of an instruction, each with the block that executed it last, arguments *)
(* with the first block of the function, and what the caller passed.  An   *)
(* argument is looked for in functions that call no other before they use  *)
(* it: the labels of arguments do not say which function they belong to.   *)
Origins(k, dep) ==
    LET own == {j \in DOMAIN block_trace : block_trace[j].tid = block_trace[k].tid}
        operands == UNION {ToSet(SSADependencies[ins]) : ins \in DOMAIN SSADependencies}
        from[x \in (1 .. k) \X operands] ==
            LET def == Latest({j \in own : j < x[1] /\ x[2][2] \in ToSet(block_trace[j].code)})
                entry == Latest({j \in own : j <= x[1] /\ block_trace[j].first # 0})
                used == SSADependencies[block_trace[entry].caller][x[2][2] + 1]
                passed == IF used[1] = "Inst" THEN entry ELSE Latest({j \in own : j < entry}) IN
            IF x[2][1] = "Inst"
            THEN IF def = 0 THEN {} ELSE {<<def, x[2]>>} \cup
                 UNION {from[<<def, d>>] : d \in IF Merges(def) THEN PointerDeps(x[2][2]) ELSE {}}
            ELSE {<<entry, x[2]>>} \cup
                 IF ~Merges(entry) \/ block_trace[entry].first = 2 \/ ~IsPointerDep(used) THEN {}
                 ELSE from[<<passed, used>>]
    IN  from[<<k, dep>>]

Bases(k) == UNION {Origins(k, dep) : dep \in PointerDeps(block_trace[k].ins)}

(* What one access or declaration touches is in one group, and so is what  *)
(* two accesses touch through pointers that were calculated from one value *)
(* by a chain of instructions and calls.                                   *)
Calculable ==
    \A k \in DOMAIN block_trace : Read(k) => \A j \in 1 .. k :
        LET touched == Touched(block_trace[k]) \cup Touched(block_trace[j]) IN
        (/\ Read(j)
         /\ j # k => /\ {block_trace[j].type, block_trace[k].type} \subseteq Accesses
                     /\ Merges(j) /\ Merges(k) /\ Bases(j) \cap Bases(k) # {})
        => \A x, y \in touched : GroupOf(x) = GroupOf(y) /\ GroupOf(x) # NoValue

(* Groups are merged and never split. *)
GroupsOnlyGrow ==
    [][\A a, b \in Addresses :
          (GroupOf(a) # NoValue /\ GroupOf(a) = GroupOf(b)) => (GroupOf(a))' = (GroupOf(b))'
      ]_groups

(* The analysis of the groups fails only on a global of size zero, and on  *)
(* an access that is the entry of a called function, where MergeInst       *)
(* returns a group that it has merged away.                                *)
CrashesOnlyThere ==
    crashed => LET b == block_trace[left + 1] IN
               \/ b.type = "Declare" /\ ~Efficacious(b)
               \/ b.type \in Accesses /\ b.first = 1 /\ b.caller # -1
=============================================================================
