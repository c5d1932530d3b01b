------------------------- MODULE MCMemoryDependency -------------------------
(***************************************************************************)
(* Two programs over seven addresses.  Accesses: any sequence of writes    *)
(* that overlap in part, contain one another or write nothing, reads, an   *)
(* overlapping memmove, and calls with one to three pointer arguments.     *)
(* Pointers: a main that loops over its statements, which use an array x   *)
(* (30, at 0 .. 1) and a heap object p (36, at 3 .. 4, its address loaded  *)
(* from a global at 5), calls f, g and h with them, and starts a thread.   *)
(* The first block of h uses no pointer.                                   *)
(***************************************************************************)
EXTENDS MemoryDependency

MaxAccesses == 4   \* bound: the length of a trace of the first program
MaxPointers == 6   \* bound: and of the second

Block(tid, type, ins, l, r, source, args) ==
    [tid |-> tid, type |-> type, ins |-> ins, start |-> l, end |-> r,
     source |-> source, args |-> args, code |-> <<ins>>, first |-> 0, caller |-> -1]

AccessBlocks == {
    Block(1, "StoreInst", 10, 0, 4, 0, <<>>),
    Block(2, "StoreInst", 10, 3, 6, 0, <<>>),
    Block(1, "StoreInst", 10, 5, 5, 0, <<>>),
    Block(2, "Memset", 12, 1, 7, 0, <<>>),
    Block(1, "Memmove", 13, 1, 4, 2, <<>>),
    Block(1, "LoadInst", 14, 0, 3, 0, <<>>),
    Block(2, "LoadInst", 14, 2, 7, 0, <<>>),
    Block(1, "ExternalCall", 15, 0, 0, 0, <<3>>),
    Block(2, "ImpactfulCall", 16, 0, 0, 0, <<0, 2, 5>>),
    Block(1, "AtomicInst", 17, 2, 3, 0, <<>>) }

Inst1(i) == <<"Inst", i>>

MCSSADependencies == [i \in 10 .. 60 |->
    CASE i \in {31, 33} -> <<Inst1(30)>>
      [] i = 32 -> <<<<"Constant", 0>>, Inst1(31)>>
      [] i = 34 -> <<Inst1(30)>>
      [] i \in {35, 37, 39} -> <<Inst1(36)>>
      [] i = 38 -> <<Inst1(30), Inst1(36)>>
      [] i \in {40, 41, 44, 50} -> <<<<"PointerArg", 0>>>>
      [] i = 42 -> <<<<"Constant", 0>>, Inst1(41)>>
      [] OTHER -> <<>>]

MCIsPointer == {30, 31, 36, 41}
MCCallInst == {34, 37, 39}

Statements == {
    Block(1, "Normal", 31, 0, 0, 0, <<>>),                  \* q = &x[1]
    Block(1, "StoreInst", 32, 1, 2, 0, <<>>),               \* *q = 0
    Block(1, "LoadInst", 33, 0, 1, 0, <<>>),                \* x[0]
    Block(1, "Normal", 34, 0, 0, 0, <<>>),                  \* f(x)
    Block(1, "LoadInst", 36, 5, 6, 0, <<>>),                \* p
    Block(1, "ImpactfulCall", 35, 0, 0, 0, <<3>>),          \* write(p)
    Block(1, "Normal", 37, 0, 0, 0, <<>>),                  \* g(p)
    Block(1, "Normal", 39, 0, 0, 0, <<>>),                  \* h(p)
    Block(1, "Memmove", 38, 0, 2, 3, <<>>) }                \* memmove(x, p, 2)

Entry(b, call) == [b EXCEPT !.first = 1, !.caller = call]
Start(b) == [b EXCEPT !.first = 2]

(* A statement is reached when the pointers it uses have been computed. *)
Ready(t, b) ==
    \A dep \in ToSet(MCSSADependencies[b.ins]) :
        dep[1] = "Inst" => \E k \in DOMAIN t : t[k].ins = dep[2]

NextPointers(t) ==
    CASE Len(t) = MaxPointers -> {}
      [] Len(t) = 1 -> {Start(Block(1, "AllocaInst", 30, 0, 2, 0, <<>>))}
      [] Last(t).ins = 34 -> {Entry(Block(1, "LoadInst", 40, 0, 1, 0, <<>>), 34)}
      [] Last(t).ins = 37 -> {Entry(Block(1, "Normal", 41, 0, 0, 0, <<>>), 37)}
      [] Last(t).ins = 39 -> {Entry(Block(1, "Normal", 43, 0, 0, 0, <<>>), 39)}
      [] Last(t).ins = 43 -> {Block(1, "StoreInst", 44, 3, 4, 0, <<>>)}
      [] Last(t).ins = 41 -> {Block(1, "StoreInst", 42, 4, 5, 0, <<>>)}
      [] OTHER -> {b \in Statements : Ready(t, b)} \cup
                  (IF \E k \in DOMAIN t : t[k].tid = 2 THEN {}
                   ELSE {Start(Block(2, "LoadInst", 50, 0, 1, 0, <<>>))})

Mark(t, b) == IF \E k \in DOMAIN t : t[k].tid = b.tid THEN b ELSE Start(b)

MCBlocks ==
    LET All == AccessBlocks \cup Statements \cup
               {Block(1, "Declare", 60, 5, r, 0, <<>>) : r \in {5, 6}} \cup
               {Block(1, "AllocaInst", 30, 0, 2, 0, <<>>), Block(2, "LoadInst", 50, 0, 1, 0, <<>>)}
    IN  All \cup {Start(b) : b \in All} \cup
        {Entry(Block(1, "LoadInst", 40, 0, 1, 0, <<>>), 34),
         Entry(Block(1, "Normal", 41, 0, 0, 0, <<>>), 37),
         Entry(Block(1, "Normal", 43, 0, 0, 0, <<>>), 39),
         Block(1, "StoreInst", 44, 3, 4, 0, <<>>), Block(1, "StoreInst", 42, 4, 5, 0, <<>>)}

MCNextBlocks(t) ==
    IF t = <<>> THEN {Mark(t, b) : b \in AccessBlocks} \cup
                     {Block(1, "Declare", 60, 5, r, 0, <<>>) : r \in {5, 6}}
    ELSE IF t[1].type = "Declare" THEN NextPointers(t)
    ELSE IF Len(t) = MaxAccesses THEN {} ELSE {Mark(t, b) : b \in AccessBlocks}
=============================================================================
