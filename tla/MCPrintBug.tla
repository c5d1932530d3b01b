----------------------------- MODULE MCPrintBug -----------------------------
(***************************************************************************)
(* Small programs for PrintBug, over the addresses 0 .. 2, written m0, m1  *)
(* and m2.  print and free are external, and print writes outside.         *)
(*                                                                         *)
(*   main1   1: m0 = 10; g(); 12 = m2; print(0); if 12 goto 2 else 3       *)
(*           2: m1 = 15; goto 3               3: return                    *)
(*       g   5: m2 = 30; return                                            *)
(*   loop    7: memset(0); goto 8                                          *)
(*           8: 22 = phi(0, 26); print(1); if 22 goto 9 else 10            *)
(*           9: 26 = 22 + 1; m2 = 29; goto 8                               *)
(*          10: 34 = m0; print(2); return                                  *)
(*   main2  11: h(); 51 = m0; print(0); return                             *)
(*       h  12: free(0); m0 = 61; return                                   *)
(*   main3  13: 70 = k(); m1 = 70; print(1); return 70                     *)
(*       k  14: 80 = m0; return 80                                         *)
(*   main4  15: 90 = m0; if 90 goto 16 else 17                             *)
(*          16: m1 = 92; goto 17              17: print(1); return         *)
(*   main5  18: 100 = m0; goto 19   19: print(1); if 100 goto 20 else 21   *)
(*          20: m2 = 104; goto 21   21: return                             *)
(*                                                                         *)
(* Next to main1 another thread runs block 6: m2 = 40; return.  main3 is   *)
(* also cut off by the end of the trace, when k has done nothing yet.      *)
(***************************************************************************)
EXTENDS PrintBug

MCTids == {1, 2}

Block(tid, type, bb, lastbb, code) ==
    [tid |-> tid, type |-> type, bb |-> bb, lastbb |-> lastbb, code |-> code,
     ins |-> IF code = <<>> THEN 0 ELSE Head(code),
     first |-> 0, last |-> 0, caller |-> -1, start |-> 0, end |-> 0, source |-> 0, args |-> <<>>]

Normal(tid, bb, lastbb, code) == Block(tid, "Normal", bb, lastbb, code)
Access(tid, type, bb, lastbb, ins, a) ==
    [Block(tid, type, bb, lastbb, <<ins>>) EXCEPT !.start = a, !.end = a + 1]
Calls(type, bb, lastbb, ins, a) == [Block(1, type, bb, lastbb, <<ins>>) EXCEPT !.args = <<a>>]

Called(b, call) == [b EXCEPT !.first = 1, !.caller = call]
Returns(b, call) == [b EXCEPT !.last = 1, !.caller = call]
Starts(b) == [b EXCEPT !.first = 2]
Ends(b) == [b EXCEPT !.last = 2]

Main1 == <<
    Starts(Access(1, "StoreInst", 1, -1, 10, 0)), Normal(1, 1, -1, <<11>>),
    Called(Access(1, "StoreInst", 5, -1, 30, 2), 11), Returns(Normal(1, 5, -1, <<31>>), 11),
    Access(1, "LoadInst", 1, -1, 12, 2), Calls("ImpactfulCall", 1, -1, 13, 0),
    Normal(1, 1, -1, <<14>>)>>
Then == <<Access(1, "StoreInst", 2, 1, 15, 1), Normal(1, 2, 1, <<16>>)>>
Return1(lastbb) == <<Ends(Normal(1, 3, lastbb, <<17>>))>>
Other == <<Starts(Access(2, "StoreInst", 6, -1, 40, 2)), Ends(Normal(2, 6, -1, <<41>>))>>

Head8(lastbb) == <<Normal(1, 8, lastbb, <<22>>), Calls("ImpactfulCall", 8, lastbb, 23, 1),
                   Normal(1, 8, lastbb, <<25>>)>>
Loop(n) ==
    <<Starts(Access(1, "Memset", 7, -1, 20, 0)), Normal(1, 7, -1, <<21>>)>> \o Head8(7)
    \o FlattenSeq([i \in 1 .. n |-> <<Normal(1, 9, 8, <<26>>), Access(1, "StoreInst", 9, 8, 29, 2),
                                   Normal(1, 9, 8, <<27>>)>> \o Head8(9)])
    \o <<Access(1, "LoadInst", 10, 8, 34, 0), Calls("ImpactfulCall", 10, 8, 35, 2),
          Ends(Normal(1, 10, 8, <<28>>))>>

Main2 == <<
    Starts(Normal(1, 11, -1, <<50>>)),
    Called(Calls("ExternalCall", 12, -1, 60, 0), 50), Access(1, "StoreInst", 12, -1, 61, 0),
    Returns(Normal(1, 12, -1, <<62>>), 50),
    Access(1, "LoadInst", 11, -1, 51, 0), Calls("ImpactfulCall", 11, -1, 52, 0),
    Ends(Normal(1, 11, -1, <<53>>))>>

Main3 == <<
    Access(1, "Declare", 0, -1, 0, 0),
    Starts(Normal(1, 13, -1, <<70>>)),
    Called(Access(1, "LoadInst", 14, -1, 80, 0), 70), Returns(Normal(1, 14, -1, <<81>>), 70),
    Access(1, "StoreInst", 13, -1, 71, 1), Calls("ImpactfulCall", 13, -1, 72, 1),
    Ends(Normal(1, 13, -1, <<73>>))>>
Main3Cut == <<
    Starts(Normal(1, 13, -1, <<70>>)),
    Returns(Normal(1, 14, -1, <<>>), 70), Ends(Normal(1, 13, -1, <<>>))>>

Main4 == <<
    Starts(Access(1, "LoadInst", 15, -1, 90, 0)), Normal(1, 15, -1, <<91>>),
    Access(1, "StoreInst", 16, 15, 92, 1), Normal(1, 16, 15, <<93>>),
    Calls("ImpactfulCall", 17, 16, 94, 1), Ends(Normal(1, 17, 16, <<95>>))>>

Main5 == <<
    Starts(Access(1, "LoadInst", 18, -1, 100, 0)), Normal(1, 18, -1, <<101>>),
    Calls("ImpactfulCall", 19, 18, 102, 1), Normal(1, 19, 18, <<103>>),
    Access(1, "StoreInst", 20, 19, 104, 2), Normal(1, 20, 19, <<105>>),
    Ends(Normal(1, 21, 20, <<106>>))>>

(* What each thread does, in each execution. *)
Executions ==
    {<<Main1 \o Return1(1), Other>>, <<Main1 \o Then \o Return1(2), Other>>,
     <<Main2, <<>>>>, <<Main3, <<>>>>, <<Main3Cut, <<>>>>, <<Main4, <<>>>>,
     <<Main5, <<>>>>} \cup {<<Loop(n), <<>>>> : n \in 0 .. 2}

(* What MergeTrace promises of the marks. *)
ASSUME FramedExecutions == \A e \in Executions, tid \in MCTids : Framed(e[tid])

MCBlocks == UNION {ToSet(e[tid]) : e \in Executions, tid \in MCTids}

Done(t, tid) == SelectSeq(t, LAMBDA b : b.tid = tid)
NextOf(t, executions) ==
    {e[tid][Len(Done(t, tid)) + 1] : <<e, tid>> \in
        {x \in executions \X MCTids :
            /\ \A i \in MCTids : IsPrefix(Done(t, i), x[1][i])
            /\ Len(Done(t, x[2])) < Len(x[1][x[2]])}}
MCNextBlocks(t) == NextOf(t, Executions)
LoopBlocks(t) == NextOf(t, {<<Loop(1), <<>>>>})

Inst1(i) == <<"Inst", i>>
Instructions == 0 .. 106
MCSSADependencies == [i \in Instructions |->
    CASE i = 14 -> <<Inst1(12)>> [] i \in {25, 26} -> <<Inst1(22)>> [] i \in {71, 73} -> <<Inst1(70)>>
      [] i = 81 -> <<Inst1(80)>> [] i = 91 -> <<Inst1(90)>> [] i = 103 -> <<Inst1(100)>>
      [] OTHER -> <<>>]
MCPhiDependencies == [i \in Instructions |->
    IF i = 22 THEN <<<<7, "Constant", 0>>, <<9, "Inst", 26>>>> ELSE <<>>]
MCBB2Ins ==
    (1 :> <<10, 11, 12, 13, 14>>) @@ (2 :> <<15, 16>>) @@ (3 :> <<17>>) @@ (5 :> <<30, 31>>) @@
    (6 :> <<40, 41>>) @@ (7 :> <<20, 21>>) @@ (8 :> <<22, 23, 25>>) @@ (9 :> <<26, 29, 27>>) @@
    (10 :> <<34, 35, 28>>) @@ (11 :> <<50, 51, 52, 53>>) @@ (12 :> <<60, 61, 62>>) @@
    (13 :> <<70, 71, 72, 73>>) @@ (14 :> <<80, 81>>) @@
    (15 :> <<90, 91>>) @@ (16 :> <<92, 93>>) @@ (17 :> <<94, 95>>) @@
    (18 :> <<100, 101>>) @@ (19 :> <<102, 103>>) @@ (20 :> <<104, 105>>) @@ (21 :> <<106>>)
MCBBGraph ==
    (1 :> {2, 3}) @@ (2 :> {3}) @@ (7 :> {8}) @@ (8 :> {9, 10}) @@ (9 :> {8}) @@
    (15 :> {16, 17}) @@ (16 :> {17}) @@
    (18 :> {19}) @@ (19 :> {20, 21}) @@ (20 :> {21})
MCTerminatorInst == {14, 16, 21, 25, 27, 91, 93, 101, 103, 105}
MCReturnInst == {17, 28, 31, 41, 53, 62, 73, 81, 95, 106}
MCReturnVoid == MCReturnInst \ {73, 81}
MCOneSuccessor == {16, 21, 27, 93, 101, 105}
MCCallInst == {11, 50, 70}
MCIgnorable == {60}

(* All graphs of four blocks with at most two successors each. *)
SmallBlocks == 1 .. 4
Graphs == {[i \in {j \in SmallBlocks : g[j] # {}} |-> g[i]] :
              g \in [SmallBlocks -> {s \in SUBSET SmallBlocks : Cardinality(s) <= 2}]}

(* The programs; or an empty trace, and any small graph. *)
SmallInit ==
    /\ phase = "PreparePostDominator" /\ block_trace = <<>> /\ GroupInit
    /\ read = 0 /\ last_store = NewTree /\ ins_count = <<>> /\ found = {} /\ mem_dep = {}
    /\ slice = NoSlice /\ printed = {} /\ reports = {}
    /\ \E graph \in Graphs : Prepare(graph)

MCAllSpec == (MainInit \/ SmallInit) /\ [][MainNext]_mainVars
=============================================================================
