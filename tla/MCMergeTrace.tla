---------------------------- MODULE MCMergeTrace ----------------------------
(***************************************************************************)
(* A small instrumented program for MergeTrace.                            *)
(*                                                                         *)
(*   main  block 0   call f; br 1                                          *)
(*         block 1   phi; store; condbr 1 or 2                             *)
(*         block 2   call g(p, q); call h(q); ret                          *)
(*   f     block 3   add; condbr 4 or 5                                    *)
(*         block 4   call f; ret                                           *)
(*         block 5   alloca; ret                                           *)
(*   c     block 6   memset; ret                                           *)
(*                                                                         *)
(* g and h are external, and h writes outside the program.  The second     *)
(* thread starts in f: a call that is the only instruction of its block    *)
(* that has an event, a recursive call whose return ends two functions at  *)
(* once, a loop, and a function whose first block holds no event but its   *)
(* own.  c is a constructor and a destructor.                              *)
(***************************************************************************)
EXTENDS MergeTrace

MCThreads == {1, 2}
MCEntry == (1 :> 0) @@ (2 :> 3)
MCMaxSteps == (1 :> 16) @@ (2 :> 9)
MCOuter == {6}
MCBB2Ins ==
    (0 :> <<101, 102>>) @@ (1 :> <<103, 104, 105>>) @@
    (2 :> <<107, 108, 109>>) @@
    (3 :> <<110, 111>>) @@ (4 :> <<112, 113>>) @@ (5 :> <<114, 115>>) @@
    (6 :> <<116, 117>>)
MCType ==
    (101 :> "CallInst") @@ (102 :> "TerminatorInst") @@
    (103 :> "PhiNode") @@ (104 :> "StoreInst") @@ (105 :> "TerminatorInst") @@
    (107 :> "ExternalCallInst") @@
    (108 :> "ExternalCallInst") @@ (109 :> "ReturnInst") @@
    (110 :> "NormalInst") @@ (111 :> "TerminatorInst") @@
    (112 :> "CallInst") @@ (113 :> "ReturnInst") @@
    (114 :> "AllocaInst") @@ (115 :> "ReturnInst") @@
    (116 :> "CallInst") @@ (117 :> "ReturnInst")
MCFun ==
    (101 :> "f") @@ (107 :> "g") @@ (108 :> "h") @@
    (112 :> "f") @@ (116 :> "llvm.memset")
MCCallee == (101 :> 3) @@ (112 :> 3)
MCSuccessors == (102 :> {1}) @@ (105 :> {1, 2}) @@ (111 :> {4, 5})
MCPointerArgs == (107 :> {"p", "q"}) @@ (108 :> {"q"})
=============================================================================
