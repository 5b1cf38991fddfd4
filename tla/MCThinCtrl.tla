----------------------------- MODULE MCThinCtrl -----------------------------
(***************************************************************************)
(* Five functions over the same addresses; the caller, at MCCaller, loops *)
(* for ever so that a run that does not stop there is seen.  Instructions  *)
(* have two lengths.                                                       *)
(***************************************************************************)
EXTENDS ThinCtrl, TLC

In(op, size, rel) == [op |-> op, size |-> size, rel |-> rel]

MCEntry == 0
MCCaller == 14
MCHandler == 10

(* The function at MCHandler, which they share, and the caller.            *)
Shared == 10 :> In("sub", 1, 0) @@ 11 :> In("ret", 1, 0) @@ 14 :> In("jmp", 1, -1)

(* A loop that calls over the slot that a pushed counter had.              *)
Loop ==
    0 :> In("push", 1, 0) @@ 1 :> In("pop", 1, 0) @@ 2 :> In("call", 2, 6) @@
    4 :> In("jcc", 2, -4) @@ 6 :> In("cmov", 1, 2) @@ 7 :> In("ret", 1, 0) @@ Shared

(* A call and a jump through a register, with data on the stack.           *)
Indirect ==
    0 :> In("nop", 2, 0) @@ 2 :> In("push", 1, 0) @@ 3 :> In("callr", 2, 0) @@
    5 :> In("pop", 1, 0) @@ 6 :> In("cmov", 1, 3) @@ 7 :> In("nop", 1, 0) @@
    8 :> In("jmpr", 2, 0) @@ Shared

(* A call and a jump through memory.                                       *)
Table ==
    0 :> In("callm", 2, 0) @@ 2 :> In("top", 1, 0) @@ 3 :> In("jmp", 1, 1) @@
    5 :> In("push", 1, 0) @@ 6 :> In("top", 1, 0) @@ 7 :> In("pop", 1, 0) @@
    8 :> In("jmpm", 1, 0) @@ Shared

(* Tail calls, through a register and through memory.                      *)
Tail(op) == 0 :> In("sub", 1, 0) @@ 1 :> In(op, 2, 0) @@ Shared

MCCodes == {Loop, Indirect, Table, Tail("jmpr"), Tail("jmpm")}
=============================================================================
