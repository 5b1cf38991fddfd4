----------------------------- MODULE MCFatCtrl -----------------------------
(***************************************************************************)
(* Three pages of four addresses from 4 on.  The function at 4 calls the   *)
(* one at 6 and an unknown one; the one at 6 spans two pages and calls the *)
(* one at 12, which the database does not have, and itself.                *)
(***************************************************************************)
EXTENDS FatCtrl

Call(addr, len, dest) == [addr |-> addr, len |-> len, dest |-> dest]

MCFuncDB ==
    << [func_addr |-> 4, calls |-> <<Call(4, 1, 6), Call(5, 1, 0)>>],
       [func_addr |-> 6, calls |-> <<Call(6, 1, 12), Call(8, 2, 6), Call(10, 1, 4)>>] >>
=============================================================================
