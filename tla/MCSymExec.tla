----------------------------- MODULE MCSymExec ------------------------------
(***************************************************************************)
(* Registers of two bytes, memory of four: the symbolic object in bytes 0  *)
(* and 1, the stack above it and, after two pushes, over it.               *)
(***************************************************************************)
EXTENDS SymExec

R(r, v) == [k |-> "reg", r |-> r, v |-> v]
M(at, n) == [k |-> "mem", at |-> at, n |-> n]
Ind(r, n) == [k |-> "ind", r |-> r, n |-> n]
Sum(r, c) == [k |-> "sum", r |-> r, c |-> c]
I(c, n) == [k |-> "imm", c |-> c, n |-> n]
None == [k |-> "none"]
rax == R("rax", "full")
rdx == R("rdx", "full")
al == R("rax", "l")
ah == R("rax", "h")
dl == R("rdx", "l")
edx == R("rdx", "d")

In(op, dst, src) == [op |-> op, dst |-> dst, src |-> src]

MCObjects == <<0, 2>>

Moves == {
    In("mov", rax, M(0, 2)), In("mov", rax, M(1, 2)), In("mov", rdx, rax), In("mov", dl, M(1, 1)),
    In("mov", ah, I(1, 1)), In("mov", edx, I(1, 1)), In("mov", M(2, 2), rax), In("mov", M(0, 1), I(1, 1)),
    In("mov", M(1, 1), dl), In("mov", dl, Ind("rax", 1)), In("lea", rdx, Sum("rax", 1)),
    In("movzx", rax, M(0, 1)), In("movzx", rdx, al), In("movsx", rdx, al), In("movsx", rax, M(2, 1)),
    In("xchg", rax, rdx), In("xchg", rax, M(0, 2)), In("xchg", M(2, 1), dl),
    In("cmov", rdx, rax), In("cmov", rax, M(0, 2)), In("set", dl, None), In("set", M(2, 1), None),
    In("push", None, rax), In("push", None, I(2, 1)), In("push", None, M(0, 2)), In("pop", rdx, None) }

Computations == {
    In("add", rax, rdx), In("add", M(0, 2), rax), In("sub", rax, M(0, 2)), In("and", al, M(1, 1)),
    In("or", rdx, I(2, 2)), In("add", rdx, I(1, 1)), In("xor", rax, rax), In("test", rax, rax), In("cmp", rax, I(1, 1)),
    In("cmp", dl, al), In("shl", rax, I(1, 1)), In("shl", rax, dl), In("shr", rax, I(1, 1)),
    In("sar", rax, I(1, 1)), In("shrd", rax, rdx), In("neg", rdx, None), In("not", rax, None),
    In("cbw", Acc, None), In("cdq", Ext, None), In("mul", Acc, rdx), In("idiv", Acc, M(2, 2)) }

MCInsns == Moves \cup Computations
=============================================================================
