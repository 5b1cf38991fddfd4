-------------------------------- MODULE Flow --------------------------------
(***************************************************************************)
(* The control flow that KRover promises to follow: the function run       *)
(* natively, with the seed as the value of its symbolic objects.  Nothing  *)
(* here is code of the repository.                                         *)
(*                                                                         *)
(* An instruction is a record [op, size, rel]: its length, and the         *)
(* displacement of a direct jump or call or the constant of a cmov.        *)
(***************************************************************************)
EXTENDS Integers

CONSTANTS
    Depth,      \* slots of the stack; the caller's return address is in the last one
    MaxWord     \* values are 0 .. MaxWord

Slots == 0 .. Depth - 1
Term == Depth - 1       \* the stack pointer when the function is entered
Value == 0 .. MaxWord

(* A state s is a record [rip, rsp, stk, cnt, ptr, tab, zf]: stack, a      *)
(* counter, and code addresses in a register and in memory.                *)
Calls(s, n, target) ==
    [s EXCEPT !.rip = target, !.rsp = @ - 1, !.stk[s.rsp - 1] = n]

Exec(i, s) ==
    LET n    == s.rip + i.size
        next == [s EXCEPT !.rip = n]
    IN  CASE i.op = "nop"   -> next
          [] i.op = "sub"   -> [next EXCEPT !.cnt = (@ - 1) % (MaxWord + 1), !.zf = (s.cnt = 1)]
          [] i.op = "cmov"  -> IF s.zf THEN [next EXCEPT !.cnt = i.rel] ELSE next
          [] i.op = "push"  -> [next EXCEPT !.rsp = @ - 1, !.stk[s.rsp - 1] = s.cnt]
          [] i.op = "pop"   -> [next EXCEPT !.rsp = @ + 1, !.cnt = s.stk[s.rsp]]
          [] i.op = "top"   -> [next EXCEPT !.cnt = s.stk[s.rsp]]
          [] i.op = "jcc"   -> IF s.zf THEN next ELSE [s EXCEPT !.rip = n + i.rel]
          [] i.op = "jmp"   -> [s EXCEPT !.rip = n + i.rel]
          [] i.op = "jmpr"  -> [s EXCEPT !.rip = s.ptr]
          [] i.op = "jmpm"  -> [s EXCEPT !.rip = s.tab]
          [] i.op = "call"  -> Calls(s, n, n + i.rel)
          [] i.op = "callr" -> Calls(s, n, s.ptr)
          [] i.op = "callm" -> Calls(s, n, s.tab)
          [] i.op = "ret"   -> [s EXCEPT !.rip = s.stk[s.rsp], !.rsp = @ + 1]

-----------------------------------------------------------------------------
VARIABLES
    code,       \* address -> instruction
    cpu         \* the machine's state

Init == cpu.rsp = Term

Next ==
    /\ cpu.rsp <= Term
    /\ cpu' = Exec(code[cpu.rip], cpu)
    /\ code' = code

Spec == Init /\ [][Next]_<<code, cpu>>
=============================================================================
