------------------------------ MODULE ThinCtrl ------------------------------
(***************************************************************************)
(* The loop of CThinCtrl::processFunction (thinctrl.cpp): fetch through    *)
(* the instruction cache, dispatch of calls, returns and branches, the     *)
(* decisions on symbolic flags, and the end of the loop.  One iteration is *)
(* one action.                                                             *)
(*                                                                         *)
(* A word is a record [marked, con, sym]: marked symbolic or not, its      *)
(* concrete image, and what its expression is for the seed.                *)
(***************************************************************************)
EXTENDS Integers

CONSTANTS
    Depth,      \* slots of the stack
    MaxWord,    \* values are 0 .. MaxWord
    Codes,      \* the functions: address -> instruction
    Entry,      \* address of the first instruction
    Caller,     \* address to which the function returns
    Handler,    \* a code address, held by the pointer and the table entry
    Counts,     \* initial values of the counter
    CacheSize,  \* entries of m_InsnCache
    Z3Slots,    \* entries of z3_api_clk_cycls
    NoInsn      \* an empty entry of the cache

ASSUME ThinAssumption ==
    /\ Depth \in Nat /\ Depth >= 1 /\ MaxWord \in Nat
    /\ CacheSize \in Nat \ {0} /\ Z3Slots \in Nat
    /\ Counts \subseteq 0 .. MaxWord /\ {Entry, Caller, Handler} \subseteq 0 .. MaxWord

(***************************************************************************)
(* A function lies in the address space, and so does where its             *)
(* instructions lead; a cmov loads a word.                                 *)
(***************************************************************************)
ASSUME CodesAssumption ==
    \A c \in Codes :
        /\ DOMAIN c \subseteq 0 .. MaxWord
        /\ \A a \in DOMAIN c :
            /\ c[a] \in [op : STRING, size : Nat, rel : Int]
            /\ a + c[a].size \in 0 .. MaxWord
            /\ c[a].op \in {"jcc", "jmp", "call"} => a + c[a].size + c[a].rel \in 0 .. MaxWord
            /\ c[a].op = "cmov" => c[a].rel \in 0 .. MaxWord

VARIABLES
    code,           \* the function that is run
    rip, rsp,       \* of m_PTRegs; rsp counts slots
    stk,            \* slot -> word
    cnt, ptr, tab,  \* a counter, a code address in a register, one in memory
    flags,          \* [bsym, zf]
    m_InsnCache,    \* entry -> [insn, live]: live until the instruction is deleted
    isret,          \* the slots that hold a return address
    z3_api_calls,   \* solver calls so far
    status          \* "run", "ended", "abort", or "corrupt" after undefined behaviour

vars == <<code, rip, rsp, stk, cnt, ptr, tab, flags, m_InsnCache, isret, z3_api_calls, status>>

data == <<code, ptr, tab>>

Slots == 0 .. Depth - 1
term_rsp == Depth - 1

Con(v) == [marked |-> FALSE, con |-> v, sym |-> 0]
Sym(v) == [marked |-> TRUE, con |-> 0, sym |-> v]
Seen(w) == IF w.marked THEN w.sym ELSE w.con

(* A write past bitmap and list: by the host, or through a raw pointer.    *)
Raw(w, v) == [w EXCEPT !.con = v]

-----------------------------------------------------------------------------
(* Fetching                                                                *)

(* Mutant: the mask is one bit short.                                      *)
shortIdx(a) == a % (CacheSize \div 2)

Idx(a) == a % CacheSize

(* The mask is wide enough for a function: 0xFFFFFFF, that is 256 MB.      *)
ASSUME CacheAssumption ==
    \A c \in Codes : \A a, b \in DOMAIN c : a % CacheSize = b % CacheSize => a = b

Cached == m_InsnCache[Idx(rip)] # NoInsn

Fetched == IF Cached THEN m_InsnCache[Idx(rip)].insn ELSE code[rip]

Dangling == Cached /\ ~m_InsnCache[Idx(rip)].live

(* InstrInfo takes the cached instruction over, and its shared_ptr deletes *)
(* it when the symbolic executor has run.                                  *)
Used(i, symbolic) ==
    m_InsnCache' = [m_InsnCache EXCEPT ![Idx(rip)] =
                        [insn |-> i, live |-> ~Dangling /\ ~symbolic]]

(* Undefined behaviour: nothing more is said of the run.  The outcome in   *)
(* which memory happens to be intact is the ordinary step.                 *)
Corrupt ==
    /\ status' = "corrupt"
    /\ UNCHANGED <<data, rip, rsp, stk, cnt, flags, m_InsnCache, isret, z3_api_calls>>

(* A deleted instruction is fetched.                                       *)
UseFreed == Dangling /\ Corrupt

Next1(i) == rip + i.size

(* Mutant: the end is one slot too far.                                    *)
endsLate == status' = IF rsp' > term_rsp + 1 THEN "ended" ELSE "run"

(* The check at the end of an iteration                                    *)
CheckEnd == status' = IF rsp' > term_rsp THEN "ended" ELSE "run"

Abort(i) ==
    /\ Used(i, FALSE)
    /\ status' = "abort"
    /\ UNCHANGED <<data, rip, rsp, stk, cnt, flags, isret, z3_api_calls>>

-----------------------------------------------------------------------------
(* Mutant: the loop goes on without moving past a nop.                     *)
nopStays(i) ==
    /\ i.op = "nop"
    /\ Used(i, FALSE)
    /\ UNCHANGED <<data, rip, rsp, stk, cnt, flags, isret, z3_api_calls, status>>

(* nop goes on without the check.                                          *)
SkipNop(i) ==
    /\ i.op = "nop"
    /\ rip' = Next1(i)
    /\ Used(i, FALSE)
    /\ UNCHANGED <<data, rsp, stk, cnt, flags, isret, z3_api_calls, status>>

(* Mutant: the return address is read through bitmap and list.             *)
retReadsSymbol(i) ==
    /\ i.op = "ret"
    /\ rip' = Seen(stk[rsp])
    /\ rsp' = rsp + 1
    /\ Used(i, FALSE) /\ CheckEnd
    /\ UNCHANGED <<data, stk, cnt, flags, isret, z3_api_calls>>

dispatchRet(i) ==
    /\ i.op = "ret"
    /\ rip' = stk[rsp].con
    /\ rsp' = rsp + 1
    /\ Used(i, FALSE) /\ CheckEnd
    /\ UNCHANGED <<data, stk, cnt, flags, isret, z3_api_calls>>

(* "push ret addr" writes the concrete byte layer only.                    *)
PushRet(i, target) ==
    /\ rip' = target
    /\ rsp' = rsp - 1
    /\ stk' = [stk EXCEPT ![rsp - 1] = Raw(@, Next1(i))]
    /\ isret' = isret \cup {rsp - 1}
    /\ Used(i, FALSE) /\ CheckEnd
    /\ UNCHANGED <<data, cnt, flags, z3_api_calls>>

(* Direct, through a register, through memory: a symbolic target aborts.   *)
dispatchCall(i) ==
    \/ i.op = "call"  /\ PushRet(i, Next1(i) + i.rel)
    \/ i.op = "callr" /\ IF ptr.marked THEN Abort(i) ELSE PushRet(i, ptr.con)
    \/ i.op = "callm" /\ IF tab.marked THEN Abort(i) ELSE PushRet(i, tab.con)

(* EvalCondition by the seed, and the table of its times.                  *)
Solved == z3_api_calls' = z3_api_calls + 1

(* Nothing stops the counter at the end of the table.                      *)
OverrunTable(i) ==
    /\ i.op \in {"jcc", "cmov"} /\ flags.bsym
    /\ z3_api_calls >= Z3Slots
    /\ Corrupt

(* updateJCCDecision: ConcreteFlag after a symbolic decision.              *)
updateJCCDecision ==
    IF flags.bsym THEN Solved /\ flags' = [flags EXCEPT !.bsym = FALSE]
    ELSE UNCHANGED <<flags, z3_api_calls>>

Jumps(i, target) ==
    /\ rip' = target
    /\ UNCHANGED <<data, rsp, stk, cnt, isret>>
    /\ Used(i, FALSE) /\ CheckEnd

(* A jump through memory asserts that its target is symbolic; if so, rip   *)
(* is taken from a field that the read has not set.                        *)
dispatchBranch(i) ==
    \/ /\ i.op = "jcc"
       /\ updateJCCDecision
       /\ Jumps(i, IF flags.zf THEN Next1(i) ELSE Next1(i) + i.rel)
    \/ i.op = "jmp" /\ Jumps(i, Next1(i) + i.rel) /\ UNCHANGED <<flags, z3_api_calls>>
    \/ /\ i.op = "jmpr"
       /\ IF ptr.marked THEN Abort(i)
          ELSE Jumps(i, ptr.con) /\ UNCHANGED <<flags, z3_api_calls>>
    \/ i.op = "jmpm" /\ IF tab.marked THEN Corrupt ELSE Abort(i)

-----------------------------------------------------------------------------
(* A cmov on symbolic flags that does not hold goes on without the check.  *)
SkipConditional(i) ==
    /\ i.op = "cmov" /\ flags.bsym /\ ~flags.zf
    /\ Solved
    /\ rip' = Next1(i)
    /\ Used(i, FALSE)
    /\ UNCHANGED <<data, rsp, stk, cnt, flags, isret, status>>

TakeConditional(i) ==
    /\ i.op = "cmov" /\ flags.bsym /\ flags.zf
    /\ Solved
    /\ rip' = Next1(i) /\ cnt' = Con(i.rel)
    /\ flags' = [flags EXCEPT !.bsym = FALSE]
    /\ UNCHANGED <<data, rsp, stk, isret>>
    /\ Used(i, TRUE) /\ CheckEnd

(* ConcreteFlag asks the instruction for its operation once it is deleted. *)
UseFreedAtOnce(i) == i.op = "cmov" /\ flags.bsym /\ flags.zf /\ Corrupt

(* hasSymOperand: the counter, and the slot that the instruction touches.  *)
Touched(i) == IF i.op = "push" THEN {rsp - 1} ELSE IF i.op \in {"pop", "top"} THEN {rsp} ELSE {}

hasSymOperand(i) ==
    \/ (i.op \in {"sub", "cmov", "push", "pop", "top"} /\ cnt.marked)
    \/ \E a \in Touched(i) : stk[a].marked

(* The effect of the remaining instructions on counter, stack and flags,   *)
(* given how a word is written.                                            *)
Effect(i, write(_, _), symbolic) ==
    /\ rip' = Next1(i)
    /\ rsp' = CASE i.op = "push" -> rsp - 1 [] i.op = "pop" -> rsp + 1 [] OTHER -> rsp
    /\ stk' = IF i.op = "push" THEN [stk EXCEPT ![rsp - 1] = write(@, cnt)] ELSE stk
    /\ cnt' = CASE i.op = "sub"  -> write(cnt, [cnt EXCEPT !.con = (@ - 1) % (MaxWord + 1),
                                                            !.sym = (@ - 1) % (MaxWord + 1)])
                [] i.op = "cmov" -> IF symbolic \/ flags.zf THEN write(cnt, Con(i.rel)) ELSE cnt
                [] i.op \in {"pop", "top"} -> write(cnt, stk[rsp])
                [] OTHER -> cnt
    /\ flags' = IF i.op = "sub" THEN [bsym |-> symbolic, zf |-> Seen(cnt) = 1] ELSE flags
    /\ isret' = isret \ (IF i.op = "push" THEN {rsp - 1} ELSE {})
    /\ Used(i, symbolic) /\ CheckEnd
    /\ UNCHANGED <<data, z3_api_calls>>

(* The symbolic executor writes all layers, the host the concrete one.     *)
Whole(old, new) == IF new.marked THEN Sym(new.sym) ELSE Con(new.con)
Image(old, new) == Raw(old, new.con)

Plain(i) == i.op \in {"sub", "push", "pop", "top"} \/ (i.op = "cmov" /\ ~flags.bsym)

RunSymbolic(i) == Plain(i) /\ hasSymOperand(i) /\ Effect(i, Whole, TRUE)
InsnDispatch(i) == Plain(i) /\ ~hasSymOperand(i) /\ Effect(i, Image, FALSE)

-----------------------------------------------------------------------------
(***************************************************************************)
(* What the refinement below assumes of the function: it does not read a   *)
(* return address whose slot was symbolic nor return to a symbolic word,   *)
(* no cmov with a symbolic operand has concrete flags that refuse it       *)
(* (module SymExec), and its stack has room in Depth slots.                *)
(***************************************************************************)
Deviates(i) ==
    \/ \E a \in Touched(i) \cap isret : i.op \in {"pop", "top"} /\ stk[a].marked
    \/ i.op = "ret" /\ rsp \notin isret /\ stk[rsp].marked
    \/ i.op \in {"push", "call", "callr", "callm"} /\ rsp = 0
    \/ i.op = "cmov" /\ ~flags.bsym /\ ~flags.zf /\ cnt.marked

Init ==
    /\ code \in Codes
    /\ rip = Entry /\ rsp = term_rsp
    /\ stk = [a \in Slots |-> Con(IF a = term_rsp THEN Caller ELSE 0)]
    /\ \E c \in Counts : cnt \in {Con(c), Sym(c)}
    /\ ptr \in {Con(Handler), Sym(Handler)} /\ tab \in {Con(Handler), Sym(Handler)}
    /\ flags = [bsym |-> FALSE, zf |-> FALSE]
    /\ m_InsnCache = [a \in 0 .. CacheSize - 1 |-> NoInsn]
    /\ isret = {term_rsp}
    /\ z3_api_calls = 0
    /\ status = "run"

Iteration ==
    LET i == Fetched
    IN  /\ rip \in DOMAIN code /\ ~Deviates(i)
        /\ \/ SkipNop(i) \/ dispatchRet(i) \/ dispatchCall(i) \/ dispatchBranch(i)
           \/ OverrunTable(i) \/ SkipConditional(i) \/ TakeConditional(i)
           \/ UseFreedAtOnce(i)
           \/ RunSymbolic(i) \/ InsnDispatch(i)

Next == status = "run" /\ (UseFreed \/ Iteration)

(* The loop runs on one thread and waits for nothing.                      *)
Spec == Init /\ [][Next]_vars /\ WF_vars(Next)

-----------------------------------------------------------------------------
Words == [marked : BOOLEAN, con : 0 .. MaxWord, sym : 0 .. MaxWord]

TypeOK ==
    /\ code \in Codes /\ rip \in 0 .. MaxWord /\ rsp \in 0 .. Depth
    /\ stk \in [Slots -> Words] /\ {cnt, ptr, tab} \subseteq Words
    /\ flags \in [bsym : BOOLEAN, zf : BOOLEAN]
    /\ isret \subseteq Slots /\ z3_api_calls \in Nat
    /\ status \in {"run", "ended", "abort", "corrupt"}

(***************************************************************************)
(* The loop never goes on in the caller: nop and a cmov that is skipped    *)
(* pass the check by, but everything that moves the stack pointer meets it.*)
(***************************************************************************)
StopsAtReturn == status = "run" => rsp <= term_rsp

(***************************************************************************)
(* Every instruction that the loop takes from m_InsnCache still exists:    *)
(* the comment at the fetch reads "get the Insn from the InsnCache or      *)
(* decoding on the site", and a hit is used without a check.               *)
(***************************************************************************)
CachedInsnsLive == status = "run" => ~Dangling

(* The loop runs until the function has returned or the run has failed.    *)
RunEnds == <>(status # "run")

(***************************************************************************)
(* The run follows the native one for the seed: each iteration is one      *)
(* instruction at the native rip with the native stack pointer, counter    *)
(* and zero flag, whichever instructions were run symbolically, and each   *)
(* return goes back to its call even if the slot was symbolic before.      *)
(***************************************************************************)
Native == INSTANCE Flow WITH
    cpu <- [rip |-> rip, rsp |-> rsp, cnt |-> Seen(cnt), ptr |-> Seen(ptr), tab |-> Seen(tab),
            stk |-> [a \in Slots |-> IF a \in isret THEN stk[a].con ELSE Seen(stk[a])],
            zf |-> flags.zf]

FollowsSeed == Native!Spec
=============================================================================
