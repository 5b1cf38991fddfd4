------------------------------ MODULE SymExec -------------------------------
(***************************************************************************)
(* How KRover executes an instruction that is no jump, call or return: the *)
(* default case of processFunction (thinctrl.cpp) chooses between skipping *)
(* it, the handlers of SymExecutor (symexec.cpp) and the processor         *)
(* (ConExecutor), over the registers, the memory and the flags of VMState. *)
(*                                                                         *)
(* A symbolic byte is [val, fails]: a function of the world (the values of *)
(* the symbolic objects), and whether evaluating its expression with       *)
(* Z3Handler ends the run.  An expression is the sequence of its bytes.    *)
(* m_LastExpr is kept as what it means for the zero flag, m_Constraint as  *)
(* the worlds that satisfy it.  A failed assertion, exit(EXIT_FAILURE) and *)
(* an exception of the solver end the run.                                 *)
(***************************************************************************)
EXTENDS X86

CONSTANTS
    Insns,      \* the instructions of the program
    Objects,    \* <<address, size>> of the symbolic object in memory
    Worlds,     \* its values: 0 .. 2 ^ size - 1
    Seed,       \* the value that decides conditions
    MaxInsns,   \* bound on the instructions executed
    Conforming  \* TRUE: no instruction is run in a case that Deviates lists

ASSUME SymExecAssumption ==
    /\ Worlds = 0 .. 2 ^ Objects[2] - 1 /\ Seed \in Worlds
    /\ Zero = 0 /\ NoSym \notin [val : [Worlds -> Bit], fails : BOOLEAN]
    /\ {"rax", "rdx"} \subseteq Regs /\ \A i \in Insns : WellFormed(i)
    /\ Width \in Nat \ {0} /\ Width % 2 = 0
    /\ MemSize \in Nat \ {0} /\ MemSize % Width = 0
    /\ Objects \in Addr \X (Nat \ {0}) /\ Span(Objects[1], Objects[2]) \subseteq Addr
    /\ MaxInsns \in Nat /\ Conforming \in BOOLEAN

VARIABLES
    vm,         \* [reg, mem, rsp]: the layers of each register and of memory
    flags,      \* [bsym, fails, zf]: are the flags symbolic, does evaluating
                \* them fail, and the zero flag per world
    path,       \* the worlds that satisfy m_Constraint
    insn,       \* the instruction executed last
    status,     \* "run" or "abort"
    count       \* instructions so far

vars == <<vm, flags, path, insn, status, count>>

Stores == { vm.reg[r] : r \in Regs } \cup { vm.mem }

-----------------------------------------------------------------------------
(* Expressions: bytes that depend on the world.                            *)

ValueIn(e, w) == [j \in DOMAIN e |-> e[j].val[w]]

Expr(size, fails, word(_)) ==
    [j \in 0 .. size - 1 |-> [val |-> [w \in Worlds |-> word(w)[j]], fails |-> fails]]

(* The state of the machine in one world, and the one the host has.        *)
BytesIn(s, w) ==
    [o \in DOMAIN s.con |-> IF o \in s.marked THEN s.content[o].val[w] ELSE s.con[o]]

CpuIn(w) ==
    [reg |-> [r \in Regs |-> BytesIn(vm.reg[r], w)], mem |-> BytesIn(vm.mem, w),
     rsp |-> vm.rsp, zf |-> flags.zf[w]]

HostCpu ==
    [reg |-> [r \in Regs |-> vm.reg[r].con], mem |-> vm.mem.con,
     rsp |-> vm.rsp, zf |-> flags.zf[Seed]]

-----------------------------------------------------------------------------
(* Operands (oprand.cpp and the two parsers)                               *)

IsMem(o) == o.k \in {"mem", "ind"}

Store(o) == IF IsMem(o) THEN vm.mem ELSE vm.reg[o.r]

Where(o) == CASE o.k = "reg" -> At(o) [] o.k = "sum" -> 0
              [] OTHER -> AddrOf(HostCpu, o)

(* Where readConcreteValue and writeConcreteValue find it.                 *)
ConWhere(o) == IF o.k = "reg" THEN conOffset[o.v] ELSE Where(o)

IsSymOpd(o) == IsSym(Store(o), Where(o), Size(o))

(* isSYReg on the registers of an address                                  *)
SymAddr(i) ==
    \E o \in {i.dst, i.src} : o.k = "ind" /\ IsSym(vm.reg[o.r], 0, Width)

(* Operands that are only written: a memory cell among them is not looked  *)
(* at and counts as concrete.                                              *)
WritesOnly(op) == op \in {"mov", "movzx", "movsx", "lea", "pop", "set", "cmov"}

mayOperandUseSymbol_XX(o) == o.k \in {"reg", "sum"} /\ IsSymOpd(o)
mayOperandUseSymbol_RX(o) == IsSymOpd(o)
mayOperandUseSymbol_XW(o) == FALSE
mayOperandUseSymbol_RW(o) == IsSymOpd(o)

(* CThinCtrl::parseOperands: is the operand o of i symbolic?               *)
symb(i, o) ==
    IF ~IsMem(o) THEN mayOperandUseSymbol_XX(o)
    ELSE IF o # i.dst \/ i.op \in OnlyFlags THEN mayOperandUseSymbol_RX(o)
    ELSE IF WritesOnly(i.op) THEN mayOperandUseSymbol_XW(o)
    ELSE mayOperandUseSymbol_RW(o)

(* The expression that GetExpr combines of the cells fails if one of them  *)
(* does.                                                                   *)
OpdFails(o) ==
    \E a \in Span(Where(o), Size(o)) :
        Store(o).content[a] # NoSym /\ Store(o).content[a].fails

(* getSymValue: GetExpr fills the bytes without symbols from the image.    *)
getSymValue(o) ==
    LET s == Store(o)
        e == Expr(Size(o), OpdFails(o), LAMBDA w :
                [j \in 0 .. Size(o) - 1 |->
                    IF s.content[Where(o) + j] # NoSym THEN s.content[Where(o) + j].val[w]
                    ELSE s.con[ConWhere(o) + j]])
    IN  IF o.k = "sum"
        THEN Expr(Width, OpdFails(o), LAMBDA w : Word(Num(ValueIn(e, w)) + o.c, Width))
        ELSE e

(* getConValue: a register is sign-extended, a memory cell zero-extended.  *)
getConValue(o, size) ==
    IF o.k = "reg" THEN SExt(ImageOf(Store(o), ConWhere(o), Size(o)), size)
    ELSE ZExt(Get(HostCpu, o, size), size)

(* SymExecutor::_parseOperand_XX and _RX: an operand as a list of cells.   *)
parseOperand_XX(o) ==
    [symb |-> mayOperandUseSymbol_XX(o), cells |-> CellsOf(Store(o), Where(o), Size(o)),
     image |-> ImageOf(Store(o), ConWhere(o), Size(o))]
parseOperand_RX(o) ==
    [symb |-> IsSymOpd(o), cells |-> CellsOf(Store(o), Where(o), Size(o)),
     image |-> ImageOf(Store(o), ConWhere(o), Size(o))]

parseSource(o) ==
    IF o.k = "imm" THEN [symb |-> FALSE] ELSE
    IF IsMem(o) THEN parseOperand_RX(o) ELSE parseOperand_XX(o)

(* SymExecutor::_parseOperand_XW, XX: the destination of a mov or pop.     *)
parseOperand_XW(o) == FALSE
parseTarget(o) == IF IsMem(o) THEN parseOperand_XW(o) ELSE IsSymOpd(o)

WithStore(m, o, s) == IF IsMem(o) THEN [m EXCEPT !.mem = s] ELSE [m EXCEPT !.reg[o.r] = s]

StoreIn(m, o) == IF IsMem(o) THEN m.mem ELSE m.reg[o.r]

setConValue(m, o, val) ==
    WithStore(m, o, WriteCon(StoreIn(m, o), Where(o), ConWhere(o), Size(o), val))

setSymValue(m, o, e) ==
    WithStore(m, o, WriteExpr(StoreIn(m, o), Where(o), ConWhere(o), Size(o), e))

(* Mutant: the bits are set for the whole value, not only for the cells.   *)
setListMarksAll(m, o, src) ==
    WithStore(m, o, [WriteList(StoreIn(m, o), Where(o), ConWhere(o), Size(o), Where(o),
                               src.cells, src.image)
        EXCEPT !.marked = StoreIn(m, o).marked \cup Span(Where(o), Size(o))])

(* In a register the cells are taken relative to the full register.        *)
setSymList(m, o, src) ==
    WithStore(m, o, WriteList(StoreIn(m, o), Where(o), ConWhere(o), Size(o),
                              IF IsMem(o) THEN Where(o) ELSE 0, src.cells, src.image))

(* setConValue knows no OPTY_MEMCELLSYM and exits.                         *)
Refused(i, o) == IsMem(o) /\ symb(i, o)

-----------------------------------------------------------------------------
(* The handlers                                                            *)

Abort == status' = "abort" /\ UNCHANGED <<vm, flags>>

Writes(m) == vm' = m /\ UNCHANGED <<flags, status>>

Fails(e) == \E j \in DOMAIN e : e[j].fails

(* SaveFlagChangingInstructionExpr                                         *)
Saves(e) ==
    flags' = [bsym |-> TRUE, fails |-> Fails(e),
              zf |-> [w \in Worlds |-> Num(ValueIn(e, w)) = 0]]

(* The value of an operand in a world, where a handler mixes both kinds.   *)
Mixed(i, o, size, w) ==
    IF symb(i, o) THEN ValueIn(getSymValue(o), w) ELSE getConValue(o, size)

SrcSize(i) == IF i.src.k = "imm" THEN Size(i.dst) ELSE Size(i.src)

(* A ConstExpr has the size that dyninst gives the operand; only cmp puts  *)
(* the size of the other operand in its place.  The solver refuses words   *)
(* of different sizes.                                                     *)
WidthsDiffer(i) ==
    /\ i.op \in Binary \ {"cmp"}
    /\ (IF i.src.k = "imm" THEN i.src.n ELSE Size(i.src)) # Size(i.dst)

MixedFails(i) == \E o \in {i.dst, i.src} : symb(i, o) /\ OpdFails(o)

(* The expression of an operation on the two operands.                     *)
Combined(i) ==
    LET size == Size(i.dst)
    IN  Expr(size, WidthsDiffer(i) \/ MixedFails(i), LAMBDA w :
                Alu(i.op, Mixed(i, i.dst, size, w),
                    IF i.op \in Unary THEN <<>> ELSE Mixed(i, i.src, SrcSize(i), w)))

(***************************************************************************)
(* An expression that Z3Handler cannot evaluate: SignExtExpr and ZeroExt-  *)
(* Expr, an ExtractExpr beyond its operand, a division of unequal sizes.   *)
(* Evaluating it ends the run, so no step can tell its value; val is the   *)
(* one that the machine has for operand o after the instruction.           *)
(***************************************************************************)
Unevaluable(i, o) ==
    Expr(Size(o), TRUE, LAMBDA w :
            IF w \in path THEN Get(Exec(CpuIn(w), i), o, Size(o)) ELSE Zeroes(Size(o)))

Computes(i) ==
    LET oe == Combined(i)
    IN  /\ vm' = IF i.op \in OnlyFlags THEN vm ELSE setSymValue(vm, i.dst, oe)
        /\ Saves(oe)
        /\ UNCHANGED status

process_add(i) == i.op = "add" /\ Computes(i)
process_sub(i) == i.op = "sub" /\ Computes(i)
process_and(i) == i.op = "and" /\ Computes(i)
process_or(i) == i.op = "or" /\ Computes(i)
process_xor(i) == i.op = "xor" /\ Computes(i)
process_test(i) == i.op = "test" /\ Computes(i)
process_cmp(i) == i.op = "cmp" /\ Computes(i)
process_neg(i) == i.op = "neg" /\ Computes(i)

(* The shift of a symbolic value by a concrete count only.                 *)
process_shl_sal(i) ==
    /\ i.op = "shl"
    /\ IF symb(i, i.dst) /\ ~symb(i, i.src) THEN Computes(i) ELSE Abort

(* shr and sar read the count from the symbolic operand, not saves flags   *)
(* that it does not change, shrd is not there: each ends the run.          *)
process_shr(i) == i.op = "shr" /\ Abort
process_sar(i) == i.op = "sar" /\ Abort
process_not(i) == i.op = "not" /\ Abort
process_shrd(i) == i.op = "shrd" /\ Abort

process_mov(i) ==
    /\ i.op = "mov"
    /\ LET src == parseSource(i.src)
       IN  IF src.symb THEN Writes(setSymList(vm, i.dst, src))
           ELSE IF parseTarget(i.dst)
           THEN Writes(setConValue(vm, i.dst, getConValue(i.src, Size(i.dst))))
           ELSE Abort

process_lea(i) ==
    /\ i.op = "lea"
    /\ Writes(IF symb(i, i.src) THEN setSymValue(vm, i.dst, getSymValue(i.src))
              ELSE setConValue(vm, i.dst, getConValue(i.src, Width)))

(* SignExtExpr and ZeroExtExpr of the source.                              *)
Extends(i) ==
    Writes(IF symb(i, i.src) THEN setSymValue(vm, i.dst, Unevaluable(i, i.dst))
           ELSE setConValue(vm, i.dst, getConValue(i.src, Size(i.dst))))

process_movsx(i) == i.op = "movsx" /\ Extends(i)
process_movzx(i) == i.op = "movzx" /\ Extends(i)

process_xchg(i) ==
    /\ i.op = "xchg"
    /\ LET size == Size(i.dst)
       IN  IF symb(i, i.dst) /\ symb(i, i.src)
           THEN Writes(setSymValue(setSymValue(vm, i.dst, getSymValue(i.src)),
                                   i.src, getSymValue(i.dst)))
           ELSE IF symb(i, i.dst)
           THEN IF Refused(i, i.dst) THEN Abort
                ELSE Writes(setSymValue(setConValue(vm, i.dst, getConValue(i.src, size)),
                                        i.src, getSymValue(i.dst)))
           ELSE IF Refused(i, i.src) THEN Abort
           ELSE Writes(setConValue(setSymValue(vm, i.dst, getSymValue(i.src)),
                                   i.src, getConValue(i.dst, size)))

(* Mutant: the stack pointer moves by two slots.                           *)
popTwoSlots(i) ==
    /\ i.op = "pop"
    /\ Writes([vm EXCEPT !.rsp = @ + 2 * Width])

process_pop(i) ==
    /\ i.op = "pop"
    /\ LET src == parseOperand_RX(Slot(vm.rsp))
           m   == [vm EXCEPT !.rsp = @ + Width]
       IN  Writes(IF src.symb THEN setSymList(m, i.dst, src) ELSE setConValue(m, i.dst, src.image))

process_push(i) ==
    /\ i.op = "push"
    /\ LET src == parseSource(i.src)
           m   == [vm EXCEPT !.rsp = @ - Width]
           top == Slot(m.rsp)
       IN  Writes(IF src.symb THEN setSymList(m, top, src)
                  ELSE setConValue(m, top, getConValue(i.src, Width)))

(* With a symbolic lower half, the SignExtExpr of the whole register.      *)
process_cbw(i) ==
    /\ i.op = "cbw"
    /\ LET low == Half(vm.reg["rax"].con, 0)
       IN  Writes(IF IsSym(vm.reg["rax"], 0, Width \div 2)
                  THEN setSymValue(vm, Acc, Unevaluable(i, Acc))
                  ELSE setConValue(vm, Acc, SExt(low, Width)))

(* The upper half of a SignExtExpr.                                        *)
process_cdq(i) ==
    /\ i.op = "cdq"
    /\ Writes(IF symb(i, Acc) THEN setSymValue(vm, Ext, Unevaluable(i, Ext))
              ELSE setConValue(vm, Ext,
                        Half(SExt(getConValue(Acc, Width), 2 * Width), Width)))

ProductIn(i, w) ==
    Word(Num(Mixed(i, Acc, Width, w)) * Num(Mixed(i, i.src, Width, w)), 2 * Width)

(***************************************************************************)
(* A MulExpr is as wide as its operands: its lower half is the product's,  *)
(* what is extracted above it is out of range.  The result of the first    *)
(* read is asserted before it is assigned: with a symbolic rax the handler *)
(* may stop.                                                               *)
(***************************************************************************)
process_mul(i) ==
    /\ i.op = "mul"
    /\ \/ Writes(IF symb(i, Acc) \/ symb(i, i.src)
                 THEN setSymValue(setSymValue(vm, Acc,
                            Expr(Width, MixedFails(i), LAMBDA w : Half(ProductIn(i, w), 0))),
                        Ext, Unevaluable(i, Ext))
                 ELSE setConValue(setConValue(vm, Acc, Half(ProductIn(i, Seed), 0)),
                        Ext, Half(ProductIn(i, Seed), Width)))
       \/ symb(i, Acc) /\ Abort

(* Quotient and remainder are the same iDivExpr, of a dividend that is     *)
(* twice as wide as the divisor.                                           *)
process_idiv(i) ==
    /\ i.op = "idiv"
    /\ Writes(setSymValue(setSymValue(vm, Acc, Unevaluable(i, Acc)), Ext, Unevaluable(i, Ext)))

process_cmovxx(i) ==
    /\ i.op = "cmov"
    /\ vm' = IF symb(i, i.src) THEN setSymValue(vm, i.dst, getSymValue(i.src))
             ELSE setConValue(vm, i.dst, getConValue(i.src, Size(i.dst)))
    /\ UNCHANGED status

process_set(i) ==
    /\ i.op = "set"
    /\ vm' = setConValue(vm, i.dst, Word(1, Size(i.dst)))
    /\ UNCHANGED status

(* SymExecutor::run                                                        *)
run(i) ==
    \/ process_mov(i) \/ process_lea(i) \/ process_movsx(i) \/ process_movzx(i)
    \/ process_add(i) \/ process_sub(i) \/ process_and(i) \/ process_or(i) \/ process_xor(i)
    \/ process_test(i) \/ process_cmp(i) \/ process_neg(i) \/ process_not(i)
    \/ process_shl_sal(i) \/ process_shr(i) \/ process_sar(i) \/ process_shrd(i)
    \/ process_xchg(i) \/ process_pop(i) \/ process_push(i)
    \/ process_cbw(i) \/ process_cdq(i) \/ process_mul(i) \/ process_idiv(i)
    \/ process_cmovxx(i) /\ UNCHANGED flags
    \/ process_set(i) /\ UNCHANGED flags

-----------------------------------------------------------------------------
(* The dispatcher                                                          *)

Implied(op) ==
    CASE op = "cbw" -> {Acc} [] op \in {"cdq", "mul", "idiv"} -> {Acc, Ext} [] OTHER -> {}

Operands(i) == { o \in {i.dst, i.src} : o.k \notin {"imm", "none"} } \cup Implied(i.op)

(* checkImplicitMemAccess: the stack slot of push and pop                  *)
checkImplicitMemAccess(i) ==
    \/ i.op = "pop"  /\ IsSymOpd(Slot(vm.rsp))
    \/ i.op = "push" /\ IsSymOpd(Slot(vm.rsp - Width))

OpdhasSymReg(o) == ~IsMem(o) /\ IsSymOpd(o)
OpdhasSymMemCell(o) == IsMem(o) /\ IsSymOpd(o)

(* Mutant: the stack slot is not looked at.                                *)
onlyExplicitOperands(i) == \E o \in Operands(i) : OpdhasSymReg(o) \/ OpdhasSymMemCell(o)

hasSymOperand(i) ==
    \/ \E o \in Operands(i) : OpdhasSymReg(o) \/ OpdhasSymMemCell(o)
    \/ checkImplicitMemAccess(i)

IsConditional(i) == i.op \in {"cmov", "set"}

isFlagChangingInstr(op) == op \in Binary \cup {"neg", "idiv"}

(* dependFlagCon: the condition of the instruction is symbolic.            *)
Decides(i) == IsConditional(i) /\ flags.bsym

(* m_Regs has no ah, bh, ch, dh: the assertion of idxToReg fails.          *)
NoRegister(i) == \E o \in {i.dst, i.src} : o.k = "reg" /\ o.v = "h"

(* The condition cannot be evaluated; or an operand is looked at that is   *)
(* at a symbolic address or in no register of m_Regs.                      *)
Stops(i) ==
    \/ Decides(i) /\ flags.fails
    \/ (SymAddr(i) \/ NoRegister(i)) /\ (Decides(i) => flags.zf[Seed])

AbortRun(i) == Stops(i) /\ Abort /\ UNCHANGED path

(* EvalCondition: the seed decides, m_Constraint gets the condition.       *)
EvalCondition(taken) ==
    /\ flags.zf[Seed] = taken
    /\ path' = { w \in path : flags.zf[w] = taken }

(* A condition on symbolic flags: the flags become concrete only when it   *)
(* holds, otherwise the loop continues at once.                            *)
SkipConditional(i) ==
    /\ ~Stops(i) /\ Decides(i)
    /\ EvalCondition(FALSE)
    /\ UNCHANGED <<vm, flags, status>>

TakeConditional(i) ==
    /\ ~Stops(i) /\ Decides(i)
    /\ EvalCondition(TRUE)
    /\ process_cmovxx(i) \/ process_set(i)
    /\ flags' = [bsym |-> FALSE, fails |-> FALSE, zf |-> [w \in Worlds |-> TRUE]]

RunSymbolic(i) ==
    /\ ~Stops(i) /\ ~Decides(i)
    /\ hasSymOperand(i)
    /\ run(i)
    /\ UNCHANGED path

(* InsnDispatch, then clearAllSymFlag if the instruction sets flags.       *)
InsnDispatch(i) ==
    /\ ~Stops(i) /\ ~Decides(i)
    /\ ~hasSymOperand(i)
    /\ LET t == Exec(HostCpu, i)
       IN  /\ vm' = [reg |-> [r \in Regs |-> [vm.reg[r] EXCEPT !.con = t.reg[r]]],
                     mem |-> [vm.mem EXCEPT !.con = t.mem], rsp |-> t.rsp]
           /\ flags' = IF isFlagChangingInstr(i.op)
                       THEN [bsym |-> FALSE, fails |-> FALSE, zf |-> [w \in Worlds |-> t.zf]]
                       ELSE flags
    /\ UNCHANGED <<status, path>>

-----------------------------------------------------------------------------
(***************************************************************************)
(* The cases in which an instruction has another effect than on the        *)
(* machine.  They are what the refinement below assumes away.              *)
(***************************************************************************)

(* A value is read with symbols in bytes that are not marked.              *)
ReadsStale(i) ==
    \E o \in Operands(i) \cup (IF i.op = "pop" THEN {Slot(vm.rsp)} ELSE {}) :
        /\ IsSymOpd(o)
        /\ \E a \in Span(Where(o), Size(o)) :
                a \notin Store(o).marked /\ Store(o).content[a] # NoSym

Written(i) == IF i.op = "xchg" THEN {i.dst, i.src}
              ELSE IF i.op \in OnlyFlags THEN {} ELSE {i.dst}

ReadBy(i) == {i.src} \cup (IF i.op \in Binary \cup Unary \cup {"xchg"} THEN {i.dst} ELSE {})

(* The concrete value of al, dl, ... is sought in the second byte, or left *)
(* there: the byte is read or written without symbols, or the second byte  *)
(* is concrete and lost.                                                   *)
SecondByte(i) ==
    LET low(o) == o.k = "reg" /\ ConWhere(o) # Where(o)
    IN  /\ hasSymOperand(i) \/ Decides(i)
        /\ \/ \E o \in ReadBy(i) : low(o) /\ ~IsSymOpd(o)
           \/ \E o \in Written(i) :
                /\ low(o)
                /\ \/ ConWhere(o) \notin Store(o).marked
                   \/ i.op \notin Binary \cup Unary /\ \E p \in ReadBy(i) : ~symb(i, p)

(* A concrete operand is widened as getConValue does, not as the           *)
(* instruction does.                                                       *)
WrongWidening(i) ==
    /\ i.op \in {"movzx", "movsx"} /\ ~symb(i, i.src)
    /\ IsMem(i.src) <=> i.op = "movsx"
    /\ Negative(Get(HostCpu, i.src, 1))

(* A condition that does not hold: set leaves its operand alone, and with  *)
(* concrete flags and a symbolic operand the condition is not looked at.   *)
WrongConditional(i) ==
    /\ IsConditional(i) /\ ~flags.zf[Seed]
    /\ i.op = "set" \/ ~flags.bsym
    /\ Decides(i) \/ hasSymOperand(i)

(* The upper half of a register after a write of its lower half.           *)
KeepsUpperHalf(i) ==
    \E t \in Written(i) :
        /\ t.k = "reg" /\ t.v = "d"
        /\ \E w \in path, o \in Off : o >= Width \div 2 /\ BytesIn(vm.reg[t.r], w)[o] # 0

Deviates(i) ==
    \/ ReadsStale(i) \/ SecondByte(i) \/ WrongWidening(i)
    \/ WrongConditional(i) \/ KeepsUpperHalf(i)

-----------------------------------------------------------------------------
(* createSYMemObject                                                       *)
createSYMemObject(mem, at, size) ==
    WriteExpr(mem, at, at, size, Expr(size, FALSE, LAMBDA w : Word(w, size)))

Init ==
    /\ \E b, c \in Bit :
        vm = [reg |-> [r \in Regs |-> Concrete([o \in Off |-> b])],
              mem |-> createSYMemObject(Concrete([a \in Addr |-> c]), Objects[1], Objects[2]),
              rsp |-> MemSize]
    /\ flags = [bsym |-> FALSE, fails |-> FALSE, zf |-> [w \in Worlds |-> FALSE]]
    /\ path = Worlds
    /\ insn = [op |-> "none"]
    /\ status = "run"
    /\ count = 0

(* The default case of processFunction                                     *)
processInsn(i) ==
    /\ AbortRun(i) \/ SkipConditional(i) \/ TakeConditional(i) \/ RunSymbolic(i) \/ InsnDispatch(i)
    /\ insn' = IF status' = "abort" THEN insn ELSE i
    /\ count' = count + 1

Next ==
    /\ status = "run" /\ count < MaxInsns
    /\ \E i \in Insns :
        /\ Stops(i) \/ \A w \in path : Runs(CpuIn(w), i)
        /\ Conforming => ~Deviates(i)
        /\ processInsn(i)

Spec == Init /\ [][Next]_vars

-----------------------------------------------------------------------------
SymBytes == [val : [Worlds -> Bit], fails : BOOLEAN]

LayersOf(D) == [marked : SUBSET D, content : [D -> SymBytes \cup {NoSym}], con : [D -> Bit]]

TypeOK ==
    /\ vm \in [reg : [Regs -> LayersOf(Off)], mem : LayersOf(Addr), rsp : 0 .. MemSize]
    /\ flags \in [bsym : BOOLEAN, fails : BOOLEAN, zf : [Worlds -> BOOLEAN]]
    /\ path \subseteq Worlds /\ path # {}
    /\ status \in {"run", "abort"} /\ count \in 0 .. MaxInsns

(***************************************************************************)
(* No handler leaves a byte that the bitmap calls symbolic without a       *)
(* symbol in the list: reading it would find no cell (GetExpr asserts).    *)
(***************************************************************************)
MarkedIsCovered == \A s \in Stores : \A a \in s.marked : s.content[a] # NoSym

(***************************************************************************)
(* What the handlers, the host and the skipped instructions do together is *)
(* what the machine does in each world that satisfies the constraint:      *)
(* registers, memory, stack pointer and zero flag, whichever instructions  *)
(* were executed symbolically.  A byte that cannot be evaluated counts as  *)
(* the machine's (Unevaluable); Deviates lists the cases assumed away.     *)
(***************************************************************************)
Native == INSTANCE Machine WITH cpu <- [w \in path |-> CpuIn(w)]

ImplementsMachine == Native!Spec
=============================================================================
