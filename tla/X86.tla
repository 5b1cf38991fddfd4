-------------------------------- MODULE X86 ---------------------------------
(***************************************************************************)
(* The words and instructions of the machine that KRover runs on.  A byte  *)
(* of the model has one bit, so that a register of Width bytes shows       *)
(* carries, signs and sub-registers with few values.  Nothing here is code *)
(* of the repository: it is what dyninst and the processor supply.         *)
(*                                                                         *)
(* An instruction is a record [op, dst, src] of operands                   *)
(*    [k |-> "reg", r, v]     view v of register r                         *)
(*    [k |-> "mem", at, n]    n bytes at a fixed address                   *)
(*    [k |-> "ind", r, n]     n bytes at the address in register r         *)
(*    [k |-> "sum", r, c]     register r plus a constant (lea)             *)
(*    [k |-> "imm", c, n]     a constant, which dyninst calls n bytes wide *)
(*    [k |-> "none"]                                                       *)
(* A machine state is a record [reg, mem, rsp, zf] without symbols.        *)
(***************************************************************************)
EXTENDS Layers

CONSTANTS
    Regs,       \* the general registers: "rax", "rdx" (which some instructions imply)
    MemSize     \* bytes of memory; the stack grows down from its end

Bit == {0, 1}
Off == 0 .. Width - 1
Addr == 0 .. MemSize - 1

Len(v) == CHOOSE n \in 1 .. 2 * Width : DOMAIN v = 0 .. n - 1

Num(v) ==
    LET sum[n \in 0 .. Len(v)] == IF n = 0 THEN 0 ELSE sum[n - 1] + v[n - 1] * 2 ^ (n - 1)
    IN  sum[Len(v)]

Word(num, size) == [i \in 0 .. size - 1 |-> IF (num \div 2 ^ i) % 2 = 1 THEN 1 ELSE 0]

Negative(v) == v[Len(v) - 1] = 1

Signed(v) == IF Negative(v) THEN Num(v) - 2 ^ Len(v) ELSE Num(v)

ZExt(v, size) == [i \in 0 .. size - 1 |-> IF i < Len(v) THEN v[i] ELSE 0]

SExt(v, size) == [i \in 0 .. size - 1 |-> v[IF i < Len(v) THEN i ELSE Len(v) - 1]]

Half(v, at) == [i \in 0 .. (Len(v) \div 2) - 1 |-> v[at + i]]

Joined(hi, lo) == [i \in 0 .. 2 * Len(lo) - 1 |-> IF i < Len(lo) THEN lo[i] ELSE hi[i - Len(lo)]]

(* Division rounds towards 0.                                              *)
Quotient(a, b) ==
    LET abs(n) == IF n < 0 THEN -n ELSE n
        q      == abs(a) \div abs(b)
    IN  IF (a < 0) = (b < 0) THEN q ELSE -q

Remainder(a, b) == a - b * Quotient(a, b)

(* The operations on two words (shrd with a count of 1).                   *)
Alu(op, a, b) ==
    LET n == Len(a)
    IN  CASE op = "add"              -> Word(Num(a) + Num(b), n)
          [] op \in {"sub", "cmp"}   -> Word(Num(a) - Num(b), n)
          [] op \in {"and", "test"}  -> [i \in 0 .. n - 1 |-> a[i] * b[i]]
          [] op = "or"               -> [i \in 0 .. n - 1 |-> a[i] + b[i] - a[i] * b[i]]
          [] op = "xor"              -> [i \in 0 .. n - 1 |-> (a[i] + b[i]) % 2]
          [] op = "shl"              -> Word(Num(a) * 2 ^ Num(b), n)
          [] op = "shr"              -> Word(Num(a) \div 2 ^ Num(b), n)
          [] op = "sar"              -> Word(Signed(a) \div 2 ^ Num(b), n)
          [] op = "shrd"             -> Word((Num(b) * 2 ^ n + Num(a)) \div 2, n)
          [] op = "neg"              -> Word(-Num(a), n)
          [] op = "not"              -> [i \in 0 .. n - 1 |-> 1 - a[i]]

Binary == {"add", "sub", "cmp", "and", "test", "or", "xor", "shl", "shr", "sar", "shrd"}
Unary == {"neg", "not"}
OnlyFlags == {"cmp", "test"}

(* The operations that define the flags.                                   *)
SetsFlags(op) == op \in (Binary \cup Unary) \ {"not"}

-----------------------------------------------------------------------------
(* Registers that cdq, cbw, mul and idiv imply.                            *)
Acc == [k |-> "reg", r |-> "rax", v |-> "full"]
Ext == [k |-> "reg", r |-> "rdx", v |-> "full"]

At(o) == regIdxToAddrSize[o.v][1]

Size(o) == IF o.k = "reg" THEN regIdxToAddrSize[o.v][2]
           ELSE IF o.k \in {"mem", "ind"} THEN o.n ELSE Width

Slot(rsp) == [k |-> "mem", at |-> rsp, n |-> Width]

(* What can be written, and what can be read.                              *)
IsRegister(o) == o.k = "reg" /\ o.r \in Regs /\ o.v \in DOMAIN regIdxToAddrSize

IsTarget(o) ==
    \/ IsRegister(o)
    \/ o.k = "mem" /\ o.at \in Addr /\ o.n \in 1 .. Width /\ o.at + o.n <= MemSize
    \/ o.k = "ind" /\ o.r \in Regs /\ o.n \in 1 .. Width

IsSource(o) == IsTarget(o) \/ (o.k = "imm" /\ o.c \in Int /\ o.n \in 1 .. Width)

Shifts == {"shl", "shr", "sar", "shrd"}

(* The operands of an instruction: at most one of them is in memory.       *)
WellFormed(i) ==
    /\ ~(i.dst.k \in {"mem", "ind"} /\ i.src.k \in {"mem", "ind"})
    /\ CASE i.op \in {"mov", "cmov"} ->
                /\ IsTarget(i.dst) /\ IsSource(i.src)
                /\ i.src.k = "imm" \/ Size(i.src) = Size(i.dst)
                /\ i.op = "cmov" => IsRegister(i.dst) /\ IsTarget(i.src)
         [] i.op \in {"movzx", "movsx"} ->
                IsRegister(i.dst) /\ IsTarget(i.src) /\ Size(i.src) <= Size(i.dst)
         [] i.op = "lea"  -> /\ IsRegister(i.dst) /\ Size(i.dst) = Width
                             /\ i.src.k = "sum" /\ i.src.r \in Regs
         [] i.op = "xchg" ->
                /\ IsTarget(i.dst) /\ IsTarget(i.src) /\ Size(i.src) = Size(i.dst)
                /\ i.dst.k = "reg" /\ i.src.k = "reg" => (i.dst.v = "d" <=> i.src.v = "d")
         [] i.op = "set"  -> IsTarget(i.dst) /\ i.src.k = "none"
         [] i.op = "push" -> i.dst.k = "none" /\ IsSource(i.src) /\ Size(i.src) = Width
         [] i.op = "pop"  -> IsTarget(i.dst) /\ Size(i.dst) = Width /\ i.src.k = "none"
         [] i.op \in {"cbw", "cdq"} ->
                i.dst = (IF i.op = "cbw" THEN Acc ELSE Ext) /\ i.src.k = "none"
         [] i.op \in {"mul", "idiv"} -> i.dst = Acc /\ IsTarget(i.src) /\ Size(i.src) = Width
         [] i.op \in Binary ->
                /\ IsTarget(i.dst) /\ IsSource(i.src)
                /\ i.src.k = "imm" \/ Size(i.src) = Size(i.dst) \/ i.op \in Shifts
         [] i.op \in Unary -> IsTarget(i.dst) /\ i.src.k = "none"
         [] OTHER -> FALSE

-----------------------------------------------------------------------------
AddrOf(s, o) == IF o.k = "mem" THEN o.at ELSE Num(s.reg[o.r])

Get(s, o, size) ==
    CASE o.k = "imm" -> Word(o.c, size)
      [] o.k = "sum" -> Word(Num(s.reg[o.r]) + o.c, size)
      [] o.k = "reg" -> [i \in 0 .. Size(o) - 1 |-> s.reg[o.r][At(o) + i]]
      [] OTHER       -> [i \in 0 .. Size(o) - 1 |-> s.mem[AddrOf(s, o) + i]]

(* A write of the lower half of a register clears the upper half.          *)
Put(s, o, val) ==
    IF o.k = "reg"
    THEN [s EXCEPT !.reg[o.r] =
            Overlay(IF o.v = "d" THEN [i \in Off |-> 0] ELSE s.reg[o.r], At(o), val)]
    ELSE [s EXCEPT !.mem = Overlay(s.mem, AddrOf(s, o), val)]

(* The operand with its address computed.                                  *)
Resolved(s, o) == IF o.k = "ind" THEN [k |-> "mem", at |-> AddrOf(s, o), n |-> o.n] ELSE o

(* An instruction that does not fault: stack and memory in range, and a    *)
(* quotient that fits.                                                     *)
Runs(s, i) ==
    /\ i.op = "push" => s.rsp >= Width
    /\ i.op = "pop"  => s.rsp + Width <= MemSize
    /\ \A o \in {i.dst, i.src} : o.k = "ind" => AddrOf(s, o) \in 0 .. MemSize - o.n
    /\ i.op = "idiv" =>
        LET a == Signed(Joined(Get(s, Ext, Width), Get(s, Acc, Width)))
            b == Signed(Get(s, i.src, Width))
        IN  b # 0 /\ Quotient(a, b) \in -(2 ^ (Width - 1)) .. 2 ^ (Width - 1) - 1

(* The effect of one instruction.  A cmov whose condition does not hold    *)
(* writes its operand back.                                                *)
Exec(s, i) ==
    LET size == Size(IF i.op = "push" THEN i.src ELSE i.dst)
        a    == Get(s, i.dst, size)
        b    == Get(s, i.src, size)
    IN  CASE i.op \in {"mov", "lea"} -> Put(s, i.dst, b)
          [] i.op = "movzx" -> Put(s, i.dst, ZExt(b, size))
          [] i.op = "movsx" -> Put(s, i.dst, SExt(b, size))
          [] i.op = "xchg"  -> Put(Put(s, i.dst, b), Resolved(s, i.src), a)
          [] i.op = "cmov"  -> Put(s, i.dst, IF s.zf THEN b ELSE a)
          [] i.op = "set"   -> Put(s, i.dst, Word(IF s.zf THEN 1 ELSE 0, size))
          [] i.op = "push"  -> [Put(s, Slot(s.rsp - Width), b) EXCEPT !.rsp = @ - Width]
          [] i.op = "pop"   -> [Put(s, i.dst, Get(s, Slot(s.rsp), Width)) EXCEPT !.rsp = @ + Width]
          [] i.op = "cbw"   -> Put(s, Acc, SExt(Half(Get(s, Acc, Width), 0), Width))
          [] i.op = "cdq"   -> Put(s, Ext, Half(SExt(Get(s, Acc, Width), 2 * Width), Width))
          [] i.op = "mul"   ->
                LET p == Word(Num(Get(s, Acc, Width)) * Num(b), 2 * Width)
                IN  Put(Put(s, Acc, Half(p, 0)), Ext, Half(p, Width))
          [] i.op = "idiv"  ->
                LET n == Signed(Joined(Get(s, Ext, Width), Get(s, Acc, Width)))
                    d == Signed(b)
                IN  Put(Put(s, Acc, Word(Quotient(n, d), Width)), Ext, Word(Remainder(n, d), Width))
          [] i.op \in Binary \cup Unary ->
                LET c == Alu(i.op, a, IF i.op \in Unary THEN a ELSE b)
                    t == IF i.op \in OnlyFlags THEN s ELSE Put(s, i.dst, c)
                IN  IF SetsFlags(i.op) THEN [t EXCEPT !.zf = (Num(c) = 0)] ELSE t
=============================================================================
