------------------------------ MODULE ConExec -------------------------------
(***************************************************************************)
(* The concrete executor (conexec.cpp).  An instruction is copied into a   *)
(* slot of 15 nops inside a trampoline that loads the guest's registers,   *)
(* runs the slot and saves them again.  An operand relative to rip would   *)
(* be relative to the slot, so RewRIPInsn encodes it anew with r15 as its  *)
(* base, and the second trampoline loads r15 with the guest's rip.         *)
(*                                                                         *)
(* Instructions are sequences of bytes.  Displacements stay sequences, for *)
(* their values do not fit TLC's integers.                                 *)
(***************************************************************************)
EXTENDS Integers, Sequences

CONSTANTS
    Insns,      \* the instructions that the loop may dispatch
    After       \* the byte that follows an instruction in memory

SlotSize == 15
NopByte == 144
Rex == 64 .. 79         \* 0x40 .. 0x4f
Prefix ==               \* the legacy prefixes; 101 is gs, 102 the operand size
    {38, 46, 54, 62, 100, 101, 102, 103, 240, 242, 243}

ASSUME ConExecAssumption ==
    /\ After \in 0 .. 255
    /\ \A b \in Insns : b \in Seq(0 .. 255) /\ Len(b) \in 1 .. SlotSize

-----------------------------------------------------------------------------
(* What the decoder, and the processor, make of bytes                      *)

(* dyninst's entryID; a second byte after 0x0f is counted from 256.  Some  *)
(* opcodes take their operation from the reg field.                        *)
Arithmetic == <<"add", "or", "adc", "sbb", "and", "sub", "xor", "cmp">>
Groups == {128, 129, 131, 198, 199, 246, 247}

Operation(key, reg) ==
    CASE key < 64 /\ key % 8 < 4     -> Arithmetic[(key \div 8) + 1]
      [] key \in {128, 129, 131}     -> Arithmetic[reg + 1]
      [] key \in (136 .. 140) \cup {142} -> "mov"
      [] key \in {198, 199} /\ reg = 0 -> "mov"
      [] key = 141 -> "lea"  [] key \in {134, 135} -> "xchg"  [] key \in {448, 449} -> "xadd"
      [] key \in {132, 133} \/ (key \in {246, 247} /\ reg < 2) -> "test"
      [] OTHER -> "other"

(* Opcodes with a byte register, whose numbers 4 .. 7 are ah, ch, dh, bh   *)
(* without REX and spl, bpl, sil, dil with it.                             *)
ByteRegister(key) ==
    (key < 64 /\ key % 8 \in {0, 2}) \/ key \in {132, 134, 136, 138, 448}

SignExtend(d) ==
    [k \in 1 .. 4 |-> IF k <= Len(d) THEN d[k]
                      ELSE IF Len(d) > 0 /\ d[Len(d)] >= 128 THEN 255 ELSE 0]

(* The bytes past the end of a sequence read as 0.                         *)
ByteAt(s, k) == IF k <= Len(s) THEN s[k] ELSE 0

(* The number of prefixes, REX included.                                   *)
Heads(s) ==
    CHOOSE n \in 0 .. Len(s) : /\ \A j \in 1 .. n : ByteAt(s, j) \in Prefix \cup Rex
                               /\ ByteAt(s, n + 1) \notin Prefix \cup Rex

(* The parts of an instruction with n prefixes: REX without its upper bits,*)
(* the bytes of the opcode and its number, the legacy prefixes.            *)
RexOf(s, n) == IF n > 0 /\ ByteAt(s, n) \in Rex THEN ByteAt(s, n) - 64 ELSE 0

Opcode(s, n) == IF ByteAt(s, n + 1) = 15 THEN 2 ELSE 1

KeyOf(s, n) == ByteAt(s, n + Opcode(s, n)) + (IF Opcode(s, n) = 2 THEN 256 ELSE 0)

Marks(s, n) == {ByteAt(s, j) : j \in 1 .. n} \cap Prefix

HasRex(s, n) == n > 0 /\ ByteAt(s, n) \in Rex

(* What the ModRM byte m announces: mod, reg, rm                           *)
DispSize(m) ==
    CASE m \div 64 = 0 -> (IF m % 8 = 5 THEN 4 ELSE 0) [] m \div 64 = 1 -> 1
      [] m \div 64 = 2 -> 4 [] m \div 64 = 3 -> 0

RegOf(m, rex) == ((m \div 8) % 8) + 8 * ((rex \div 4) % 2)

BaseOf(m, rex) ==
    IF m \div 64 = 3 THEN "direct" ELSE IF m \div 64 = 0 /\ m % 8 = 5 THEN "rip"
    ELSE IF (m % 8) + 8 * (rex % 2) = 15 THEN "r15" ELSE "other"

HighByte(s, n, m) ==
    ByteRegister(KeyOf(s, n)) /\ ~HasRex(s, n) /\ (m \div 8) % 8 \in 4 .. 7

(* The operand size prefix shortens an immediate of four bytes.            *)
ImmSize(s, n, m) ==
    LET key  == KeyOf(s, n)
        full == IF 102 \in Marks(s, n) /\ RexOf(s, n) \div 8 # 1 THEN 2 ELSE 4
    IN  CASE key \in {129, 199} -> full [] key \in {128, 131, 198} -> 1
          [] key = 246 /\ (m \div 8) % 8 < 2 -> 1
          [] key = 247 /\ (m \div 8) % 8 < 2 -> full [] OTHER -> 0

Field(s, from, size) == [k \in 1 .. size |-> ByteAt(s, from - 1 + k)]

(* The instruction at the head of s.                                       *)
Decode(s) ==
    LET n   == Heads(s)
        rex == RexOf(s, n)
        key == KeyOf(s, n)
        op  == n + Opcode(s, n)
        m   == ByteAt(s, op + 1)
        imm == op + 2 + DispSize(m)
    IN  IF key = NopByte THEN [op |-> "nop", len |-> op]
        ELSE [op   |-> Operation(key, (m \div 8) % 8), key |-> key,
              wide |-> rex \div 8 = 1, rex |-> rex, prefix |-> Marks(s, n),
              reg  |-> RegOf(m, rex), high |-> HighByte(s, n, m), base |-> BaseOf(m, rex),
              disp |-> SignExtend(Field(s, op + 2, DispSize(m))),
              imm  |-> Field(s, imm, ImmSize(s, n, m)), len |-> imm - 1 + ImmSize(s, n, m)]

(***************************************************************************)
(* One instruction with a ModRM byte and without a SIB byte, which none    *)
(* relative to rip has, as an assembler encodes it: no prefix twice and    *)
(* REX next to the opcode.                                                 *)
(***************************************************************************)
WellFormed(b) ==
    LET d == Decode(b)
    IN  /\ d.op # "nop" /\ d.len = Len(b)
        /\ \A j, k \in 1 .. Heads(b) : j < k => b[j] \notin Rex /\ b[j] # b[k]

ASSUME EncodingAssumption == \A b \in Insns : WellFormed(b)

(* What an instruction does, given the contents of the base registers.     *)
Effect(d, env) ==
    [key |-> d.key, wide |-> d.wide, prefix |-> d.prefix, reg |-> d.reg, high |-> d.high,
     imm |-> d.imm, addr |-> <<env[d.base], d.disp>>]

Env(rip, r15) == [rip |-> rip, r15 |-> r15, direct |-> "direct", other |-> "other"]

(* What a slot does from its k-th byte on; `from` is the rest.             *)
Onward(from, s, env, k) ==
    IF k = SlotSize THEN <<>>
    ELSE LET d == Decode(SubSeq(s, k + 1, SlotSize))
         IN  IF k + d.len > SlotSize THEN <<"overrun">>
             ELSE (IF d.op = "nop" THEN <<>> ELSE <<Effect(d, env)>>) \o from[k + d.len]

(* All that a slot does, given the environment that its trampoline loads.  *)
RunSlot(s, env) ==
    LET from[k \in 0 .. SlotSize] == Onward(from, s, env, k)
    IN  from[0]

-----------------------------------------------------------------------------
(* Rewriting                                                               *)

Or(x, bit) == IF (x \div bit) % 2 = 1 THEN x ELSE x + bit

(* rm becomes r15's, mod says how long the displacement is.                *)
NoDisp(m)   == Or(m, 2)
ShortDisp(m) == Or(Or(m, 2), 64)
LongDisp(m)  == Or(Or(m, 2), 128)

(* Mutant: a displacement with zero upper bytes is left out.               *)
dropsShort(p, m, k) ==
    IF \A j \in k + 1 .. k + 3 : p[j] = 0 THEN SubSeq([p EXCEPT ![m] = NoDisp(@)], 1, k - 1)
    ELSE SubSeq([p EXCEPT ![m] = LongDisp(@)], 1, k + 3)

(* The three cases by displacement: m is the place of the ModRM byte, k of *)
(* the first byte that is looked at.                                       *)
Shorten(p, m, k) ==
    IF \A j \in k .. k + 3 : p[j] = 0 THEN SubSeq([p EXCEPT ![m] = NoDisp(@)], 1, k - 1)
    ELSE IF \A j \in k + 1 .. k + 3 : p[j] = 0 THEN SubSeq([p EXCEPT ![m] = ShortDisp(@)], 1, k)
    ELSE SubSeq([p EXCEPT ![m] = LongDisp(@)], 1, k + 3)

(* 0x41, which selects r15, goes after a prefix.                           *)
WithRex(b) == <<b[1], 65>> \o SubSeq(b, 2, Len(b))

(* Some bytes are copied whatever the size of the instruction.             *)
First(b, size) == [k \in 1 .. size |-> IF k <= Len(b) THEN b[k] ELSE After]

Rewritten == {"mov", "cmp", "lea", "add", "sub"}

(* vmcall, without the code that tells the hypervisor to stop: it may      *)
(* return.  Then the rewriting goes on, or leaves the slot as it is.       *)
Vmcall(d, b) ==
    /\ d.op \in Rewritten
    /\ IF 101 \in d.prefix THEN d.op \notin {"mov", "add"} \/ Len(b) \notin {7, 8}
       ELSE Len(b) \notin {6, 7}

RewGs(d, b) ==
    IF d.op \in {"mov", "add"}
    THEN Shorten(CASE Len(b) = 7 -> WithRex(b) [] Len(b) = 8 -> [b EXCEPT ![2] = Or(@, 1)]
                   [] OTHER -> First(b, 8), 4, 5)
    ELSE <<>>

RewPlain(b) ==
    CASE Len(b) = 7 -> Shorten([b EXCEPT ![1] = Or(@, 1)], 3, 4)
      [] Len(b) = 6 -> Shorten(<<65>> \o b, 3, 4)
      [] OTHER -> <<>>

(* The stop code, or a failed assertion                                    *)
Stop == <<"stop">>

(* and, xadd: only with a displacement whose three low bytes are not zero. *)
RewLong(b, m) ==
    LET p == WithRex(b)
    IN  IF \A j \in m + 1 .. m + 3 : p[j] # 0 THEN [p EXCEPT ![m] = LongDisp(@)] ELSE Stop

RewTest(b) == Shorten(<<65>> \o First(b, 7), 3, 5)

(* The bytes that go into the slot                                         *)
RewRIPInsn(d, b) ==
    CASE d.op \in Rewritten -> IF 101 \in d.prefix THEN RewGs(d, b) ELSE RewPlain(b)
      [] d.op = "and" /\ 101 \in d.prefix -> IF Len(b) = 11 THEN RewLong(b, 4) ELSE Stop
      [] d.op = "xadd" -> IF Len(b) = 8 THEN RewLong(b, 5) ELSE Stop
      [] d.op = "test" -> RewTest(b)
      [] OTHER -> Stop

-----------------------------------------------------------------------------
VARIABLES
    non, rip,   \* the slots of InsnExecNonRIP and InsnExecRIP
    insn,       \* the instruction dispatched last
    ran,        \* what the trampoline did for it
    status      \* "run" or "stop"

vars == <<non, rip, insn, ran, status>>

NopBytes == [k \in 1 .. SlotSize |-> NopByte]

(* Mutant: the rest of the slot is one byte too long.                      *)
putsOneMore(slot, b) == b \o SubSeq(slot, Len(b), SlotSize)

(* memcpy to the head of a slot                                            *)
Put(slot, b) == b \o SubSeq(slot, Len(b) + 1, SlotSize)

(* Mutant: eight bytes at most are cleared, as an earlier version did.     *)
clearsEight(slot, size) == Put(slot, SubSeq(NopBytes, 1, IF size < 8 THEN size ELSE 8))

ClearTinsn(slot, size) == Put(slot, SubSeq(NopBytes, 1, size))

Init ==
    /\ non = NopBytes /\ rip = NopBytes
    /\ insn = <<NopByte>> /\ ran = <<>>
    /\ status = "run"

UsesR15(d) == d.reg = 15 /\ d.key \notin Groups

InsnExecRIP(d, b) ==
    /\ d.base = "rip" /\ ~UsesR15(d)
    /\ RewRIPInsn(d, b) # Stop
    /\ LET slot == Put(rip, RewRIPInsn(d, b))
       IN  ran' = RunSlot(slot, Env("slot", "rip")) /\ rip' = ClearTinsn(slot, 12)
    /\ insn' = b
    /\ UNCHANGED <<non, status>>

(* r15 is in use, or the instruction is none of those that are rewritten.  *)
GiveUp(d, b) ==
    /\ d.base = "rip" /\ (UsesR15(d) \/ Vmcall(d, b) \/ RewRIPInsn(d, b) = Stop)
    /\ insn' = b /\ ran' = <<>> /\ status' = "stop"
    /\ UNCHANGED <<non, rip>>

InsnExecNonRIP(d, b) ==
    /\ d.base # "rip"
    /\ LET slot == Put(non, b)
       IN  ran' = RunSlot(slot, Env("slot", "r15")) /\ non' = ClearTinsn(slot, Len(b))
    /\ insn' = b
    /\ UNCHANGED <<rip, status>>

InsnDispatch(b) ==
    LET d == Decode(b)
    IN  InsnExecRIP(d, b) \/ GiveUp(d, b) \/ InsnExecNonRIP(d, b)

Next == status = "run" /\ \E b \in Insns : InsnDispatch(b)

Spec == Init /\ [][Next]_vars

-----------------------------------------------------------------------------
(***************************************************************************)
(* The instructions that are rewritten to something else.  They are run    *)
(* like the others; the property RunsTheInstruction is not about them.     *)
(* (Where the bytes are none of the instructions above, `ran' is what      *)
(* Decode makes of them.)                                                  *)
(***************************************************************************)

(* 128 .. 255 becomes a displacement of one byte, which is negative.       *)
ShortNegative(d) ==
    /\ d.op \in Rewritten
    /\ d.disp[1] >= 128 /\ \A k \in 2 .. 4 : d.disp[k] = 0

(* The byte that is taken for REX is another prefix, or the opcode of an   *)
(* instruction with an immediate of one byte: 66 8b, 80, 83, c6.           *)
NotRex(d, b) ==
    /\ d.op \in Rewritten
    /\ IF 101 \in d.prefix THEN Len(b) = 8 /\ (b[1] # 101 \/ b[2] \notin Rex)
       ELSE Len(b) = 7 /\ b[1] \notin Rex

(* REX goes behind the first prefix, which is not the last.                *)
NotLast(d, b) == d.op = "and" /\ Heads(b) # 1

(* REX turns ah, ch, dh and bh into other registers.                       *)
NewRegister(d) == d.high

(* Only f6 without a prefix and with an immediate that is not zero has its *)
(* bytes where the rewriting of test expects them.                         *)
OtherTest(d, b) == d.op = "test" /\ (d.key # 246 \/ d.imm = <<0>> \/ Len(b) # 7)

(* 0x41 after another REX makes it void.                                   *)
TwoRex(d) == d.op = "xadd" /\ d.rex # 0

Deviates(d, b) ==
    /\ d.base = "rip"
    /\ \/ Vmcall(d, b) \/ ShortNegative(d) \/ NotRex(d, b) \/ NotLast(d, b)
       \/ NewRegister(d) \/ OtherTest(d, b) \/ TwoRex(d)

-----------------------------------------------------------------------------
TypeOK ==
    /\ {non, rip} \subseteq [1 .. SlotSize -> 0 .. 255]
    /\ insn \in Insns \cup {<<NopByte>>}
    /\ status \in {"run", "stop"}

(***************************************************************************)
(* Nothing of an instruction is left behind: what is cleared covers what   *)
(* was written, although the rewritten instruction is longer or shorter    *)
(* than the guest's.                                                       *)
(***************************************************************************)
SlotsClear == non = NopBytes /\ rip = NopBytes

(***************************************************************************)
(* A trampoline does what the guest's instruction does at the guest's rip: *)
(* the same operation, register, immediate and address, and nothing else,  *)
(* whatever was dispatched before, for the instructions that Deviates does *)
(* not list.                                                               *)
(***************************************************************************)
RunsTheInstruction ==
    status = "run" /\ insn # <<NopByte>> /\ ~Deviates(Decode(insn), insn)
        => ran = <<Effect(Decode(insn), Env("rip", "r15"))>>
=============================================================================
