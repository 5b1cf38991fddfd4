------------------------------ MODULE RegFile -------------------------------
(***************************************************************************)
(* The general registers of SYCPUState (CPUState.cpp).  Each full register *)
(* has a bitmap m_symBitmap, a symbol list m_symList and its bytes in      *)
(* m_PTRegs, and its sub-registers share all three.  The host processor    *)
(* writes m_PTRegs too, past the bitmap and the list.                      *)
(*                                                                         *)
(* want is what the bytes of the machine's register would be, and astray   *)
(* the bytes whose layers the code leaves different from it by design: no  *)
(* guard reads either.  A 4-byte write leaves the upper half that the      *)
(* machine clears, and the concrete byte of al, bl, ... is the second one  *)
(* (conOffset).                                                            *)
(***************************************************************************)
EXTENDS Layers

CONSTANTS
    Regs,       \* the full registers
    SubRegs,    \* the sub-registers that instructions use (m_Regs has no ah)
    ListRegs,   \* the ones that are written with a list of cells (mov, pop)
    SymByte,    \* bytes of symbolic expressions
    ConByte,    \* concrete bytes
    Spanning,   \* TRUE: lists reach both ends of the value; FALSE: any list
    ZeroedHeap  \* TRUE: the heap memory that `new SYCPUState()` gets is zero

Off == 0 .. Width - 1

ASSUME RegAssumption ==
    /\ Width \in Nat /\ Width >= 2
    /\ SubRegs \subseteq {"full", "d", "w", "l"} /\ ListRegs \subseteq SubRegs
    /\ Zero \in ConByte
    /\ SymByte \cap ConByte = {} /\ NoSym \notin SymByte
    /\ Spanning \in BOOLEAN /\ ZeroedHeap \in BOOLEAN

VARIABLES
    file,       \* register -> its three layers
    want,       \* register -> the bytes the machine's register has
    astray      \* register -> the bytes that need not be the machine's

vars == <<file, want, astray>>

At(sr) == regIdxToAddrSize[sr][1]
ConAt(sr) == conOffset[sr]
Size(sr) == regIdxToAddrSize[sr][2]

ConValues(size) == [0 .. size - 1 -> ConByte]
Exprs(size) == [0 .. size - 1 -> SymByte]
Lists(size) ==
    { sym \in UNION { [D -> SymByte] : D \in (SUBSET (0 .. size - 1)) \ {{}} } :
        Spanning => {0, size - 1} \subseteq DOMAIN sym }

(***************************************************************************)
(* What the machine does: a write of 32 bits clears the upper half, any    *)
(* other one leaves the rest of the register alone.                        *)
(***************************************************************************)
Wrote(r, sr, sym, val) ==
    want' = [want EXCEPT ![r] =
        [o \in Off |->
            IF o \notin Span(At(sr), Size(sr)) THEN (IF sr = "d" THEN Zero ELSE @[o])
            ELSE IF o - At(sr) \in DOMAIN sym THEN sym[o - At(sr)]
            ELSE val[o - At(sr)]]]

Touched(sr) == Span(At(sr), Size(sr))

(* What the machine clears and writeConcreteValue leaves.                  *)
UpperHalf(sr) == IF sr = "d" THEN Off \ Touched(sr) ELSE {}

(* Where the bitmap and the list have the value, and where m_PTRegs has it *)
(* when that is another place.                                             *)
Misplaced(sr) ==
    IF ConAt(sr) = At(sr) THEN {} ELSE Touched(sr) \cup Span(ConAt(sr), Size(sr))

(* After a write by the executor: a marked byte is read from the list.     *)
Strays(r, sr) ==
    astray' = [astray EXCEPT ![r] =
        (@ \ Touched(sr)) \cup UpperHalf(sr) \cup (Misplaced(sr) \ file'[r].marked)]

(* The constructor leaves m_symBitmap as the heap has it.                  *)
Init ==
    /\ \E con \in [Regs -> [Off -> ConByte]],
          bits \in [Regs -> IF ZeroedHeap THEN {{}} ELSE SUBSET Off] :
            file = [r \in Regs |-> [Concrete(con[r]) EXCEPT !.marked = bits[r]]]
    /\ want = [r \in Regs |-> file[r].con]
    /\ astray = [r \in Regs |-> {}]

(* Mutant: the bits of the whole register are cleared.                     *)
writeConClearsAll(r, sr, val) ==
    /\ file' = [file EXCEPT ![r] = [WriteCon(@, At(sr), ConAt(sr), Size(sr), val) EXCEPT !.marked = {}]]
    /\ Wrote(r, sr, <<>>, val)
    /\ Strays(r, sr)

(* Mutant: the bits are not cleared.                                       *)
writeConKeepsMark(r, sr, val) ==
    /\ file' = [file EXCEPT ![r] = [WriteCon(@, At(sr), ConAt(sr), Size(sr), val)
                                        EXCEPT !.marked = file[r].marked]]
    /\ Wrote(r, sr, <<>>, val)
    /\ Strays(r, sr)

(* Mutant: the symbols of the sub-register stay in the list.               *)
writeConKeepsSymbols(r, sr, val) ==
    /\ file' = [file EXCEPT ![r] = [WriteCon(@, At(sr), ConAt(sr), Size(sr), val)
                                        EXCEPT !.content = file[r].content]]
    /\ Wrote(r, sr, <<>>, val)
    /\ Strays(r, sr)

(* writeRegister, bsym = false                                             *)
writeRegisterCon(r, sr, val) ==
    /\ file' = [file EXCEPT ![r] = WriteCon(@, At(sr), ConAt(sr), Size(sr), val)]
    /\ Wrote(r, sr, <<>>, val)
    /\ Strays(r, sr)

(* Mutant: one bit too many is set.                                        *)
writeExprMarksOneMore(r, sr, expr) ==
    /\ file' = [file EXCEPT ![r] = [WriteExpr(@, At(sr), ConAt(sr), Size(sr), expr)
                    EXCEPT !.marked = file[r].marked \cup Span(At(sr), Size(sr) + 1)]]
    /\ Wrote(r, sr, expr, Zeroes(Size(sr)))
    /\ Strays(r, sr)

(* writeRegister with an expression                                        *)
writeRegisterExpr(r, sr, expr) ==
    /\ file' = [file EXCEPT ![r] = WriteExpr(@, At(sr), ConAt(sr), Size(sr), expr)]
    /\ Wrote(r, sr, expr, Zeroes(Size(sr)))
    /\ Strays(r, sr)

(***************************************************************************)
(* writeRegister with a list.  The cells are taken relative to the full    *)
(* register, whatever the sub-register is.                                 *)
(***************************************************************************)
writeRegisterList(r, sr, sym, val) ==
    /\ file' = [file EXCEPT ![r] = WriteList(@, At(sr), ConAt(sr), Size(sr), 0, sym, val)]
    /\ Wrote(r, sr, sym, val)
    /\ Strays(r, sr)

(* setConcreteCPUState: m_PTRegs is copied, bitmap and list stay.          *)
setConcreteCPUState(con) ==
    /\ file' = [r \in Regs |-> [file[r] EXCEPT !.con = con[r]]]
    /\ want' = [r \in Regs |-> [o \in Off |->
                    IF o \in file[r].marked THEN want[r][o] ELSE con[r][o]]]
    /\ astray' = [r \in Regs |-> astray[r] \cap file[r].marked]

(***************************************************************************)
(* An instruction that ConExecutor runs on the host: hasSymOperand has     *)
(* found no symbolic byte in its sub-register.  The host clears the upper  *)
(* half of m_PTRegs too, but not its symbols.                              *)
(***************************************************************************)
InsnDispatch(r, sr, val) ==
    /\ ~IsSym(file[r], At(sr), Size(sr))
    /\ file' = [file EXCEPT ![r] = [@ EXCEPT !.con =
                    Overlay(IF sr = "d" THEN Zeroes(Width) ELSE file[r].con, At(sr), val)]]
    /\ Wrote(r, sr, <<>>, val)
    /\ astray' = [astray EXCEPT ![r] =
            (@ \ (Touched(sr) \cup UpperHalf(sr))) \cup (UpperHalf(sr) \cap file[r].marked)]

Next ==
    \/ \E con \in [Regs -> [Off -> ConByte]] : setConcreteCPUState(con)
    \/ \E r \in Regs, sr \in SubRegs :
        \/ \E val \in ConValues(Size(sr)) : writeRegisterCon(r, sr, val)
        \/ \E val \in ConValues(Size(sr)) : InsnDispatch(r, sr, val)
        \/ \E expr \in Exprs(Size(sr)) : writeRegisterExpr(r, sr, expr)
        \/ /\ sr \in ListRegs
           /\ \E sym \in Lists(Size(sr)), val \in ConValues(Size(sr)) :
                writeRegisterList(r, sr, sym, val)

Spec == Init /\ [][Next]_vars

-----------------------------------------------------------------------------
(* readRegister: the bytes a sub-register has.                             *)
readRegister(r, sr) == ReadExpr(file[r], At(sr), ConAt(sr), Size(sr))

TypeOK ==
    /\ file \in [Regs -> [marked  : SUBSET Off,
                          content : [Off -> SymByte \cup {NoSym}],
                          con     : [Off -> ConByte]]]
    /\ want \in [Regs -> [Off -> SymByte \cup ConByte]]
    /\ astray \in [Regs -> SUBSET Off]

(***************************************************************************)
(* A byte that the bitmap calls symbolic has a symbol, so readRegister     *)
(* never sends GetCellList to an empty list.                               *)
(***************************************************************************)
MarkedIsCovered ==
    \A r \in Regs : \A o \in file[r].marked : file[r].content[o] # NoSym

(***************************************************************************)
(* However writes through overlapping sub-registers, writes by the host    *)
(* and reloads of m_PTRegs alternate, each byte of a register that is not  *)
(* astray is the one the machine would have: a symbol if marked, else the  *)
(* concrete byte.                                                          *)
(***************************************************************************)
BytesFresh ==
    \A r \in Regs : \A o \in Off \ astray[r] :
        want[r][o] = IF o \in file[r].marked THEN file[r].content[o] ELSE file[r].con[o]

ReadsAsWritten(r, sr) ==
    \A i \in 0 .. Size(sr) - 1 : readRegister(r, sr)[i] = want[r][At(sr) + i]

(***************************************************************************)
(* A sub-register whose bytes are not astray reads as the bytes last       *)
(* written to the register through any other one; al, bl, ... only while   *)
(* they are symbolic.  Rests on lists that reach both ends (Spanning).     *)
(***************************************************************************)
ReadsFresh ==
    \A r \in Regs, sr \in SubRegs :
        /\ Touched(sr) \cap astray[r] = {}
        /\ ConAt(sr) = At(sr) \/ IsSym(file[r], At(sr), Size(sr))
        => ReadsAsWritten(r, sr)
=============================================================================
