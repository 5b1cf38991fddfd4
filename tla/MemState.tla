------------------------------ MODULE MemState ------------------------------
(***************************************************************************)
(* SYMemState (MemState.cpp): symbolic memory as three layers that must    *)
(* agree.  The bitmap m_Bitmap says which bytes are symbolic, the list     *)
(* m_AllSymbolList holds their symbols, and the machine's own memory holds *)
(* the concrete bytes.                                                     *)
(*                                                                         *)
(* The bitmap is the set of marked bytes that module SYMemBitmap           *)
(* implements, the list the byte store that module SymList implements.     *)
(* A value is [sym, con]: con is its concrete image, sym the partial       *)
(* function from byte offsets to symbolic bytes that a list of cells with  *)
(* addresses relative to the value denotes (GetCellList); an expression is *)
(* a sym defined on every byte.                                            *)
(***************************************************************************)
EXTENDS Integers

CONSTANTS
    Addr,       \* the bytes of the modelled memory
    Sizes,      \* operand sizes in bytes
    BlockSize,  \* SYMEM_BLOCK_SIZE (32)
    CellSpan,   \* a symbolic value lies within one CellSpan (16)
    SymByte,    \* bytes of symbolic expressions
    ConByte,    \* concrete bytes
    Zero,       \* the byte 0
    NoSym,      \* the list holds no symbol
    Lost,       \* the last write to the byte did not go through
    Spanning    \* TRUE: callers pass only lists whose first and last cells
                \* reach the ends of the value; FALSE: any list

ASSUME MemAssumption ==
    /\ Addr \subseteq Int
    /\ Sizes \subseteq Nat \ {0}
    /\ BlockSize \in Nat \ {0} /\ CellSpan \in Nat \ {0}
    /\ Zero \in ConByte
    /\ SymByte \cap ConByte = {}
    /\ NoSym \notin SymByte
    /\ Lost \notin SymByte \cup ConByte
    /\ Spanning \in BOOLEAN

VARIABLES
    marked,     \* m_Bitmap: the bytes marked symbolic
    content,    \* m_AllSymbolList: Addr -> symbolic byte or NoSym
    mem,        \* the machine's memory: Addr -> concrete byte
    aborted,    \* an assertion failed
    want        \* Addr -> the byte last written there, or Lost

vars == <<marked, content, mem, aborted, want>>

List == INSTANCE SymBytes

Range(addr, size) == List!Span(addr, size)

(* addr - (addr & SYMEM_BLOCK_MASK) + size > SYMEM_BLOCK_SIZE *)
CrossesBlock(addr, size) == (addr % BlockSize) + size > BlockSize

(* !((addr & 0xf) + size <= 16) *)
CrossesCell(addr, size) == (addr % CellSpan) + size > CellSpan

Offsets(size) == 0 .. size - 1

ConValues(size) == [Offsets(size) -> ConByte]

(* The cell lists a caller may pass: not empty, and within the value.      *)
SymLists(size) ==
    { sym \in UNION { [D -> SymByte] : D \in (SUBSET Offsets(size)) \ {{}} } :
        Spanning => {0, size - 1} \subseteq DOMAIN sym }

(* sym moved to the address it is written to: tmp->addr += addr.           *)
At(addr, sym) == [a \in { b \in Addr : b - addr \in DOMAIN sym } |-> sym[a - addr]]

(* From the start of the first cell to the end of the last one.            *)
MergeRange(addr, sym) ==
    { a \in Addr : \E i, j \in DOMAIN sym : addr + i <= a /\ a <= addr + j }

writeConcreteValue(addr, size, con) ==
    mem' = [a \in Addr |-> IF a \in Range(addr, size) THEN con[a - addr] ELSE mem[a]]

Wrote(addr, size, sym, con) ==
    want' = [a \in Addr |-> IF a \notin Range(addr, size) THEN want[a]
                            ELSE IF a - addr \in DOMAIN sym THEN sym[a - addr]
                            ELSE con[a - addr]]

-----------------------------------------------------------------------------
Init ==
    /\ marked = {}
    /\ content = List!Empty
    /\ mem \in [Addr -> ConByte]
    /\ aborted = FALSE
    /\ want = mem

(* Mutant: the bitmap is not told.                                         *)
writeConcreteKeepsMark(addr, size, con) ==
    /\ ~aborted
    /\ List!Erase(addr, size)
    /\ writeConcreteValue(addr, size, con)
    /\ Wrote(addr, size, <<>>, con)
    /\ UNCHANGED <<marked, aborted>>

(* Mutant: the list is not told.                                           *)
writeConcreteKeepsSymbol(addr, size, con) ==
    /\ ~aborted
    /\ marked' = marked \ Range(addr, size)
    /\ writeConcreteValue(addr, size, con)
    /\ Wrote(addr, size, <<>>, con)
    /\ UNCHANGED <<content, aborted>>

(* Mutant: memory is not written.                                          *)
writeConcreteSkipsMemory(addr, size, con) ==
    /\ ~aborted
    /\ marked' = marked \ Range(addr, size)
    /\ List!Erase(addr, size)
    /\ Wrote(addr, size, <<>>, con)
    /\ UNCHANGED <<mem, aborted>>

(***************************************************************************)
(* writeMemoryCell with bsym = false: unmark, drop the symbols, write.     *)
(***************************************************************************)
writeConcrete(addr, size, con) ==
    /\ ~aborted
    /\ marked' = marked \ Range(addr, size)
    /\ List!Erase(addr, size)
    /\ writeConcreteValue(addr, size, con)
    /\ Wrote(addr, size, <<>>, con)
    /\ UNCHANGED aborted

(* A symbolic write that goes no further than its concrete image.          *)
Dropped(addr, size) ==
    /\ want' = [a \in Addr |-> IF a \in Range(addr, size) THEN Lost ELSE want[a]]
    /\ UNCHANGED <<marked, content>>

(***************************************************************************)
(* Both writeSymbolicValue refuse a value that crosses a chunk: by then    *)
(* writeMemoryCell has written the concrete image.                         *)
(***************************************************************************)
RefuseCrossChunk(addr, size) ==
    /\ CrossesBlock(addr, size)
    /\ Dropped(addr, size)
    /\ UNCHANGED aborted

(* assert((addr&0xf)+size<=16), after the concrete image is written.       *)
AssertWithinCell(addr, size) ==
    /\ ~CrossesBlock(addr, size) /\ CrossesCell(addr, size)
    /\ Dropped(addr, size)
    /\ aborted' = TRUE

Fits(addr, size) == ~CrossesBlock(addr, size) /\ ~CrossesCell(addr, size)

(* Mutant: one byte too many is marked.                                    *)
writeExprMarksOneMore(addr, size, expr) ==
    /\ ~aborted /\ Fits(addr, size)
    /\ writeConcreteValue(addr, size, [i \in Offsets(size) |-> Zero])
    /\ marked' = marked \cup (addr .. addr + size)
    /\ content' = List!Replaced(Range(addr, size), At(addr, expr))
    /\ Wrote(addr, size, expr, [i \in Offsets(size) |-> Zero])
    /\ UNCHANGED aborted

(***************************************************************************)
(* writeMemoryCell with an expression: setSymValue and createSYMemObject   *)
(* pass the concrete image 0.                                              *)
(***************************************************************************)
writeExpr(addr, size, expr) ==
    /\ ~aborted
    /\ writeConcreteValue(addr, size, [i \in Offsets(size) |-> Zero])
    /\ \/ RefuseCrossChunk(addr, size)
       \/ AssertWithinCell(addr, size)
       \/ /\ Fits(addr, size)
          /\ marked' = marked \cup Range(addr, size)
          /\ content' = List!Replaced(Range(addr, size), At(addr, expr))
          /\ Wrote(addr, size, expr, [i \in Offsets(size) |-> Zero])
          /\ UNCHANGED aborted

(* Mutant: the value is not unmarked before its cells are marked.          *)
writeSymListKeepsMark(addr, size, sym, con) ==
    /\ ~aborted /\ Fits(addr, size)
    /\ writeConcreteValue(addr, size, con)
    /\ marked' = marked \cup DOMAIN At(addr, sym)
    /\ content' = List!Replaced(MergeRange(addr, sym), At(addr, sym))
    /\ Wrote(addr, size, sym, con)
    /\ UNCHANGED aborted

(***************************************************************************)
(* writeMemoryCell with a list of cells: the whole value is unmarked, each *)
(* cell marked, and the list merged.                                       *)
(***************************************************************************)
writeSymList(addr, size, sym, con) ==
    /\ ~aborted
    /\ writeConcreteValue(addr, size, con)
    /\ \/ RefuseCrossChunk(addr, size)
       \/ AssertWithinCell(addr, size)
       \/ /\ Fits(addr, size)
          /\ marked' = (marked \ Range(addr, size)) \cup DOMAIN At(addr, sym)
          /\ content' = List!Replaced(MergeRange(addr, sym), At(addr, sym))
          /\ Wrote(addr, size, sym, con)
          /\ UNCHANGED aborted

Cells == { q \in Addr \X Sizes : q[1] + q[2] - 1 \in Addr }

Next ==
    \E q \in Cells :
        \/ \E con \in ConValues(q[2]) : writeConcrete(q[1], q[2], con)
        \/ \E expr \in [Offsets(q[2]) -> SymByte] : writeExpr(q[1], q[2], expr)
        \/ \E sym \in SymLists(q[2]), con \in ConValues(q[2]) :
                writeSymList(q[1], q[2], sym, con)

Spec == Init /\ [][Next]_vars

-----------------------------------------------------------------------------
(***************************************************************************)
(* readMemoryCell.  A range is read as symbolic when any of its bytes is   *)
(* marked; its bytes are then those of the list, the concrete byte where   *)
(* the list has none (GetExpr).  GetCellList needs a cell to return.       *)
(***************************************************************************)
isSYMemoryCell(addr, size) == Range(addr, size) \cap marked # {}

readable(addr, size) ==
    isSYMemoryCell(addr, size) =>
        /\ ~CrossesBlock(addr, size)
        /\ \E a \in Range(addr, size) : content[a] # NoSym

readMemoryCell(addr, size) ==
    [a \in Range(addr, size) |->
        IF isSYMemoryCell(addr, size) /\ content[a] # NoSym
        THEN content[a] ELSE mem[a]]

-----------------------------------------------------------------------------
(* Each layer maps the bytes of memory to values of its own.               *)
TypeOK ==
    /\ marked \in SUBSET Addr
    /\ content \in [Addr -> SymByte \cup {NoSym}]
    /\ mem \in [Addr -> ConByte]
    /\ aborted \in BOOLEAN
    /\ want \in [Addr -> SymByte \cup ConByte \cup {Lost}]

(***************************************************************************)
(* Every byte the bitmap calls symbolic has a symbol in the list, so a     *)
(* read that the bitmap sends to GetCellList finds a cell: the pointer     *)
(* that SymList.cpp:315 follows is never null.                             *)
(***************************************************************************)
MarkedIsCovered == \A a \in marked : content[a] # NoSym

(***************************************************************************)
(* Byte by byte, whatever mixture of writes came before, the bitmap, the   *)
(* list and the machine's memory give the byte last written: a marked byte *)
(* has its symbol in the list, an unmarked one its value in memory.  Only  *)
(* a refused cross-chunk write leaves bytes of which this cannot be said.  *)
(***************************************************************************)
BytesFresh ==
    \A a \in Addr :
        want[a] # Lost => want[a] = IF a \in marked THEN content[a] ELSE mem[a]

(***************************************************************************)
(* The bitmap and the list cover the same bytes.  Holds when every list    *)
(* that is written reaches both ends of its value (Spanning).              *)
(***************************************************************************)
LayersAgree == \A a \in Addr : a \in marked <=> content[a] # NoSym

(***************************************************************************)
(* A read of any size returns the bytes last written, never a symbol that  *)
(* a later write has replaced.                                             *)
(***************************************************************************)
ReadsFresh ==
    \A q \in Cells :
        (/\ readable(q[1], q[2])
         /\ \A a \in Range(q[1], q[2]) : want[a] # Lost)
            => \A a \in Range(q[1], q[2]) : readMemoryCell(q[1], q[2])[a] = want[a]
=============================================================================
