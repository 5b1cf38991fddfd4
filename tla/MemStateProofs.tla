--------------------------- MODULE MemStateProofs ---------------------------
(***************************************************************************)
(* Proofs about MemState for every memory, chunk size, operand size and    *)
(* set of symbols, and about the bitmap below it.                          *)
(***************************************************************************)
EXTENDS MemState, SYMemBitmap, TLAPS

(* The range of a cell, as arithmetic on addresses.                        *)
LEMMA RangeFacts ==
    ASSUME NEW addr \in Addr, NEW size \in Sizes
    PROVE  /\ Range(addr, size) \subseteq Addr
           /\ \A a \in Addr : a \in Range(addr, size) <=> a - addr \in Offsets(size)
           /\ size \in Nat /\ size > 0 /\ addr \in Int
<1>1. addr \in Int /\ size \in Nat /\ size > 0
  BY MemAssumption
<1>2. \A a \in Addr : a \in Int
  BY MemAssumption
<1>3. QED
  BY <1>1, <1>2 DEF Range, List!Span, Offsets

(* A cell list that a caller passes is a non-empty partial function.       *)
LEMMA SymListFacts ==
    ASSUME NEW size \in Sizes, NEW sym \in SymLists(size)
    PROVE  /\ DOMAIN sym \subseteq Offsets(size)
           /\ DOMAIN sym # {}
           /\ \A i \in DOMAIN sym : sym[i] \in SymByte
           /\ Spanning => {0, size - 1} \subseteq DOMAIN sym
<1>1. PICK D \in (SUBSET Offsets(size)) \ {{}} : sym \in [D -> SymByte]
  BY DEF SymLists
<1>2. DOMAIN sym = D /\ \A i \in D : sym[i] \in SymByte
  BY <1>1
<1>3. QED
  BY <1>1, <1>2 DEF SymLists

(* The bytes of an expression or list, moved to its address.               *)
LEMMA AtFacts ==
    ASSUME NEW addr \in Addr, NEW size \in Sizes, NEW sym,
           DOMAIN sym \subseteq Offsets(size),
           \A i \in DOMAIN sym : sym[i] \in SymByte
    PROVE  /\ DOMAIN At(addr, sym) = { b \in Addr : b - addr \in DOMAIN sym }
           /\ DOMAIN At(addr, sym) \subseteq Range(addr, size)
           /\ \A a \in DOMAIN At(addr, sym) : /\ At(addr, sym)[a] = sym[a - addr]
                                              /\ At(addr, sym)[a] \in SymByte
<1>1. DOMAIN At(addr, sym) = { b \in Addr : b - addr \in DOMAIN sym }
  BY DEF At
<1>2. \A a \in DOMAIN At(addr, sym) : At(addr, sym)[a] = sym[a - addr]
  BY DEF At
<1>3. QED
  BY <1>1, <1>2, RangeFacts

(* A merge stays within the value that is written; a spanning list fills   *)
(* it.                                                                     *)
LEMMA MergeFacts ==
    ASSUME NEW addr \in Addr, NEW size \in Sizes, NEW sym \in SymLists(size)
    PROVE  /\ DOMAIN At(addr, sym) \subseteq MergeRange(addr, sym)
           /\ MergeRange(addr, sym) \subseteq Range(addr, size)
           /\ Spanning => MergeRange(addr, sym) = Range(addr, size)
<1>1. addr \in Int /\ size \in Nat /\ size > 0 /\ \A a \in Addr : a \in Int
  BY MemAssumption
<1>2. DOMAIN sym \subseteq 0 .. size - 1
  BY SymListFacts DEF Offsets
<1>3. MergeRange(addr, sym) \subseteq Range(addr, size)
  <2> SUFFICES ASSUME NEW a \in Addr, NEW i \in DOMAIN sym, NEW j \in DOMAIN sym,
                      addr + i <= a, a <= addr + j
               PROVE  a \in Range(addr, size)
    BY DEF MergeRange
  <2>1. i \in 0 .. size - 1 /\ j \in 0 .. size - 1 /\ a \in Int
    BY <1>1, <1>2
  <2>2. QED
    BY <1>1, <2>1 DEF Range, List!Span
<1>4. DOMAIN At(addr, sym) \subseteq MergeRange(addr, sym)
  <2> SUFFICES ASSUME NEW a \in Addr, a - addr \in DOMAIN sym
               PROVE  a \in MergeRange(addr, sym)
    BY DEF At
  <2>1. a \in Int
    BY <1>1
  <2>2. addr + (a - addr) <= a /\ a <= addr + (a - addr)
    BY <1>1, <2>1
  <2>3. QED
    BY <2>2 DEF MergeRange
<1>5. ASSUME Spanning PROVE Range(addr, size) \subseteq MergeRange(addr, sym)
  <2>1. 0 \in DOMAIN sym /\ size - 1 \in DOMAIN sym
    BY <1>5, SymListFacts
  <2> SUFFICES ASSUME NEW a \in Addr, a \in Range(addr, size)
               PROVE  a \in MergeRange(addr, sym)
    BY RangeFacts
  <2>2. a \in Int
    BY <1>1
  <2>3. addr + 0 <= a /\ a <= addr + (size - 1)
    BY <1>1, <2>2 DEF Range, List!Span
  <2>4. QED
    BY <2>1, <2>3 DEF MergeRange
<1>6. QED
  BY <1>3, <1>4, <1>5

-----------------------------------------------------------------------------
(* What the three writes have in common, byte by byte: each action leaves  *)
(* the bytes outside its range as they were in every layer.                *)
LEMMA ConcreteImage ==
    ASSUME NEW addr \in Addr, NEW size \in Sizes, NEW con \in ConValues(size),
           TypeOK, writeConcreteValue(addr, size, con)
    PROVE  /\ mem' \in [Addr -> ConByte]
           /\ \A a \in Addr : mem'[a] = IF a \in Range(addr, size)
                                        THEN con[a - addr] ELSE mem[a]
<1>1. \A a \in Range(addr, size) : a \in Addr /\ con[a - addr] \in ConByte
  BY RangeFacts DEF ConValues
<1>2. QED
  BY <1>1 DEF writeConcreteValue, TypeOK

LEMMA WroteFacts ==
    ASSUME NEW addr \in Addr, NEW size \in Sizes, NEW con \in ConValues(size),
           NEW sym, DOMAIN sym \subseteq Offsets(size),
           \A i \in DOMAIN sym : sym[i] \in SymByte,
           TypeOK, Wrote(addr, size, sym, con)
    PROVE  /\ want' \in [Addr -> SymByte \cup ConByte \cup {Lost}]
           /\ \A a \in Addr :
                want'[a] = IF a \notin Range(addr, size) THEN want[a]
                           ELSE IF a - addr \in DOMAIN sym THEN sym[a - addr]
                           ELSE con[a - addr]
<1>1. \A a \in Range(addr, size) : a \in Addr /\ con[a - addr] \in ConByte
  BY RangeFacts DEF ConValues
<1>2. QED
  BY <1>1 DEF Wrote, TypeOK

LEMMA DroppedFacts ==
    ASSUME NEW addr \in Addr, NEW size \in Sizes, TypeOK, Dropped(addr, size)
    PROVE  /\ want' \in [Addr -> SymByte \cup ConByte \cup {Lost}]
           /\ \A a \in Addr : want'[a] = IF a \in Range(addr, size) THEN Lost
                                         ELSE want[a]
           /\ marked' = marked /\ content' = content
BY DEF Dropped, TypeOK

(***************************************************************************)
(* The inductive invariant.  Freshness of a marked byte needs to know that *)
(* the byte has a symbol at all, and the types of the layers.              *)
(***************************************************************************)
IInv == TypeOK /\ MarkedIsCovered /\ BytesFresh

(* A write that stops after its concrete image keeps the invariant.        *)
LEMMA DropKeeps ==
    ASSUME NEW addr \in Addr, NEW size \in Sizes, NEW con \in ConValues(size),
           IInv, writeConcreteValue(addr, size, con), Dropped(addr, size),
           aborted' \in BOOLEAN
    PROVE  IInv'
<1>1. TypeOK
  BY DEF IInv
<1>2. TypeOK'
  BY <1>1, ConcreteImage, DroppedFacts DEF TypeOK
<1>3. MarkedIsCovered'
  BY <1>1, DroppedFacts DEF IInv, MarkedIsCovered
<1>4. BytesFresh'
  BY <1>1, ConcreteImage, DroppedFacts DEF IInv, BytesFresh
<1>5. QED
  BY <1>2, <1>3, <1>4 DEF IInv

(* A concrete write keeps the invariant.                                   *)
LEMMA ConcreteKeeps ==
    ASSUME NEW addr \in Addr, NEW size \in Sizes, NEW con \in ConValues(size),
           IInv, writeConcrete(addr, size, con)
    PROVE  IInv'
<1>1. TypeOK /\ writeConcreteValue(addr, size, con)
  BY DEF IInv, writeConcrete
<1>2. Range(addr, size) \in SUBSET Addr
  BY RangeFacts
<1>3. /\ content' \in [Addr -> SymByte \cup {NoSym}]
      /\ \A a \in Addr : content'[a] = IF a \in Range(addr, size) THEN NoSym
                                       ELSE content[a]
  BY <1>1, <1>2 DEF writeConcrete, List!Erase, List!Replaced, Range, TypeOK
<1>4. /\ want' \in [Addr -> SymByte \cup ConByte \cup {Lost}]
      /\ \A a \in Addr : want'[a] = IF a \in Range(addr, size)
                                    THEN con[a - addr] ELSE want[a]
  <2>1. DOMAIN <<>> = {}
    OBVIOUS
  <2>2. QED
    BY <1>1, <2>1, WroteFacts DEF writeConcrete
<1>5. marked' = marked \ Range(addr, size) /\ aborted' = aborted
  BY DEF writeConcrete
<1>6. TypeOK'
  BY <1>1, <1>3, <1>4, <1>5, ConcreteImage DEF TypeOK
<1>7. MarkedIsCovered'
  BY <1>1, <1>3, <1>5 DEF IInv, MarkedIsCovered, TypeOK
<1>8. BytesFresh'
  <2> SUFFICES ASSUME NEW a \in Addr, want'[a] # Lost
               PROVE  want'[a] = IF a \in marked' THEN content'[a] ELSE mem'[a]
    BY DEF BytesFresh
  <2>1. CASE a \in Range(addr, size)
    BY <1>1, <1>4, <1>5, <2>1, ConcreteImage
  <2>2. CASE a \notin Range(addr, size)
    BY <1>1, <1>3, <1>4, <1>5, <2>2, ConcreteImage DEF IInv, BytesFresh
  <2>3. QED
    BY <2>1, <2>2
<1>9. QED
  BY <1>6, <1>7, <1>8 DEF IInv

(***************************************************************************)
(* A symbolic write that goes through keeps the invariant: `range` is what *)
(* the merge replaces, the whole value for an expression.                  *)
(***************************************************************************)
LEMMA SymbolicKeeps ==
    ASSUME NEW addr \in Addr, NEW size \in Sizes, NEW con \in ConValues(size),
           NEW sym, DOMAIN sym \subseteq Offsets(size),
           \A i \in DOMAIN sym : sym[i] \in SymByte,
           NEW range \in SUBSET Range(addr, size),
           DOMAIN At(addr, sym) \subseteq range,
           IInv, writeConcreteValue(addr, size, con), Wrote(addr, size, sym, con),
           content' = List!Replaced(range, At(addr, sym)),
           marked' = (marked \ Range(addr, size)) \cup DOMAIN At(addr, sym),
           aborted' = aborted
    PROVE  IInv'
<1>1. TypeOK
  BY DEF IInv
<1>2. /\ DOMAIN At(addr, sym) = { b \in Addr : b - addr \in DOMAIN sym }
      /\ DOMAIN At(addr, sym) \subseteq Range(addr, size)
      /\ \A a \in DOMAIN At(addr, sym) : /\ At(addr, sym)[a] = sym[a - addr]
                                         /\ At(addr, sym)[a] \in SymByte
  BY AtFacts
<1>3. range \in SUBSET Addr
  BY RangeFacts
<1>4. /\ content' \in [Addr -> SymByte \cup {NoSym}]
      /\ \A a \in Addr : content'[a] = IF a \in DOMAIN At(addr, sym)
                                       THEN At(addr, sym)[a]
                                       ELSE IF a \in range THEN NoSym
                                       ELSE content[a]
  BY <1>1, <1>2, <1>3 DEF List!Replaced, TypeOK
<1>5. /\ want' \in [Addr -> SymByte \cup ConByte \cup {Lost}]
      /\ \A a \in Addr :
           want'[a] = IF a \notin Range(addr, size) THEN want[a]
                      ELSE IF a - addr \in DOMAIN sym THEN sym[a - addr]
                      ELSE con[a - addr]
  BY <1>1, WroteFacts
<1>6. /\ mem' \in [Addr -> ConByte]
      /\ \A a \in Addr : mem'[a] = IF a \in Range(addr, size)
                                   THEN con[a - addr] ELSE mem[a]
  BY <1>1, ConcreteImage
<1>7. TypeOK'
  BY <1>1, <1>2, <1>4, <1>5, <1>6 DEF TypeOK
<1>8. MarkedIsCovered'
  <2> SUFFICES ASSUME NEW a \in marked' PROVE content'[a] # NoSym
    BY DEF MarkedIsCovered
  <2>1. CASE a \in DOMAIN At(addr, sym)
    BY <1>2, <1>4, <2>1, MemAssumption
  <2>2. CASE a \notin DOMAIN At(addr, sym)
    BY <1>1, <1>4, <2>2 DEF IInv, MarkedIsCovered, TypeOK
  <2>3. QED
    BY <2>1, <2>2
<1>9. BytesFresh'
  <2> SUFFICES ASSUME NEW a \in Addr, want'[a] # Lost
               PROVE  want'[a] = IF a \in marked' THEN content'[a] ELSE mem'[a]
    BY DEF BytesFresh
  <2>1. CASE a \notin Range(addr, size)
    BY <1>2, <1>4, <1>5, <1>6, <2>1 DEF IInv, BytesFresh
  <2>2. CASE a \in Range(addr, size) /\ a \in DOMAIN At(addr, sym)
    BY <1>2, <1>4, <1>5, <2>2
  <2>3. CASE a \in Range(addr, size) /\ a \notin DOMAIN At(addr, sym)
    BY <1>2, <1>5, <1>6, <2>3
  <2>4. QED
    BY <2>1, <2>2, <2>3
<1>10. QED
  BY <1>7, <1>8, <1>9 DEF IInv
-----------------------------------------------------------------------------

(* The three outcomes of writing an expression.                            *)
LEMMA ExprKeeps ==
    ASSUME NEW addr \in Addr, NEW size \in Sizes,
           NEW expr \in [Offsets(size) -> SymByte],
           IInv, writeExpr(addr, size, expr)
    PROVE  IInv'
<1> DEFINE zeros == [i \in Offsets(size) |-> Zero]
<1>1. zeros \in ConValues(size)
  BY MemAssumption DEF ConValues
<1>2. writeConcreteValue(addr, size, zeros)
  BY DEF writeExpr
<1>3. CASE RefuseCrossChunk(addr, size) \/ AssertWithinCell(addr, size)
  <2>1. Dropped(addr, size) /\ aborted' \in BOOLEAN
    BY <1>3 DEF RefuseCrossChunk, AssertWithinCell, IInv, TypeOK
  <2>2. QED
    BY <1>1, <1>2, <2>1, DropKeeps
<1>4. CASE /\ Fits(addr, size)
           /\ marked' = marked \cup Range(addr, size)
           /\ content' = List!Replaced(Range(addr, size), At(addr, expr))
           /\ Wrote(addr, size, expr, zeros)
           /\ UNCHANGED aborted
  <2>1. DOMAIN expr = Offsets(size) /\ \A i \in DOMAIN expr : expr[i] \in SymByte
    OBVIOUS
  <2>2. DOMAIN At(addr, expr) = Range(addr, size)
    BY <2>1, RangeFacts DEF At
  <2>3. marked' = (marked \ Range(addr, size)) \cup DOMAIN At(addr, expr)
    BY <1>4, <2>2
  <2> HIDE DEF zeros
  <2>4. QED
    BY <1>1, <1>2, <1>4, <2>1, <2>2, <2>3, SymbolicKeeps
<1>5. QED
  BY <1>3, <1>4 DEF writeExpr

(* The three outcomes of writing a list of cells.                          *)
LEMMA SymListKeeps ==
    ASSUME NEW addr \in Addr, NEW size \in Sizes,
           NEW sym \in SymLists(size), NEW con \in ConValues(size),
           IInv, writeSymList(addr, size, sym, con)
    PROVE  IInv'
<1>1. writeConcreteValue(addr, size, con)
  BY DEF writeSymList
<1>2. CASE RefuseCrossChunk(addr, size) \/ AssertWithinCell(addr, size)
  <2>1. Dropped(addr, size) /\ aborted' \in BOOLEAN
    BY <1>2 DEF RefuseCrossChunk, AssertWithinCell, IInv, TypeOK
  <2>2. QED
    BY <1>1, <2>1, DropKeeps
<1>3. CASE /\ Fits(addr, size)
           /\ marked' = (marked \ Range(addr, size)) \cup DOMAIN At(addr, sym)
           /\ content' = List!Replaced(MergeRange(addr, sym), At(addr, sym))
           /\ Wrote(addr, size, sym, con)
           /\ UNCHANGED aborted
  BY <1>1, <1>3, SymListFacts, MergeFacts, SymbolicKeeps
<1>4. QED
  BY <1>2, <1>3 DEF writeSymList

(* Types, covered marks and fresh bytes are inductive together.            *)
THEOREM InvInductive == Spec => []IInv
<1>1. Init => IInv
  BY MemAssumption DEF Init, IInv, TypeOK, MarkedIsCovered, BytesFresh, List!Empty
<1>2. IInv /\ [Next]_vars => IInv'
  <2> SUFFICES ASSUME IInv, [Next]_vars PROVE IInv'
    OBVIOUS
  <2>1. CASE UNCHANGED vars
    BY <2>1 DEF vars, IInv, TypeOK, MarkedIsCovered, BytesFresh
  <2>2. CASE Next
    <3>1. PICK q \in Cells :
              \/ \E con \in ConValues(q[2]) : writeConcrete(q[1], q[2], con)
              \/ \E expr \in [Offsets(q[2]) -> SymByte] : writeExpr(q[1], q[2], expr)
              \/ \E sym \in SymLists(q[2]), con \in ConValues(q[2]) :
                    writeSymList(q[1], q[2], sym, con)
      BY <2>2 DEF Next
    <3>2. q[1] \in Addr /\ q[2] \in Sizes
      BY DEF Cells
    <3>3. ASSUME NEW con \in ConValues(q[2]), writeConcrete(q[1], q[2], con)
          PROVE  IInv'
      BY <3>2, <3>3, ConcreteKeeps
    <3>4. ASSUME NEW expr \in [Offsets(q[2]) -> SymByte], writeExpr(q[1], q[2], expr)
          PROVE  IInv'
      BY <3>2, <3>4, ExprKeeps
    <3>5. ASSUME NEW sym \in SymLists(q[2]), NEW con \in ConValues(q[2]),
                 writeSymList(q[1], q[2], sym, con)
          PROVE  IInv'
      BY <3>2, <3>5, SymListKeeps
    <3>6. QED
      BY <3>1, <3>3, <3>4, <3>5
  <2>3. QED
    BY <2>1, <2>2
<1>3. QED
  BY <1>1, <1>2, PTL DEF Spec

(***************************************************************************)
(* The layers are well typed in every reachable state.                     *)
(***************************************************************************)
THEOREM TypeCorrect == Spec => []TypeOK
<1>1. IInv => TypeOK
  BY DEF IInv
<1>2. QED
  BY <1>1, InvInductive, PTL

(***************************************************************************)
(* Whatever cell lists callers write, a byte that m_Bitmap marks has a     *)
(* symbol in m_AllSymbolList: GetCellList never follows a null pointer.    *)
(***************************************************************************)
THEOREM MarkedAlwaysCovered == Spec => []MarkedIsCovered
<1>1. IInv => MarkedIsCovered
  BY DEF IInv
<1>2. QED
  BY <1>1, InvInductive, PTL

(***************************************************************************)
(* Byte by byte the three layers give the value last written.              *)
(***************************************************************************)
THEOREM BytesAlwaysFresh == Spec => []BytesFresh
<1>1. IInv => BytesFresh
  BY DEF IInv
<1>2. QED
  BY <1>1, InvInductive, PTL

-----------------------------------------------------------------------------
(* Under Spanning each write leaves bitmap and list over the same bytes.   *)
LEMMA AgreeStep ==
    ASSUME Spanning, TypeOK, LayersAgree, [Next]_vars
    PROVE  LayersAgree'
<1>1. CASE UNCHANGED vars
  BY <1>1 DEF vars, LayersAgree
<1>2. ASSUME NEW q \in Cells, NEW con \in ConValues(q[2]),
             writeConcrete(q[1], q[2], con)
      PROVE  LayersAgree'
  <2>1. \A a \in Addr : content'[a] = IF a \in Range(q[1], q[2]) THEN NoSym
                                      ELSE content[a]
    BY <1>2 DEF writeConcrete, List!Erase, List!Replaced, Range
  <2>2. QED
    BY <1>2, <2>1 DEF writeConcrete, LayersAgree
<1>3. ASSUME NEW q \in Cells, NEW sym,
             DOMAIN sym \subseteq Offsets(q[2]),
             \A i \in DOMAIN sym : sym[i] \in SymByte,
             content' = List!Replaced(Range(q[1], q[2]), At(q[1], sym)),
             marked' = (marked \ Range(q[1], q[2])) \cup DOMAIN At(q[1], sym)
      PROVE  LayersAgree'
  <2>1. q[1] \in Addr /\ q[2] \in Sizes
    BY DEF Cells
  <2>2. /\ DOMAIN At(q[1], sym) \subseteq Range(q[1], q[2])
        /\ \A a \in DOMAIN At(q[1], sym) : At(q[1], sym)[a] \in SymByte
    BY <1>3, <2>1, AtFacts
  <2>3. \A a \in Addr : content'[a] = IF a \in DOMAIN At(q[1], sym)
                                      THEN At(q[1], sym)[a]
                                      ELSE IF a \in Range(q[1], q[2]) THEN NoSym
                                      ELSE content[a]
    BY <1>3 DEF List!Replaced
  <2>4. NoSym \notin SymByte
    BY MemAssumption
  <2>5. QED
    BY <1>3, <2>2, <2>3, <2>4 DEF LayersAgree
<1>4. ASSUME NEW q \in Cells, NEW expr \in [Offsets(q[2]) -> SymByte],
             writeExpr(q[1], q[2], expr)
      PROVE  LayersAgree'
  <2>1. q[1] \in Addr /\ q[2] \in Sizes
    BY DEF Cells
  <2>2. CASE Dropped(q[1], q[2])
    BY <2>2 DEF Dropped, LayersAgree
  <2>3. CASE /\ marked' = marked \cup Range(q[1], q[2])
             /\ content' = List!Replaced(Range(q[1], q[2]), At(q[1], expr))
    <3>1. DOMAIN expr = Offsets(q[2]) /\ \A i \in DOMAIN expr : expr[i] \in SymByte
      OBVIOUS
    <3>2. DOMAIN At(q[1], expr) = Range(q[1], q[2])
      BY <2>1, <3>1, RangeFacts DEF At
    <3>3. marked' = (marked \ Range(q[1], q[2])) \cup DOMAIN At(q[1], expr)
      BY <2>3, <3>2
    <3>4. QED
      BY <1>3, <2>3, <3>1, <3>3
  <2>4. QED
    BY <1>4, <2>2, <2>3 DEF writeExpr, RefuseCrossChunk, AssertWithinCell
<1>5. ASSUME NEW q \in Cells, NEW sym \in SymLists(q[2]),
             NEW con \in ConValues(q[2]), writeSymList(q[1], q[2], sym, con)
      PROVE  LayersAgree'
  <2>1. q[1] \in Addr /\ q[2] \in Sizes
    BY DEF Cells
  <2>2. CASE Dropped(q[1], q[2])
    BY <2>2 DEF Dropped, LayersAgree
  <2>3. CASE /\ marked' = (marked \ Range(q[1], q[2])) \cup DOMAIN At(q[1], sym)
             /\ content' = List!Replaced(MergeRange(q[1], sym), At(q[1], sym))
    <3>1. MergeRange(q[1], sym) = Range(q[1], q[2])
      BY <2>1, MergeFacts
    <3>2. QED
      BY <1>3, <2>1, <2>3, <3>1, SymListFacts
  <2>4. QED
    BY <1>5, <2>2, <2>3 DEF writeSymList, RefuseCrossChunk, AssertWithinCell
<1>6. QED
  BY <1>1, <1>2, <1>4, <1>5 DEF Next

(* Fresh bytes in agreeing layers make fresh reads of any size.            *)
LEMMA AgreeingReadsFresh ==
    ASSUME TypeOK, BytesFresh, LayersAgree
    PROVE  ReadsFresh
<1> SUFFICES ASSUME NEW q \in Cells, readable(q[1], q[2]),
                    \A a \in Range(q[1], q[2]) : want[a] # Lost,
                    NEW a \in Range(q[1], q[2])
             PROVE  readMemoryCell(q[1], q[2])[a] = want[a]
  BY DEF ReadsFresh
<1>1. a \in Addr
  BY DEF Range, List!Span
<1>2. a \in marked => isSYMemoryCell(q[1], q[2])
  BY DEF isSYMemoryCell
<1>3. readMemoryCell(q[1], q[2])[a] =
        IF isSYMemoryCell(q[1], q[2]) /\ content[a] # NoSym
        THEN content[a] ELSE mem[a]
  BY DEF readMemoryCell
<1>4. QED
  BY <1>1, <1>2, <1>3 DEF BytesFresh, LayersAgree

(***************************************************************************)
(* When every cell list reaches both ends of the value it is written to,   *)
(* bitmap and list cover the same bytes, and a read of any size returns    *)
(* what was last written.                                                  *)
(***************************************************************************)
THEOREM SpanningReadsFresh == Spec => [](Spanning => LayersAgree /\ ReadsFresh)
<1> DEFINE J == Spanning => LayersAgree
<1>1. Init => J
  BY DEF Init, LayersAgree, List!Empty
<1>2. IInv /\ J /\ [Next]_vars => J'
  BY AgreeStep DEF IInv
<1>3. IInv /\ J => (Spanning => LayersAgree /\ ReadsFresh)
  BY AgreeingReadsFresh DEF IInv
<1> HIDE DEF J
<1>4. QED
  BY <1>1, <1>2, <1>3, InvInductive, PTL DEF Spec

(***************************************************************************)
(* The part about the two layers on its own: with lists that reach both    *)
(* ends, bitmap and list never disagree about a byte.                      *)
(***************************************************************************)
THEOREM LayersAlwaysAgree == ASSUME Spanning PROVE Spec => []LayersAgree
<1>1. (Spanning => LayersAgree /\ ReadsFresh) => LayersAgree
  OBVIOUS
<1> QED
  BY <1>1, SpanningReadsFresh, PTL

-----------------------------------------------------------------------------
(***************************************************************************)
(* The bitmap that keeps the marked bytes (module SYMemBitmap), for every  *)
(* chunk size, number of chunks and request size.                          *)
(***************************************************************************)

(* Division with remainder: the remainder is in range and unique.          *)
LEMMA ModRange ==
    ASSUME NEW a \in Int, NEW b \in Nat \ {0}
    PROVE  /\ a % b \in 0 .. b - 1
           /\ a \div b \in Int
           /\ a = b * (a \div b) + (a % b)
OBVIOUS

LEMMA SmallMultiple ==
    ASSUME NEW b \in Nat \ {0}, NEW d \in Int, NEW o \in 0 .. b - 1,
           NEW p \in 0 .. b - 1, b * d = o - p
    PROVE  d = 0
<1>1. CASE d >= 1
  <2>1. b * d >= b
    BY <1>1
  <2>2. QED
    BY <2>1
<1>2. CASE d <= -1
  <2>1. b * d <= -b
    BY <1>2
  <2>2. QED
    BY <2>1
<1>3. QED
  BY <1>1, <1>2

LEMMA ModUnique ==
    ASSUME NEW b \in Nat \ {0}, NEW k \in Int, NEW o \in 0 .. b - 1
    PROVE  (b * k + o) % b = o
<1> DEFINE x == b * k + o
<1>1. x \in Int
  OBVIOUS
<1>2. x % b \in 0 .. b - 1 /\ x = b * (x \div b) + (x % b) /\ x \div b \in Int
  BY <1>1, ModRange
<1>3. b * ((x \div b) - k) = o - (x % b)
  BY <1>1, <1>2
<1>4. (x \div b) - k = 0
  BY <1>2, <1>3, SmallMultiple
<1>5. QED
  BY <1>2, <1>3, <1>4

(* An address is its chunk's address plus an offset, in one way only.      *)
LEMMA AddrSplit ==
    ASSUME NEW addr \in Int
    PROVE  /\ AlignedAddr(addr) \in Int
           /\ addr - AlignedAddr(addr) \in 0 .. ChunkSize - 1
           /\ \A o \in 0 .. ChunkSize - 1 :
                AlignedAddr(AlignedAddr(addr) + o) = AlignedAddr(addr)
<1>1. ChunkSize \in Nat \ {0}
  BY BitmapAssumption
<1>2. addr % ChunkSize \in 0 .. ChunkSize - 1
  BY <1>1, ModRange
<1>3. PICK k \in Int : AlignedAddr(addr) = ChunkSize * k
  <2>1. /\ addr \div ChunkSize \in Int
        /\ addr = ChunkSize * (addr \div ChunkSize) + (addr % ChunkSize)
    BY <1>1, ModRange
  <2>2. AlignedAddr(addr) = ChunkSize * (addr \div ChunkSize)
    BY <1>1, <1>2, <2>1 DEF AlignedAddr
  <2>3. QED
    BY <2>1, <2>2
<1>4. ASSUME NEW o \in 0 .. ChunkSize - 1
      PROVE  AlignedAddr(AlignedAddr(addr) + o) = AlignedAddr(addr)
  <2>1. (ChunkSize * k + o) % ChunkSize = o
    BY <1>1, ModUnique
  <2>2. AlignedAddr(ChunkSize * k + o) = (ChunkSize * k + o) - o
    BY ONLY <2>1 DEF AlignedAddr
  <2>3. ChunkSize * k \in Int
    BY <1>1
  <2>4. QED
    BY <1>3, <2>2, <2>3
<1>5. QED
  BY <1>1, <1>2, <1>4 DEF AlignedAddr

LEMMA AlignedFacts ==
    ASSUME NEW c \in Aligned
    PROVE  /\ c \in Int
           /\ \A o \in 0 .. ChunkSize - 1 : AlignedAddr(c + o) = c
<1>1. PICK addr \in Memory : c = AlignedAddr(addr)
  BY DEF Aligned
<1>2. addr \in Int
  BY DEF Memory
<1>3. QED
  BY <1>1, <1>2, AddrSplit

(* The bytes of a range that lie in chunk c.                               *)
BitsOf(c, addr, size) == { o \in 0 .. ChunkSize - 1 : c + o \in BytesOf(addr, size) }

(* A byte of a requested range lies in a visited chunk at its offset.      *)
LEMMA InChunk ==
    ASSUME NEW q \in Requests, NEW a \in BytesOf(q[1], q[2])
    PROVE  /\ a \in Memory /\ a \in Int
           /\ AlignedAddr(a) \in Visited(q[1], q[2]) /\ AlignedAddr(a) \in Int
           /\ a - AlignedAddr(a) \in 0 .. ChunkSize - 1
           /\ AlignedAddr(a) + (a - AlignedAddr(a)) = a
<1>1. a \in Memory /\ a \in Int
  BY DEF Requests, Memory
<1>2. AlignedAddr(a) \in Int /\ a - AlignedAddr(a) \in 0 .. ChunkSize - 1
  BY <1>1, AddrSplit
<1>3. QED
  BY <1>1, <1>2 DEF Visited

(***************************************************************************)
(* The two shifts of all ones leave the bits of the range that lie in the  *)
(* chunk: hcave_sz and symbol_size meet at the seams.                      *)
(***************************************************************************)
LEMMA MaskIsRange ==
    ASSUME NEW q \in Requests, NEW c \in Visited(q[1], q[2])
    PROVE  Mask(c, q[1], q[2]) = BitsOf(c, q[1], q[2])
<1> DEFINE from == q[1]
           to   == q[1] + q[2]
           h    == hcave_sz(c, q[1])
           past == h + symbol_size(c, q[1], q[2])
<1>1. PICK a \in BytesOf(q[1], q[2]) : c = AlignedAddr(a)
  BY DEF Visited
<1>2. q[1] \in Int /\ q[2] \in Int /\ ChunkSize \in Nat \ {0}
  BY BitmapAssumption DEF Requests, Memory
<1>3. a \in Int /\ c \in Int /\ a - c \in 0 .. ChunkSize - 1
  BY <1>1, InChunk
<1>4. /\ from \in Int /\ to \in Int
      /\ from <= a /\ a < to /\ c <= a /\ a < c + ChunkSize
  BY <1>2, <1>3 DEF BytesOf
<1>5. h = (IF from > c THEN from - c ELSE 0) /\ h \in Nat
  BY <1>3, <1>4 DEF hcave_sz
<1>6. past = (IF to > c + ChunkSize THEN ChunkSize ELSE to - c) /\ past \in Int
  <2>1. symbol_size(c, q[1], q[2])
          = (IF q[1] + q[2] > c + ChunkSize THEN ChunkSize ELSE q[1] + q[2] - c)
              - hcave_sz(c, q[1])
    BY Zenon DEF symbol_size
  <2>2. to \in Int /\ c \in Int /\ ChunkSize \in Nat
    BY <1>2, <1>3, <1>4
  <2>3. hcave_sz(c, q[1]) \in Nat
    BY <1>5
  <2> HIDE DEF to
  <2>4. symbol_size(c, q[1], q[2]) = (IF to > c + ChunkSize THEN ChunkSize ELSE to - c)
                                       - hcave_sz(c, q[1])
    BY <1>2, <2>1, <2>2, <2>3 DEF to
  <2> QED
    BY <2>2, <2>3, <2>4
<1>7. ChunkSize - h - symbol_size(c, q[1], q[2]) = ChunkSize - past
  <2>1. symbol_size(c, q[1], q[2]) \in Int
    BY <1>2, <1>3, <1>4, <1>5 DEF symbol_size
  <2>2. QED
    BY <1>2, <1>5, <2>1
<1>8. Mask(c, q[1], q[2])
        = { o \in allones : o - h \in allones /\ o + (ChunkSize - past) \in allones }
  BY <1>7 DEF Mask, ShiftLeft, ShiftRight
<1>9. \A o \in allones : c + o \in BytesOf(q[1], q[2]) <=> (from <= c + o /\ c + o < to)
  BY <1>2, <1>3 DEF BytesOf, allones
<1> HIDE DEF from, to, h, past
<1>10. \A o \in allones :
          /\ o - h \in allones <=> h <= o
          /\ o + (ChunkSize - past) \in allones <=> o < past
  BY <1>2, <1>3, <1>4, <1>5, <1>6 DEF allones
<1>11. \A o \in allones : (h <= o /\ o < past) <=> (from <= c + o /\ c + o < to)
  BY <1>2, <1>3, <1>4, <1>5, <1>6 DEF allones
<1>12. QED
  BY <1>8, <1>9, <1>10, <1>11 DEF BitsOf, allones

(* A requested range visits existing chunk addresses, and the chunks in    *)
(* which a byte of it lies.                                                *)
LEMMA VisitedFacts ==
    ASSUME NEW q \in Requests
    PROVE  /\ BytesOf(q[1], q[2]) \subseteq Memory
           /\ Visited(q[1], q[2]) \subseteq Aligned
           /\ \A c \in Aligned : BitsOf(c, q[1], q[2]) # {} <=> c \in Visited(q[1], q[2])
<1>1. BytesOf(q[1], q[2]) \subseteq Memory
  BY DEF Requests
<1>2. Visited(q[1], q[2]) \subseteq Aligned
  BY <1>1 DEF Visited, Aligned
<1>3. ASSUME NEW c \in Aligned, NEW o \in BitsOf(c, q[1], q[2])
      PROVE  c \in Visited(q[1], q[2])
  BY <1>3, AlignedFacts DEF BitsOf, Visited
<1>4. ASSUME NEW c \in Visited(q[1], q[2])
      PROVE  BitsOf(c, q[1], q[2]) # {}
  <2>1. PICK a \in BytesOf(q[1], q[2]) : c = AlignedAddr(a)
    BY DEF Visited
  <2>2. a - c \in BitsOf(c, q[1], q[2])
    BY <2>1, InChunk DEF BitsOf
  <2>3. QED
    BY <2>2
<1>5. QED
  BY <1>1, <1>2, <1>3, <1>4

-----------------------------------------------------------------------------
(* The bits of a chunk are those of the marked bytes that lie in it.       *)
BitsExact ==
    \A c \in Aligned : bitmap[c] = { o \in 0 .. ChunkSize - 1 : c + o \in symbolic }

(***************************************************************************)
(* The inductive invariant.  A chunk's links only concern chunks that      *)
(* exist, so erasing one must know that its neighbours point back at it.   *)
(***************************************************************************)
BitmapInv == BitmapTypeOK /\ BitsExact /\ ChunksLive /\ LinksSound

LEMMA MarkKeeps ==
    ASSUME NEW q \in Requests, BitmapInv, markSYMemBitmap(q[1], q[2])
    PROVE  BitmapInv'
<1> DEFINE V == Visited(q[1], q[2])
           M(c) == BitsOf(c, q[1], q[2])
<1>1. /\ BytesOf(q[1], q[2]) \subseteq Memory /\ V \subseteq Aligned
      /\ \A c \in Aligned : M(c) # {} <=> c \in V
  BY VisitedFacts
<1>2. /\ chunks' = chunks \cup V
      /\ symbolic' = symbolic \cup BytesOf(q[1], q[2])
      /\ bitmap' = [c \in Aligned |-> IF c \in V THEN bitmap[c] \cup M(c) ELSE bitmap[c]]
      /\ r' = [c \in Aligned |->
                 IF c \in V /\ c + ChunkSize \in V THEN c + ChunkSize ELSE r[c]]
      /\ l' = [c \in Aligned |->
                 IF c \in V /\ c - ChunkSize \in V THEN c - ChunkSize ELSE l[c]]
  BY MaskIsRange DEF markSYMemBitmap
<1>3. \A c \in Aligned : bitmap'[c] = bitmap[c] \cup M(c)
  BY <1>1, <1>2
<1>4. \A c \in Aligned : M(c) = { o \in 0 .. ChunkSize - 1 : c + o \in BytesOf(q[1], q[2]) }
  BY DEF BitsOf
<1> HIDE DEF V, M
<1>5. BitmapTypeOK'
  <2>1. \A c \in Aligned : M(c) \subseteq 0 .. ChunkSize - 1
    BY <1>4
  <2>2. QED
    BY <1>1, <1>2, <2>1 DEF BitmapInv, BitmapTypeOK
<1>6. BitsExact'
  BY <1>2, <1>3, <1>4 DEF BitmapInv, BitsExact
<1>7. ChunksLive'
  BY <1>1, <1>2, <1>3 DEF BitmapInv, ChunksLive
<1>8. LinksSound'
  <2>1. ChunkSize \in Nat \ {0} /\ Null \notin Int
    BY BitmapAssumption
  <2>2. \A c \in Aligned : c \in Int
    BY AlignedFacts
  <2>3. \A c \in Aligned : /\ (c + ChunkSize) - ChunkSize = c
                           /\ (c - ChunkSize) + ChunkSize = c
    BY <2>1, <2>2
  <2>4. \A c \in Aligned : c # Null
    BY <2>1, <2>2
  <2>5. ASSUME NEW c \in Aligned, r'[c] # Null
        PROVE  /\ c \in chunks' /\ r'[c] \in chunks'
               /\ r'[c] = c + ChunkSize /\ l'[r'[c]] = c
    <3>1. CASE c \in V /\ c + ChunkSize \in V
      BY <1>1, <1>2, <2>3, <3>1
    <3>2. CASE ~(c \in V /\ c + ChunkSize \in V)
      <4>1. r'[c] = r[c]
        BY <1>2, <3>2
      <4>2. /\ c \in chunks /\ r[c] \in chunks
            /\ r[c] = c + ChunkSize /\ l[r[c]] = c
        BY <2>5, <4>1 DEF BitmapInv, LinksSound
      <4>3. r[c] \in Aligned
        BY <4>2 DEF BitmapInv, BitmapTypeOK
      <4>4. l'[r[c]] = c
        BY <1>2, <2>3, <4>2, <4>3
      <4>5. QED
        BY <1>2, <4>1, <4>2, <4>4
    <3>3. QED
      BY <3>1, <3>2
  <2>6. ASSUME NEW c \in Aligned, l'[c] # Null
        PROVE  /\ c \in chunks' /\ l'[c] \in chunks'
               /\ l'[c] = c - ChunkSize /\ r'[l'[c]] = c
    <3>1. CASE c \in V /\ c - ChunkSize \in V
      BY <1>1, <1>2, <2>3, <3>1
    <3>2. CASE ~(c \in V /\ c - ChunkSize \in V)
      <4>1. l'[c] = l[c]
        BY <1>2, <3>2
      <4>2. /\ c \in chunks /\ l[c] \in chunks
            /\ l[c] = c - ChunkSize /\ r[l[c]] = c
        BY <2>6, <4>1 DEF BitmapInv, LinksSound
      <4>3. l[c] \in Aligned
        BY <4>2 DEF BitmapInv, BitmapTypeOK
      <4>4. r'[l[c]] = c
        BY <1>2, <2>3, <4>2, <4>3
      <4>5. QED
        BY <1>2, <4>1, <4>2, <4>4
    <3>3. QED
      BY <3>1, <3>2
  <2>7. QED
    BY <2>5, <2>6 DEF LinksSound
<1>9. QED
  BY <1>5, <1>6, <1>7, <1>8 DEF BitmapInv

LEMMA UnmarkKeeps ==
    ASSUME NEW q \in Requests, BitmapInv, unmarkSYMemBitmap(q[1], q[2])
    PROVE  BitmapInv'
<1> DEFINE V == Visited(q[1], q[2]) \cap chunks
           M(c) == BitsOf(c, q[1], q[2])
           left == [c \in Aligned |-> IF c \in V THEN bitmap[c] \ M(c) ELSE bitmap[c]]
           dead == { c \in V : left[c] = {} }
<1>1. /\ BytesOf(q[1], q[2]) \subseteq Memory
      /\ \A c \in Aligned : M(c) # {} <=> c \in Visited(q[1], q[2])
  BY VisitedFacts
<1>2. /\ bitmap' = left
      /\ Destroy(dead)
      /\ symbolic' = symbolic \ BytesOf(q[1], q[2])
  <2>1. left = [c \in Aligned |->
                  IF c \in V THEN bitmap[c] \ Mask(c, q[1], q[2]) ELSE bitmap[c]]
    BY MaskIsRange
  <2>2. QED
    BY <2>1 DEF unmarkSYMemBitmap
<1>3. \A c \in Aligned : M(c) = { o \in 0 .. ChunkSize - 1 : c + o \in BytesOf(q[1], q[2]) }
  BY DEF BitsOf
<1>4. V \subseteq chunks /\ chunks \subseteq Aligned
  BY DEF BitmapInv, BitmapTypeOK
<1>5. \A c \in Aligned : c \notin chunks => bitmap[c] = {}
  BY DEF BitmapInv, ChunksLive
<1>6. \A c \in Aligned : left[c] = bitmap[c] \ M(c)
  BY <1>1, <1>5
<1>7. dead = { c \in chunks : left[c] = {} }
  <2>1. \A c \in chunks : c \notin V => left[c] # {}
    BY <1>4 DEF BitmapInv, ChunksLive
  <2>2. QED
    BY <1>4, <2>1
<1>8. /\ chunks' = chunks \ dead
      /\ r' = [c \in Aligned |->
                 IF c \in dead \/ \E d \in dead : l[d] = c THEN Null ELSE r[c]]
      /\ l' = [c \in Aligned |->
                 IF c \in dead \/ \E d \in dead : r[d] = c THEN Null ELSE l[c]]
  BY <1>2 DEF Destroy
<1>9. left \in [Aligned -> SUBSET (0 .. ChunkSize - 1)]
  BY DEF BitmapInv, BitmapTypeOK
<1> HIDE DEF V, M, left, dead
<1>10. BitmapTypeOK'
  BY <1>2, <1>4, <1>8, <1>9 DEF BitmapInv, BitmapTypeOK
<1>11. BitsExact'
  BY <1>2, <1>3, <1>6 DEF BitmapInv, BitsExact
<1>12. ChunksLive'
  <2>1. \A c \in Aligned : c \notin chunks => left[c] = {}
    BY <1>5, <1>6
  <2>2. QED
    BY <1>2, <1>4, <1>7, <1>8, <2>1 DEF ChunksLive
<1>13. LinksSound'
  <2>1. dead \subseteq Aligned
    BY <1>4, <1>7
  <2>2. ASSUME NEW c \in Aligned, r'[c] # Null
        PROVE  /\ c \in chunks' /\ r'[c] \in chunks'
               /\ r'[c] = c + ChunkSize /\ l'[r'[c]] = c
    <3>1. r'[c] = r[c] /\ c \notin dead /\ ~\E d \in dead : l[d] = c
      BY <1>8, <2>2
    <3>2. /\ c \in chunks /\ r[c] \in chunks
          /\ r[c] = c + ChunkSize /\ l[r[c]] = c
      BY <2>2, <3>1 DEF BitmapInv, LinksSound
    <3>3. r[c] \notin dead
      BY <3>1, <3>2
    <3>4. ~\E d \in dead : r[d] = r[c]
      <4> SUFFICES ASSUME NEW d \in dead, r[d] = r[c] PROVE FALSE
        OBVIOUS
      <4>1. r[d] # Null
        BY <2>2, <3>1
      <4>2. l[r[d]] = d
        BY <2>1, <4>1 DEF BitmapInv, LinksSound
      <4>3. QED
        BY <3>1, <3>2, <4>2
    <3>5. l'[r[c]] = l[r[c]]
      BY <1>4, <1>8, <3>2, <3>3, <3>4
    <3>6. QED
      BY <1>8, <3>1, <3>2, <3>3, <3>5
  <2>3. ASSUME NEW c \in Aligned, l'[c] # Null
        PROVE  /\ c \in chunks' /\ l'[c] \in chunks'
               /\ l'[c] = c - ChunkSize /\ r'[l'[c]] = c
    <3>1. l'[c] = l[c] /\ c \notin dead /\ ~\E d \in dead : r[d] = c
      BY <1>8, <2>3
    <3>2. /\ c \in chunks /\ l[c] \in chunks
          /\ l[c] = c - ChunkSize /\ r[l[c]] = c
      BY <2>3, <3>1 DEF BitmapInv, LinksSound
    <3>3. l[c] \notin dead
      BY <3>1, <3>2
    <3>4. ~\E d \in dead : l[d] = l[c]
      <4> SUFFICES ASSUME NEW d \in dead, l[d] = l[c] PROVE FALSE
        OBVIOUS
      <4>1. l[d] # Null
        BY <2>3, <3>1
      <4>2. r[l[d]] = d
        BY <2>1, <4>1 DEF BitmapInv, LinksSound
      <4>3. QED
        BY <3>1, <3>2, <4>2
    <3>5. r'[l[c]] = r[l[c]]
      BY <1>4, <1>8, <3>2, <3>3, <3>4
    <3>6. QED
      BY <1>8, <3>1, <3>2, <3>3, <3>5
  <2>4. QED
    BY <2>2, <2>3 DEF LinksSound
<1>14. QED
  BY <1>10, <1>11, <1>12, <1>13 DEF BitmapInv

(***************************************************************************)
(* Bits, chunks and links are exact after any sequence of marks and        *)
(* unmarks.                                                                *)
(***************************************************************************)
THEOREM BitmapInvInductive == BitmapSpec => []BitmapInv
<1>1. BitmapInit => BitmapInv
  BY DEF BitmapInit, BitmapInv, BitmapTypeOK, BitsExact, ChunksLive, LinksSound
<1>2. BitmapInv /\ [BitmapNext]_bitmapVars => BitmapInv'
  <2> SUFFICES ASSUME BitmapInv, [BitmapNext]_bitmapVars PROVE BitmapInv'
    OBVIOUS
  <2>1. CASE UNCHANGED bitmapVars
    BY <2>1 DEF bitmapVars, BitmapInv, BitmapTypeOK, BitsExact, ChunksLive, LinksSound
  <2>2. CASE \E q \in Requests : markSYMemBitmap(q[1], q[2])
    BY <2>2, MarkKeeps
  <2>3. CASE \E q \in Requests : unmarkSYMemBitmap(q[1], q[2])
    BY <2>3, UnmarkKeeps
  <2>4. QED
    BY <2>1, <2>2, <2>3 DEF BitmapNext
<1>3. QED
  BY <1>1, <1>2, PTL DEF BitmapSpec

(* Exact bits make the test exact, across any number of chunks.            *)
LEMMA ExactBitsTest ==
    ASSUME BitmapInv
    PROVE  TestExact
<1> SUFFICES ASSUME NEW q \in Requests
             PROVE  testSYMemBitmap(q[1], q[2]) <=> BytesOf(q[1], q[2]) \cap symbolic # {}
  BY DEF TestExact
<1>1. BytesOf(q[1], q[2]) \subseteq Memory /\ Visited(q[1], q[2]) \subseteq Aligned
  BY VisitedFacts
<1>2. ASSUME testSYMemBitmap(q[1], q[2])
      PROVE  BytesOf(q[1], q[2]) \cap symbolic # {}
  <2>1. PICK c \in Visited(q[1], q[2]) \cap chunks :
            bitmap[c] \cap Mask(c, q[1], q[2]) # {}
    BY <1>2 DEF testSYMemBitmap
  <2>2. PICK o \in bitmap[c] : o \in BitsOf(c, q[1], q[2])
    BY <2>1, MaskIsRange
  <2>3. c + o \in symbolic /\ c + o \in BytesOf(q[1], q[2])
    BY <1>1, <2>1, <2>2 DEF BitmapInv, BitsExact, BitsOf
  <2>4. QED
    BY <2>3
<1>3. ASSUME NEW a \in BytesOf(q[1], q[2]), a \in symbolic
      PROVE  testSYMemBitmap(q[1], q[2])
  <2> DEFINE c == AlignedAddr(a)
  <2>1. c \in Visited(q[1], q[2]) /\ c \in Aligned
    BY <1>1 DEF Visited
  <2>2. a \in Int /\ c \in Int /\ a - c \in 0 .. ChunkSize - 1
    BY <1>1, AddrSplit DEF Memory
  <2>3. c + (a - c) = a
    BY <2>2
  <2> HIDE DEF c
  <2>4. a - c \in bitmap[c] /\ a - c \in BitsOf(c, q[1], q[2])
    BY <1>3, <2>1, <2>2, <2>3 DEF BitmapInv, BitsExact, BitsOf
  <2>5. c \in chunks
    BY <2>1, <2>4 DEF BitmapInv, ChunksLive
  <2>6. QED
    BY <2>1, <2>4, <2>5, MaskIsRange DEF testSYMemBitmap
<1>4. QED
  BY <1>2, <1>3

(***************************************************************************)
(* "Return true if any byte is symbolic" (MemState.cpp:97) is what the     *)
(* test does for every range and every chunk size.                         *)
(***************************************************************************)
THEOREM TestAlwaysExact == BitmapSpec => []TestExact
<1>1. BitmapInv => TestExact
  BY ExactBitsTest
<1>2. QED
  BY <1>1, BitmapInvInductive, PTL

(***************************************************************************)
(* No chunk is left pointing at a chunk that was erased.                   *)
(***************************************************************************)
THEOREM LinksNeverDangle == BitmapSpec => []LinksSound
<1>1. BitmapInv => LinksSound
  BY DEF BitmapInv
<1>2. QED
  BY <1>1, BitmapInvInductive, PTL

(***************************************************************************)
(* Types of the bitmap's state.                                            *)
(***************************************************************************)
THEOREM BitmapTypeCorrect == BitmapSpec => []BitmapTypeOK
<1>1. BitmapInv => BitmapTypeOK
  BY DEF BitmapInv
<1>2. QED
  BY <1>1, BitmapInvInductive, PTL

(***************************************************************************)
(* No chunk leaks and none is erased too early: unmarkSYMemBitmap keeps a  *)
(* chunk exactly while one of its bits is set.                             *)
(***************************************************************************)
THEOREM ChunksAlwaysLive == BitmapSpec => []ChunksLive
<1>1. BitmapInv => ChunksLive
  BY DEF BitmapInv
<1>2. QED
  BY <1>1, BitmapInvInductive, PTL

(***************************************************************************)
(* Where the bitmap's set is the set that MemState keeps, the test that    *)
(* reads and writes of memory make is the one over the chunks.             *)
(***************************************************************************)
LEMMA BitmapDecidesCell ==
    ASSUME BitmapInv, symbolic = marked, Addr = Memory,
           NEW q \in Requests
    PROVE  isSYMemoryCell(q[1], q[2]) <=> testSYMemBitmap(q[1], q[2])
<1>1. BytesOf(q[1], q[2]) \subseteq Memory /\ q[1] \in Int /\ q[2] \in Int
  BY DEF Requests, Memory
<1>2. Range(q[1], q[2]) = BytesOf(q[1], q[2])
  BY <1>1 DEF Range, List!Span, BytesOf, Memory
<1>3. QED
  BY <1>2, ExactBitsTest DEF TestExact, isSYMemoryCell

=============================================================================
