------------------------------- MODULE SymList -------------------------------
(***************************************************************************)
(* Symbol_List_Map (SymList.cpp): the doubly linked list of symbolic cells *)
(* between a header and a tail sentinel, and the hash map m_sm that finds  *)
(* a cell by its start address.  SYMemState keeps one for all of memory,   *)
(* and every register keeps one for its eight bytes.                       *)
(*                                                                         *)
(* The linked list is the sequence `list` of its cells, sentinels          *)
(* included; a SymCellPtr is the cell's `id`, so that m_sm may point to a  *)
(* cell whatever the cell's address has become: the address the cell was   *)
(* allocated for and a number that tells live cells apart.  An expression  *)
(* is the sequence of the bytes it denotes: ExtractExpr takes a            *)
(* subsequence of it.                                                      *)
(***************************************************************************)
EXTENDS Integers, Sequences, SequencesExt

CONSTANTS
    Lo, Hi,     \* the addresses that programs use are Lo..Hi
    KeySpace,   \* ADDR_TO_KEY keeps an address modulo KeySpace (2^59)
    SymByte,    \* the bytes of symbolic expressions
    NoSym,      \* no symbol
    Sources,    \* the cell lists that callers merge
    Ranges,     \* the <<addr, size>> that callers remove or read
    MaxId       \* bound on the live cells that were allocated for one address

Addr == Lo .. Hi

HeadAddr == -2 * KeySpace       \* 0xF000000000000000
TailAddr == KeySpace - 1        \* 0x7FFFFFFFFFFFFFF

ADDR_TO_KEY(addr) == addr % KeySpace

HeadKey == -1

ASSUME AddrAssumption ==
    /\ Lo \in Int /\ Hi \in Int /\ KeySpace \in Nat /\ MaxId \in Nat
    /\ Lo <= Hi /\ HeadAddr < Lo /\ Hi + 1 < TailAddr
    /\ \A a, b \in Addr : ADDR_TO_KEY(a) = ADDR_TO_KEY(b) => a = b
    /\ \A a \in Addr : ADDR_TO_KEY(a) # ADDR_TO_KEY(TailAddr)
    /\ NoSym \notin SymByte
    /\ Ranges \subseteq Addr \X (1 .. Hi - Lo + 1)
    /\ \A r \in Ranges : r[1] + r[2] <= Hi + 1

(***************************************************************************)
(* What callers merge: one expression over a range (setSymValue), or the   *)
(* cells that GetCellList returned (setSymList).  The cells are in address *)
(* order, none is empty, and each carries as many bytes as its size.       *)
(***************************************************************************)
ASSUME SourcesAssumption ==
    \A src \in Sources :
        /\ src \in Seq([addr : Addr, size : Nat \ {0}, expr : Seq(SymByte)]) /\ src # <<>>
        /\ \A i \in DOMAIN src : /\ Len(src[i].expr) = src[i].size
                                 /\ src[i].addr + src[i].size <= Hi + 1
        /\ \A i, j \in DOMAIN src : i < j => src[i].addr + src[i].size <= src[j].addr

VARIABLES
    list,       \* the cells from m_listheader to m_listtail
    m_sm,       \* key -> id of the cell that starts there
    content     \* the store the callers have in mind: module SymBytes

vars == <<list, m_sm, content>>

Bytes == INSTANCE SymBytes

SymCell(id, addr, size, expr) ==
    [id |-> id, addr |-> addr, size |-> size, expr |-> expr]

EndOf(cell) == cell.addr + cell.size

(* Mutant: the extracted piece misses its first byte. *)
ExtractExprShort(expr, start, end) == SubSeq(expr, start + 2, end)

ExtractExpr(expr, start, end) == SubSeq(expr, start + 1, end)

(* SymCellPtr *)
Ids == (Addr \cup {HeadAddr, TailAddr}) \X (0 .. MaxId)

HeadId == <<HeadAddr, 0>>
TailId == <<TailAddr, 0>>

(* The constructor. *)
Init ==
    /\ list = <<SymCell(HeadId, HeadAddr, 0, <<>>),
                SymCell(TailId, TailAddr, 0, <<>>)>>
    /\ m_sm = [k \in {HeadKey, ADDR_TO_KEY(TailAddr)} |-> IF k = HeadKey THEN HeadId ELSE TailId]
    /\ content = Bytes!Empty

-----------------------------------------------------------------------------
(***************************************************************************)
(* A list under work is a record [list, m_sm, after, before]: `after` and  *)
(* `before` are the positions of insertAfter and insertBefore.             *)
(***************************************************************************)
PosOf(l, id) == CHOOSE i \in DOMAIN l : l[i].id = id

(* Ids `new` may take.  A cell that m_sm still refers to is still alive.   *)
FreeIds(addr) == ({addr} \X (0 .. MaxId)) \ ({ list[i].id : i \in DOMAIN list }
                                             \cup { m_sm[k] : k \in DOMAIN m_sm })

(* The cell a caller has allocated for addr, and the one that a split does *)
NewCell(addr) == CHOOSE id \in FreeIds(addr) : TRUE
NewPart(addr) == CHOOSE id \in FreeIds(addr) : id # NewCell(addr)

LeastOf(S) == CHOOSE x \in S : \A y \in S : x <= y

(* The cells after position i and before position j give way to others.    *)
Splice(l, i, j, cells) == SubSeq(l, 1, i) \o cells \o SubSeq(l, j, Len(l))

(* m_sm with an entry for each of the cells                                *)
Enter(m, cells) ==
    LET keys == { ADDR_TO_KEY(cells[i].addr) : i \in DOMAIN cells }
    IN  [k \in DOMAIN m \cup keys |->
            IF k \in keys
            THEN cells[CHOOSE i \in DOMAIN cells : ADDR_TO_KEY(cells[i].addr) = k].id
            ELSE m[k]]

(* The part of a cell between two addresses                                *)
CutCell(c, id, from, to) ==
    SymCell(id, from, to - from, ExtractExpr(c.expr, from - c.addr, to - c.addr))

(* Where the walk for insertAfter and the one for insertBefore may stop.   *)
StopsAfter(l, start) ==
    { i \in 1 .. Len(l) - 1 : l[i].addr < start /\ start <= l[i+1].addr }

(* Mutant: `<` for `<=`, a cell that ends where the range ends is missed.  *)
StopsBeforeStrict(l, from, end) ==
    { j \in from .. Len(l) - 1 : EndOf(l[j]) < end /\ end < EndOf(l[j+1]) }

StopsBefore(l, from, end) ==
    { j \in from .. Len(l) - 1 : EndOf(l[j]) <= end /\ end < EndOf(l[j+1]) }

(***************************************************************************)
(* GetAffectedCells: insertAfter is the predecessor of the cell that m_sm  *)
(* has for the start, else the first cell the walk stops at; the walk for  *)
(* insertBefore begins at that predecessor, else at the header.            *)
(***************************************************************************)
GetAffectedCells(start, end) ==
    LET hit   == ADDR_TO_KEY(start) \in DOMAIN m_sm
        prev  == PosOf(list, m_sm[ADDR_TO_KEY(start)]) - 1
        from  == IF hit THEN prev ELSE 1
    IN  [list |-> list, m_sm |-> m_sm,
         after  |-> IF hit THEN prev ELSE LeastOf(StopsAfter(list, start)),
         before |-> LeastOf(StopsBefore(list, from, end)) + 1]

(* The cell at position i becomes the parts; a read leaves m_sm alone.     *)
Parted(s, i, parts, after, before, read) ==
    [list   |-> Splice(s.list, i - 1, i + 1, parts),
     m_sm   |-> IF read THEN s.m_sm ELSE Enter(s.m_sm, parts),
     after  |-> after,
     before |-> before]

(* The cell at `after` becomes three.                                      *)
SplitCell3(s, start, end, read) ==
    LET c == s.list[s.after]
    IN  Parted(s, s.after, <<CutCell(c, c.id, c.addr, start),
                             CutCell(c, NewPart(start), start, end),
                             CutCell(c, NewPart(end), end, EndOf(c))>>,
               s.after, s.after + 2, read)

(* The cell at `after` keeps its lower part; a new cell has the rest.      *)
SeplitCell_Head(s, start, read) ==
    LET c == s.list[s.after]
    IN  Parted(s, s.after, <<CutCell(c, c.id, c.addr, start),
                             CutCell(c, NewPart(start), start, EndOf(c))>>,
               s.after, s.before + 1, read)

(* Mutant: the upper part is extracted from the start of the expression.   *)
SeplitCell_TailWrongPart(s, end, read) ==
    LET c == s.list[s.before]
    IN  Parted(s, s.before, <<CutCell(c, NewPart(c.addr), c.addr, end),
                              SymCell(c.id, end, EndOf(c) - end,
                                      ExtractExpr(c.expr, 0, EndOf(c) - end))>>,
               s.after, s.before + 1, read)

(* The cell at `before` keeps its upper part; a new cell has the rest.     *)
SeplitCell_Tail(s, end, read) ==
    LET c == s.list[s.before]
    IN  Parted(s, s.before, <<CutCell(c, NewPart(c.addr), c.addr, end),
                              CutCell(c, c.id, end, EndOf(c))>>,
               s.after, s.before + 1, read)

(* Mutant: the cell that reaches into the range from below is not split.   *)
Split_TailOnly(s, start, end, read) ==
    IF s.after = s.before
    THEN IF EndOf(s.list[s.after]) >= end
         THEN SplitCell3(s, start, end, read) ELSE s
    ELSE IF s.list[s.before].addr < end THEN SeplitCell_Tail(s, end, read) ELSE s

(* Mutant: `<=` for `<`, a cell that starts at the end is split as well.   *)
Split_TailAtEnd(s, start, end, read) ==
    IF s.after = s.before
    THEN IF EndOf(s.list[s.after]) >= end
         THEN SplitCell3(s, start, end, read) ELSE s
    ELSE LET h == IF EndOf(s.list[s.after]) > start
                  THEN SeplitCell_Head(s, start, read) ELSE s
         IN  IF h.list[h.before].addr <= end
             THEN SeplitCell_Tail(h, end, read) ELSE h

Split_Head_Tail(s, start, end, read) ==
    IF s.after = s.before
    THEN IF EndOf(s.list[s.after]) >= end
         THEN SplitCell3(s, start, end, read) ELSE s
    ELSE LET h == IF EndOf(s.list[s.after]) > start
                  THEN SeplitCell_Head(s, start, read) ELSE s
         IN  IF h.list[h.before].addr < end
             THEN SeplitCell_Tail(h, end, read) ELSE h

(* Remove(insertAfter, insertBefore): unlink every cell between the two.   *)
RemoveBetween(s) ==
    LET keys == { ADDR_TO_KEY(s.list[i].addr) : i \in s.after + 1 .. s.before - 1 }
    IN  [list   |-> Splice(s.list, s.after, s.before, <<>>),
         m_sm   |-> [k \in DOMAIN s.m_sm \ keys |-> s.m_sm[k]],
         after  |-> s.after,
         before |-> s.after + 1]

Opened(start, end) ==
    RemoveBetween(Split_Head_Tail(GetAffectedCells(start, end), start, end, FALSE))

(* Remove(addr, size) *)
RemoveRange(addr, size) ==
    LET s == Opened(addr, addr + size)
    IN  /\ list' = s.list
        /\ m_sm' = s.m_sm
        /\ Bytes!Erase(addr, size)

(* The source list of Merge, its cells allocated by the caller.            *)
Allocated(src) ==
    [i \in 1 .. Len(src) |-> SymCell(NewCell(src[i].addr), src[i].addr, src[i].size, src[i].expr)]

(***************************************************************************)
(* Merge(src_list): the source cells replace whatever the list holds from  *)
(* the start of the first one to the end of the last one.                  *)
(***************************************************************************)
Merge(src) ==
    LET s     == Opened(src[1].addr, EndOf(src[Len(src)]))
        cells == Allocated(src)
    IN  /\ list' = Splice(s.list, s.after, s.before, cells)
        /\ m_sm' = Enter(s.m_sm, cells)
        /\ Bytes!Put(src)

-----------------------------------------------------------------------------
(***************************************************************************)
(* Reads.  GetCellList copies the cells from insertAfter to insertBefore   *)
(* (CreateSymbolList), splits the copies and cuts the middle out, with     *)
(* addresses relative to the one read.  It dereferences NULL when no cell  *)
(* is left: its callers ask only for ranges the bitmap calls symbolic.     *)
(***************************************************************************)
CreateSymbolList(s) ==
    [s EXCEPT !.list   = SubSeq(s.list, s.after, s.before),
              !.after  = 1,
              !.before = s.before - s.after + 1]

(* Mutant: the addresses are not made relative.                            *)
GetCellListAbsolute(addr, size) ==
    LET s == Split_Head_Tail(CreateSymbolList(GetAffectedCells(addr, addr + size)),
                             addr, addr + size, TRUE)
    IN  SubSeq(s.list, s.after + 1, s.before - 1)

GetCellList(addr, size) ==
    LET s == Split_Head_Tail(CreateSymbolList(GetAffectedCells(addr, addr + size)),
                             addr, addr + size, TRUE)
        cut == SubSeq(s.list, s.after + 1, s.before - 1)
    IN  [i \in DOMAIN cut |-> [cut[i] EXCEPT !.addr = @ - addr]]

(***************************************************************************)
(* GetExpr: the bytes of the cells, and the concrete byte wherever no cell *)
(* lies (CombineMultiExpr of the pieces; a single piece is itself).        *)
(***************************************************************************)
GetExpr(addr, size, concrete) ==
    LET cells == GetCellList(addr, size)
        At(k) == { c \in ToSet(cells) : c.addr <= k /\ k < EndOf(c) }
    IN  [k \in 0 .. size - 1 |->
           IF At(k) = {} THEN concrete[k]
           ELSE LET c == CHOOSE d \in At(k) : TRUE IN c.expr[k - c.addr + 1]]
-----------------------------------------------------------------------------
(***************************************************************************)
(* Next.  Reads change nothing: the invariants evaluate them in every      *)
(* reachable state.  MaxId bounds the cells: TLC, which looks for deadlock,*)
(* shows that a run never meets the bound.                                 *)
(***************************************************************************)
Next ==
    /\ \A a \in Addr : FreeIds(a) \ {NewCell(a)} # {}
    /\ \/ \E src \in Sources : Merge(src)
       \/ \E r \in Ranges : RemoveRange(r[1], r[2])

Spec == Init /\ [][Next]_vars

-----------------------------------------------------------------------------
(* Cells carry as many bytes as their size; m_sm maps keys to cell ids.    *)
TypeOK ==
    /\ \A i \in DOMAIN list :
         /\ list[i].id \in Ids
         /\ list[i].addr \in Addr \cup {HeadAddr, TailAddr}
         /\ list[i].size = Len(list[i].expr)
         /\ ToSet(list[i].expr) \subseteq SymByte
    /\ \A k \in DOMAIN m_sm : m_sm[k] \in Ids
    /\ content \in [Addr -> SymByte \cup {NoSym}]

(***************************************************************************)
(* Every walk of GetAffectedCells ends at a cell, whatever range is asked  *)
(* for: neither of its two pointers runs past the tail (SymList.cpp:86).   *)
(***************************************************************************)
WalksEnd ==
    \A r \in Ranges :
        LET hit  == ADDR_TO_KEY(r[1]) \in DOMAIN m_sm
            from == IF hit THEN PosOf(list, m_sm[ADDR_TO_KEY(r[1])]) - 1 ELSE 1
        IN  /\ StopsAfter(list, r[1]) # {}
            /\ hit => StopsAfter(list, r[1]) = {from}
            /\ StopsBefore(list, from, r[1] + r[2]) # {}

(***************************************************************************)
(* After any sequence of merges, splits and removals the cells lie in      *)
(* address order between the sentinels, none is empty and no two overlap.  *)
(***************************************************************************)
ListOrdered ==
    /\ list[1].id = HeadId /\ list[Len(list)].id = TailId
    /\ \A i \in 1 .. Len(list) - 1 : EndOf(list[i]) <= list[i+1].addr
    /\ \A i \in 2 .. Len(list) - 1 : list[i].size > 0

(***************************************************************************)
(* m_sm finds a cell by its start exactly when the list has that cell: no  *)
(* entry survives the removal or the move of its cell, none is missing.    *)
(***************************************************************************)
IndexExact ==
    LET keyOf(i) == IF i = 1 THEN HeadKey ELSE ADDR_TO_KEY(list[i].addr)
    IN  /\ DOMAIN m_sm = { keyOf(i) : i \in DOMAIN list }
        /\ \A i \in DOMAIN list : m_sm[keyOf(i)] = list[i].id

(***************************************************************************)
(* The list denotes, byte by byte, the store its callers have in mind: the *)
(* last symbol merged at an address and not removed since.                 *)
(***************************************************************************)
ListImplementsStore ==
    \A a \in Addr :
        LET at == Bytes!Covering(list, a)
        IN  content[a] = IF at = {} THEN NoSym ELSE Bytes!Denotes(list)[a]

(***************************************************************************)
(* A read of a range that holds at least one symbol returns, for each      *)
(* byte, the symbol stored there or else the concrete byte it was given,   *)
(* and GetCellList has a cell to return (SymList.cpp:315 dereferences it). *)
(***************************************************************************)
ReadsExact ==
    \A r \in Ranges :
        (\E a \in Bytes!Span(r[1], r[2]) : content[a] # NoSym) =>
            /\ GetCellList(r[1], r[2]) # <<>>
            /\ GetExpr(r[1], r[2], [k \in 0 .. r[2] - 1 |-> NoSym])
                 = [k \in 0 .. r[2] - 1 |-> content[r[1] + k]]
=============================================================================
