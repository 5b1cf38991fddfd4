------------------------------ MODULE SymBytes ------------------------------
(***************************************************************************)
(* What a store of symbolic values promises, byte by byte: an address      *)
(* either holds one byte of a symbolic expression or holds no symbol.      *)
(* Symbol_List_Map (module SymList) implements it with a list of cells;    *)
(* SYMemState (module MemState) is written against it.                     *)
(***************************************************************************)
EXTENDS Integers, Sequences

CONSTANTS
    Addr,       \* the byte addresses of the store
    NoSym       \* "no symbol at this address"

VARIABLE content    \* Addr -> symbolic byte or NoSym

Empty == [a \in Addr |-> NoSym]

Span(addr, size) == { a \in Addr : addr <= a /\ a < addr + size }

(***************************************************************************)
(* The symbols that a list of cells [addr, size, expr] denotes: byte by    *)
(* byte for the addresses that some cell covers.                           *)
(***************************************************************************)
Covering(cells, a) ==
    { i \in DOMAIN cells :
        cells[i].addr <= a /\ a < cells[i].addr + cells[i].size }

Denotes(cells) ==
    [a \in { b \in Addr : Covering(cells, b) # {} } |->
        LET c == cells[CHOOSE i \in Covering(cells, a) : TRUE]
        IN  c.expr[a - c.addr + 1]]

(***************************************************************************)
(* The store after the bytes of `range` took the symbols of `bytes`: a     *)
(* byte of the range that `bytes` leaves out loses its symbol.             *)
(***************************************************************************)
Replaced(range, bytes) ==
    [a \in Addr |-> IF a \in DOMAIN bytes THEN bytes[a]
                    ELSE IF a \in range THEN NoSym
                    ELSE content[a]]

(* Merge: from the start of the first cell to the end of the last one.     *)
Put(cells) ==
    LET first == cells[1]
        last  == cells[Len(cells)]
    IN  content' = Replaced(Span(first.addr, last.addr + last.size - first.addr),
                            Denotes(cells))

(* Remove *)
Erase(addr, size) == content' = Replaced(Span(addr, size), <<>>)
=============================================================================
