------------------------------- MODULE Layers -------------------------------
(***************************************************************************)
(* Bytes kept in three layers, as registers (CPUState.cpp) and memory      *)
(* (MemState.cpp) keep them: a store is a record                           *)
(*     marked    the bytes that the bitmap calls symbolic,                 *)
(*     content   the symbol list, byte by byte (module SymBytes),          *)
(*     con       the concrete bytes.                                       *)
(* A value stands `at` an offset of the bitmap and the list, and `conAt`   *)
(* one of the concrete bytes: regIdxToAddrSize and readConcreteValue do    *)
(* not find the byte registers in the same place.                          *)
(* Values are functions from the offsets 0 .. size - 1; a list of cells is *)
(* a partial one.                                                          *)
(***************************************************************************)
EXTENDS Integers

CONSTANTS
    Width,      \* bytes of a full register (8)
    Zero,       \* the byte 0
    NoSym       \* the list holds no symbol

Span(at, size) == at .. at + size - 1

(* A store without symbols.                                                *)
Concrete(con) == [marked |-> {}, content |-> [o \in DOMAIN con |-> NoSym], con |-> con]

Zeroes(size) == [i \in 0 .. size - 1 |-> Zero]

(* writeConcreteValue: the concrete layer alone.                           *)
Overlay(con, at, val) ==
    [o \in DOMAIN con |-> IF o - at \in DOMAIN val THEN val[o - at] ELSE con[o]]

(* isSYReg, isSYMemoryCell                                                 *)
IsSym(s, at, size) == Span(at, size) \cap s.marked # {}

(* bsym = false: unmark, drop the symbols, write the value.                *)
WriteCon(s, at, conAt, size, val) ==
    [marked  |-> s.marked \ Span(at, size),
     content |-> [o \in DOMAIN s.con |-> IF o \in Span(at, size) THEN NoSym ELSE s.content[o]],
     con     |-> Overlay(s.con, conAt, val)]

(* An expression, with the concrete image 0 that all callers pass.         *)
WriteExpr(s, at, conAt, size, expr) ==
    [marked  |-> s.marked \cup Span(at, size),
     content |-> [o \in DOMAIN s.con |->
                    IF o \in Span(at, size) THEN expr[o - at] ELSE s.content[o]],
     con     |-> Overlay(s.con, conAt, Zeroes(size))]

(***************************************************************************)
(* A list of cells: the whole value is unmarked and its concrete image     *)
(* written, the cells are marked and merged where `base` puts them.        *)
(***************************************************************************)
WriteList(s, at, conAt, size, base, sym, val) ==
    [marked  |-> (s.marked \ Span(at, size))
                    \cup { o \in DOMAIN s.con : o - base \in DOMAIN sym },
     content |-> [o \in DOMAIN s.con |->
                    IF o - base \in DOMAIN sym THEN sym[o - base]
                    ELSE IF \E j, k \in DOMAIN sym : base + j <= o /\ o <= base + k
                    THEN NoSym ELSE s.content[o]],
     con     |-> Overlay(s.con, conAt, val)]

(***************************************************************************)
(* Reading: GetCellList returns the cells of the list, marked or not, and  *)
(* GetExpr combines them with concrete bytes; what is not symbolic is read *)
(* from the concrete layer.                                                *)
(***************************************************************************)
CellsOf(s, at, size) ==
    [i \in { j \in 0 .. size - 1 : s.content[at + j] # NoSym } |-> s.content[at + i]]

ImageOf(s, conAt, size) == [i \in 0 .. size - 1 |-> s.con[conAt + i]]

ReadExpr(s, at, conAt, size) ==
    [i \in 0 .. size - 1 |->
        IF IsSym(s, at, size) /\ s.content[at + i] # NoSym
        THEN s.content[at + i] ELSE s.con[conAt + i]]

(* regIdxToAddrSize: the bytes of each sub-register within its register.   *)
regIdxToAddrSize ==
    [full |-> <<0, Width>>, d |-> <<0, Width \div 2>>, w |-> <<0, 2>>,
     l |-> <<0, 1>>, h |-> <<1, 1>>]

(***************************************************************************)
(* readConcreteValue, writeConcreteValue: a byte is taken from the bottom  *)
(* of the register if (R->indx & 0xf00) == (x86_64::L_REG << 8), which no  *)
(* index satisfies: every byte register is read and written as ah is.      *)
(***************************************************************************)
conOffset ==
    [full |-> 0, d |-> 0, w |-> 0, l |-> 1, h |-> 1]
=============================================================================
