----------------------------- MODULE MCSymList -----------------------------
(* Instances of SymList for TLC.                                           *)
EXTENDS SymList

CONSTANTS v, w      \* two symbolic values

MCLo == -6          \* kernel addresses are negative as int64_t
MCHi == -2

MCSymByte == {v, w} \X (0 .. 2)

Piece(val, addr, off, size) ==
    [addr |-> addr, size |-> size,
     expr |-> [k \in 1 .. size |-> <<val, off + k - 1>>]]

(* Every range of Lo..Hi of up to three bytes.                             *)
MCRanges == { r \in (Lo .. Hi) \X (1 .. 3) : r[1] + r[2] <= Hi + 1 }

(***************************************************************************)
(* What setSymValue and mov merge: one expression over a range, or a list  *)
(* read from elsewhere, here two pieces with a gap between them.           *)
(***************************************************************************)
MCSources ==
    { <<Piece(v, r[1], 0, r[2])>> : r \in MCRanges }
    \cup { <<Piece(w, a, 0, 1), Piece(w, a + 2, 2, 1)>> : a \in {Lo + 1} }
=============================================================================
