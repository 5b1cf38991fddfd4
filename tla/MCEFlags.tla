------------------------------ MODULE MCEFlags ------------------------------
(***************************************************************************)
(* Words of two bits (Half = 2), one or two symbols.                       *)
(***************************************************************************)
EXTENDS EFlags, TLC

CONSTANTS x, y      \* symbolic objects

Expr(op, r, l) == [op |-> op, r |-> r, l |-> l]

OneSymbol == <<x>>
SeedOfOne == (x :> 1)
TwoSymbols == <<x, y>>
SeedOfTwo == (x :> 1) @@ (y :> 2)

(* cmp or sub of a symbol with a number, in both orders.                   *)
Compares == { Expr("Sub", x, n) : n \in Word } \cup { Expr("Sub", n, x) : n \in Word }

ComparesTwo == {Expr("Sub", x, 1), Expr("Sub", y, 2)}

(* Concrete comparisons that reach every combination of the flags.         *)
Concrete == { Expr("Sub", a, b) : a, b \in Word }

AnyCond == { <<k, cc, FALSE>> : k \in {"jcc", "cmov", "set"}, cc \in CCs \cup {"p"} }
ZeroCond == { <<k, cc, FALSE>> : k \in {"jcc", "cmov", "set"}, cc \in {"z", "nz"} }

Whole == {{}}               \* instructions that set all the flags
=============================================================================
