------------------------------- MODULE EFlags -------------------------------
(***************************************************************************)
(* How the thin controller decides conditional instructions: the flag part *)
(* of SYCPUState (CPUState.cpp), EFlagsManager, the evaluator of Z3Handler *)
(* and the conditional branches of CThinCtrl::processFunction.             *)
(*                                                                         *)
(* A world gives a value to every symbolic object; Seed is the world the   *)
(* run executes (has_seed).  An expression is [op, r, l] on a symbol or a  *)
(* number at either side, in words of 2 * Half values.  m_Constraint is    *)
(* the set of worlds that satisfy it.  The variables native and agree are  *)
(* the machine's own account: the expression each flag really comes from,  *)
(* and the worlds that would have taken every decision taken so far.       *)
(***************************************************************************)
EXTENDS Integers, Sequences

CONSTANTS
    Half,           \* 2^(width - 1)
    SymbolOrder,    \* m_SYMemObjects: the symbolic objects, in key order
    Seed,           \* symbol -> the value the run uses
    SymExprs,       \* what SymExecutor may pass to SaveFlagChangingInstructionExpr
    ConExprs,       \* the flag-changing instructions ConExecutor may run
    Preserves,      \* the sets of flags such an instruction may leave alone
    Conds,          \* the conditions <<kind, cc, has a symbolic operand>>, the
                    \* kind one of jcc, cmov and set
    NoExpr          \* m_LastExpr = NULL

Mod == 2 * Half
Word == 0 .. Mod - 1
Symbols == { SymbolOrder[i] : i \in DOMAIN SymbolOrder }
Worlds == [Symbols -> Word]
Flags == {"cf", "zf", "sf", "of"}
CCs == {"nb", "nbe", "be", "b", "nl", "nle", "le", "l", "z", "nz", "ns", "s", "no", "o"}

ASSUME EFlagsAssumption ==
    /\ Half \in Nat \ {0}
    /\ SymbolOrder \in Seq(Symbols) /\ Symbols \cap Int = {}
    /\ Seed \in Worlds
    /\ ConExprs # {} /\ NoExpr \notin SymExprs
    /\ \A e \in SymExprs : {e.r, e.l} \subseteq Word \cup Symbols
    /\ \A e \in ConExprs : {e.r, e.l} \subseteq Word
    /\ Preserves \subseteq SUBSET Flags
    /\ \A c \in Conds : c[2] \in CCs \cup {"p"} /\ c[3] \in BOOLEAN

-----------------------------------------------------------------------------
(* The machine: the flags of an instruction, and what a condition means.   *)
Val(operand, w) == IF operand \in Symbols THEN w[operand] ELSE operand

Signed(v) == IF v >= Half THEN v - Mod ELSE v

BitAnd[a \in Word, b \in Word] ==
    IF a = 0 \/ b = 0 THEN 0
    ELSE 2 * BitAnd[a \div 2, b \div 2] + (a % 2) * (b % 2)

Exact(op, a, b) ==
    CASE op = "Sub" -> a - b
      [] op = "Add" -> a + b
      [] op = "And" -> BitAnd[a, b]
      [] op = "Or"  -> a + b - BitAnd[a, b]
      [] op = "Xor" -> a + b - 2 * BitAnd[a, b]

Result(e, w) == Exact(e.op, Val(e.r, w), Val(e.l, w)) % Mod

FlagOf(e, f, w) ==
    LET a == Val(e.r, w)
        b == Val(e.l, w)
        arith == e.op \in {"Sub", "Add"}
    IN  \/ f = "zf" /\ Result(e, w) = 0
        \/ f = "sf" /\ Result(e, w) >= Half
        \/ f = "cf" /\ arith /\ Exact(e.op, a, b) \notin Word
        \/ f = "of" /\ arith /\ Exact(e.op, Signed(a), Signed(b))
                                  \notin -Half .. Half - 1

(* The meaning of a condition, as the comments of EFlagsManager.cpp say.   *)
Holds(cc, v) ==
    \/ cc = "nb"  /\ ~v["cf"]
    \/ cc = "nbe" /\ ~v["cf"] /\ ~v["zf"]
    \/ cc = "be"  /\ (v["cf"] \/ v["zf"])
    \/ cc = "b"   /\ v["cf"]
    \/ cc = "nl"  /\ v["sf"] = v["of"]
    \/ cc = "nle" /\ ~v["zf"] /\ v["sf"] = v["of"]
    \/ cc = "le"  /\ (v["zf"] \/ v["sf"] # v["of"])
    \/ cc = "l"   /\ v["sf"] # v["of"]
    \/ cc = "z"   /\ v["zf"]
    \/ cc = "nz"  /\ ~v["zf"]
    \/ cc = "ns"  /\ ~v["sf"]
    \/ cc = "s"   /\ v["sf"]
    \/ cc = "no"  /\ ~v["of"]
    \/ cc = "o"   /\ v["of"]

-----------------------------------------------------------------------------
VARIABLES
    eflags,     \* m_PTRegs.regs.eflags, per flag
    bsym_flag,  \* per flag: is it symbolic?
    m_LastExpr, \* the last flag-changing expression, or NoExpr
    known,      \* the keys of symObjectsMap
    sols,       \* the worlds that satisfy m_Constraint
    native,     \* flag -> the expression the machine has it from
    agree,      \* the worlds that take the decisions taken so far
    status      \* "run", or "abort" once an assertion failed

vars == <<eflags, bsym_flag, m_LastExpr, known, sols, native, agree, status>>

(* The run starts with the flags some native instruction left behind.      *)
Init ==
    \E e \in ConExprs :
        /\ eflags = [f \in Flags |-> FlagOf(e, f, Seed)]
        /\ native = [f \in Flags |-> e]
        /\ bsym_flag = [f \in Flags |-> FALSE]
        /\ m_LastExpr = NoExpr /\ known = {}
        /\ sols = Worlds /\ agree = Worlds
        /\ status = "run"

(* Mutant: the expression is not kept.                                     *)
SaveOnlyFlags(e) ==
    /\ status = "run"
    /\ bsym_flag' = [f \in Flags |-> TRUE]
    /\ native' = [f \in Flags |-> e]
    /\ UNCHANGED <<eflags, m_LastExpr, known, sols, agree, status>>

(* A flag-changing instruction in SymExecutor.                             *)
SaveFlagChangingInstructionExpr(e) ==
    /\ status = "run"
    /\ m_LastExpr' = e
    /\ bsym_flag' = [f \in Flags |-> TRUE]
    /\ native' = [f \in Flags |-> e]
    /\ UNCHANGED <<eflags, known, sols, agree, status>>

(***************************************************************************)
(* A flag-changing instruction in ConExecutor, which runs it on the host   *)
(* processor; processFunction then calls clearAllSymFlag.                  *)
(***************************************************************************)
InsnDispatch(e, keeps) ==
    /\ status = "run"
    /\ eflags' = [f \in Flags |-> IF f \in keeps THEN eflags[f] ELSE FlagOf(e, f, Seed)]
    /\ native' = [f \in Flags |-> IF f \in keeps THEN native[f] ELSE e]
    /\ bsym_flag' = [f \in Flags |-> FALSE]
    /\ UNCHANGED <<m_LastExpr, known, sols, agree, status>>

-----------------------------------------------------------------------------
(* The flags that DependencyFlagConcreted asks FlagBitDefinited for.       *)
DependsOn(cc) ==
    { f \in Flags :
        \/ f = "cf" /\ cc \in {"nb", "b", "nbe", "be"}
        \/ f = "zf" /\ cc \in {"nbe", "be", "nle", "le", "z", "nz"}
        \/ f = "sf" /\ cc \in {"nl", "l", "nle", "le", "ns", "s"}
        \/ f = "of" /\ cc \in {"nl", "l", "nle", "le", "no", "o"} }

Definite(cc) == \A f \in DependsOn(cc) : ~bsym_flag[f]

(* DependencyFlagConcreted asserts on parity; e_cmovnle is commented out.  *)
(* The decision it returns for definite flags is not used by its callers.  *)
Asserts(kind, cc) == cc = "p" \/ (kind = "cmov" /\ cc = "nle")

(* Mutant: the `&&` that the commented-out line of thinctrl.cpp:433 had.   *)
chkCondFailAnd(cc) ==
    IF cc = "le" THEN ~((eflags["sf"] # eflags["of"]) /\ eflags["zf"])
    ELSE ~Holds(cc, eflags)

(* chkCondFail: its own reading of eflags, used once they are definite.    *)
chkCondFail(cc) ==
    LET cf == eflags["cf"]
        zf == eflags["zf"]
        less == eflags["sf"] # eflags["of"]
    IN  \/ cc = "nbe" /\ (cf \/ zf)
        \/ cc = "be"  /\ ~cf /\ ~zf
        \/ cc = "nle" /\ (zf \/ less)
        \/ cc = "le"  /\ ~(less \/ zf)
        \/ cc = "nl"  /\ less
        \/ cc = "l"   /\ ~less
        \/ cc \notin {"nbe", "be", "nle", "le", "nl", "l"} /\ ~Holds(cc, eflags)

(***************************************************************************)
(* What is done with definite flags: a jump follows chkCondFail; a cmov or *)
(* set goes to SymExecutor if it has a symbolic operand, which does not    *)
(* ask for the condition, and else to the host processor.                  *)
(***************************************************************************)
Decided(kind, cc, symopd) ==
    IF kind = "jcc" THEN ~chkCondFail(cc)
    ELSE symopd \/ Holds(cc, eflags)

-----------------------------------------------------------------------------
(***************************************************************************)
(* GetCondition, CreateExprByID and the translation to Z3: an order        *)
(* condition compares the operands of the last expression, whatever its    *)
(* operator is; (in)equality compares its result with 0.                   *)
(***************************************************************************)
GetCondition(cc, e, w) ==
    LET a == Val(e.r, w)
        b == Val(e.l, w)
    IN  \/ cc = "nb"  /\ a >= b
        \/ cc = "nbe" /\ a > b
        \/ cc = "be"  /\ a <= b
        \/ cc = "b"   /\ a < b
        \/ cc = "nl"  /\ Signed(a) >= Signed(b)
        \/ cc = "nle" /\ Signed(a) > Signed(b)
        \/ cc = "le"  /\ Signed(a) <= Signed(b)
        \/ cc = "l"   /\ Signed(a) < Signed(b)
        \/ cc = "z"   /\ Result(e, w) = 0
        \/ cc = "nz"  /\ Result(e, w) # 0

(* CreateExprByID has no NoSign, Overflow or NoOverflow; Z3 rejects Sign.  *)
HasCondition(cc) == cc \notin {"s", "ns", "o", "no", "p"}

(***************************************************************************)
(* Z3SolveConcritize: the seeded objects that Z3Handler has ever met are   *)
(* replaced by their values one at a time, and the answer for the last of  *)
(* them counts: is the condition then true, whatever the others are?       *)
(***************************************************************************)
Z3SolveConcritize(cc, e, met) ==
    \E i \in DOMAIN SymbolOrder :
        /\ SymbolOrder[i] \in met
        /\ \A j \in DOMAIN SymbolOrder : SymbolOrder[j] \in met => j <= i
        /\ \A w \in Worlds :
              w[SymbolOrder[i]] = Seed[SymbolOrder[i]] => GetCondition(cc, e, w)

(* The flags ConcreteFlag sets, with their values.                         *)
ConcreteFlag(cc, taken) ==
    CASE cc = "nb" -> [f \in {"cf"} |-> ~taken]
      [] cc = "b"  -> [f \in {"cf"} |-> taken]
      [] cc = "nz" -> [f \in {"zf"} |-> ~taken]
      [] cc \in {"z", "le"} -> [f \in {"zf"} |-> taken]
      [] cc = "nbe" /\ taken -> [f \in {"cf", "zf"} |-> FALSE]
      [] cc = "nle" /\ taken -> [f \in {"zf"} |-> FALSE]
      [] OTHER -> [f \in {} |-> FALSE]

(* Mutant: LNot is forgotten for a condition that does not hold.           *)
ConstraintAlwaysPositive(cc, taken) ==
    sols' = { w \in sols : GetCondition(cc, m_LastExpr, w) }

(* m_Constraint.insert, of the condition or its negation.                  *)
AddConstraint(cc, taken) ==
    sols' = { w \in sols : GetCondition(cc, m_LastExpr, w) = taken }

(* What the machine would make of the same decision, in each world.        *)
NativeFlags(w) == [f \in Flags |-> FlagOf(native[f], f, w)]

Follow(cc, taken) == agree' = { w \in agree : Holds(cc, NativeFlags(w)) = taken }

(***************************************************************************)
(* A conditional jump (updateJCCDecision), or a cmov or set (the default   *)
(* branch of processFunction).  A cmov or set that is not taken continues  *)
(* the loop before ConcreteFlag.                                           *)
(***************************************************************************)
Conditional(kind, cc, symopd) ==
    /\ status = "run"
    /\ UNCHANGED <<bsym_flag, m_LastExpr, native>>
    /\ \/ /\ Asserts(kind, cc)
          /\ status' = "abort"
          /\ UNCHANGED <<eflags, known, sols, agree>>
       \/ /\ ~Asserts(kind, cc) /\ Definite(cc)
          /\ Follow(cc, Decided(kind, cc, symopd))
          /\ UNCHANGED <<eflags, known, sols, status>>
       \/ /\ ~Asserts(kind, cc) /\ ~Definite(cc) /\ ~HasCondition(cc)
          /\ status' = "abort"
          /\ UNCHANGED <<eflags, known, sols, agree>>
       \/ /\ ~Asserts(kind, cc) /\ ~Definite(cc) /\ HasCondition(cc)
          /\ known' = known \cup ({m_LastExpr.r, m_LastExpr.l} \cap Symbols)
          /\ LET taken == Z3SolveConcritize(cc, m_LastExpr, known')
                 set   == ConcreteFlag(cc, taken)
             IN  /\ AddConstraint(cc, taken)
                 /\ Follow(cc, taken)
                 /\ eflags' = [f \in Flags |->
                                IF (kind = "jcc" \/ taken) /\ f \in DOMAIN set
                                THEN set[f] ELSE eflags[f]]
          /\ UNCHANGED status

Next ==
    \/ \E e \in SymExprs : SaveFlagChangingInstructionExpr(e)
    \/ \E e \in ConExprs, keeps \in Preserves : InsnDispatch(e, keeps)
    \/ \E c \in Conds : Conditional(c[1], c[2], c[3])

Spec == Init /\ [][Next]_vars

-----------------------------------------------------------------------------
(***************************************************************************)
(* Types, and m_LastExpr is there whenever a flag is symbolic              *)
(* (DoGetCondition asserts it, EFlagsManager.cpp:824).                     *)
(***************************************************************************)
TypeOK ==
    /\ eflags \in [Flags -> BOOLEAN]
    /\ bsym_flag \in [Flags -> BOOLEAN]
    /\ m_LastExpr \in SymExprs \cup {NoExpr}
    /\ (\E f \in Flags : bsym_flag[f]) => m_LastExpr # NoExpr
    /\ known \in SUBSET Symbols
    /\ sols \in SUBSET Worlds /\ agree \in SUBSET Worlds
    /\ native \in [Flags -> SymExprs \cup ConExprs]
    /\ status \in {"run", "abort"}

(***************************************************************************)
(* What the passing run and the theorems rest on, each broken by the code: *)
(* every condition means the same of the symbolic expressions as it does   *)
(* of their flags (not so for and, test, or, xor); instructions set all    *)
(* the flags or none (not so for inc and dec); a cmov or set has no        *)
(* symbolic operand (with one, definite flags are not looked at).          *)
(***************************************************************************)
FaithfulConditions ==
    \A c \in Conds, e \in SymExprs, w \in Worlds : HasCondition(c[2]) =>
        GetCondition(c[2], e, w) = Holds(c[2], [f \in Flags |-> FlagOf(e, f, w)])

WholeFlags == Preserves \subseteq {{}}

PlainMoves == \A c \in Conds : c[1] = "jcc" \/ ~c[3]

(* One symbolic object, and every symbolic expression mentions it.         *)
OneObject ==
    /\ Len(SymbolOrder) = 1
    /\ \A e \in SymExprs : SymbolOrder[1] \in {e.r, e.l}

(***************************************************************************)
(* The run follows the path that the seed takes on the machine: every      *)
(* decision was the one native execution would take ("Evaluate bExecute    *)
(* based on concrete value of symbols", thinctrl.cpp:674).                 *)
(***************************************************************************)
SeedOnPath == Seed \in agree

(***************************************************************************)
(* m_Constraint is exactly the condition of the path: the inputs that      *)
(* satisfy it are those on which the machine takes the same decisions,     *)
(* "LE/NG; (ZF=1 or SF # OF)" (EFlagsManager.cpp:900) and so on.           *)
(***************************************************************************)
PathExact == sols = agree

(***************************************************************************)
(* bsym_flag ("is a symbolic value?", CPUState.h:91): a flag for which it  *)
(* is false has, on every input, the value that eflags has, whichever      *)
(* symbolic and concrete instructions set flags before.                    *)
(***************************************************************************)
DefiniteIsConcrete ==
    \A f \in Flags : ~bsym_flag[f] =>
        \A w \in Worlds : FlagOf(native[f], f, w) = eflags[f]

=============================================================================
