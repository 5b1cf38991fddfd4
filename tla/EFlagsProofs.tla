---------------------------- MODULE EFlagsProofs ----------------------------
(***************************************************************************)
(* For every word width, seed and set of instructions within the           *)
(* hypotheses named in EFlags: the path condition is exact, and the run    *)
(* follows its seed.                                                       *)
(***************************************************************************)
EXTENDS EFlags, TLAPS

(* All flags are concrete, or all come from m_LastExpr.                    *)
Uniform ==
    \/ \A f \in Flags : ~bsym_flag[f]
    \/ /\ m_LastExpr \in SymExprs
       /\ \A f \in Flags : bsym_flag[f] /\ native[f] = m_LastExpr

Shape ==
    /\ eflags \in [Flags -> BOOLEAN]
    /\ bsym_flag \in [Flags -> BOOLEAN]
    /\ agree \subseteq Worlds

IInv == Shape /\ Uniform /\ DefiniteIsConcrete /\ PathExact

(* A flag is a truth value.                                                *)
LEMMA FlagBoolean ==
    ASSUME NEW e, NEW f \in Flags, NEW w
    PROVE  FlagOf(e, f, w) \in BOOLEAN
BY DEF FlagOf

(* The flags of a concrete instruction do not depend on the inputs.        *)
LEMMA ConcreteFlags ==
    ASSUME NEW e \in ConExprs, NEW f \in Flags, NEW w \in Worlds
    PROVE  FlagOf(e, f, w) = FlagOf(e, f, Seed)
<1>1. e.r \notin Symbols /\ e.l \notin Symbols
  BY EFlagsAssumption DEF Word, Mod
<1>2. Val(e.r, w) = Val(e.r, Seed) /\ Val(e.l, w) = Val(e.l, Seed)
  BY <1>1 DEF Val
<1>3. Result(e, w) = Result(e, Seed)
  BY <1>2 DEF Result
<1> QED
  BY <1>2, <1>3 DEF FlagOf

(* A condition depends on the flags DependsOn names, and on no other.      *)
LEMMA DependsOnly ==
    ASSUME NEW cc \in CCs,
           NEW u \in [Flags -> BOOLEAN], NEW v \in [Flags -> BOOLEAN],
           \A f \in DependsOn(cc) : u[f] = v[f]
    PROVE  Holds(cc, u) = Holds(cc, v)
BY DEF CCs, DependsOn, Holds, Flags

(* chkCondFail is the negation of the condition.                           *)
LEMMA CondFail ==
    ASSUME NEW cc \in CCs, Shape
    PROVE  chkCondFail(cc) = ~Holds(cc, eflags)
BY DEF CCs, chkCondFail, Holds, Flags, Shape

(* What ConcreteFlag stores in a flag is a truth value.                    *)
LEMMA ConcreteFlagBoolean ==
    ASSUME NEW cc, NEW taken \in BOOLEAN, NEW f \in DOMAIN ConcreteFlag(cc, taken)
    PROVE  ConcreteFlag(cc, taken)[f] \in BOOLEAN
BY DEF ConcreteFlag

(* With definite flags the machine decides alike in every world.           *)
LEMMA DefiniteFollows ==
    ASSUME IInv, NEW cc \in CCs, Definite(cc)
    PROVE  \A w \in Worlds : Holds(cc, NativeFlags(w)) = Holds(cc, eflags)
<1> SUFFICES ASSUME NEW w \in Worlds
             PROVE  Holds(cc, NativeFlags(w)) = Holds(cc, eflags)
  OBVIOUS
<1>1. NativeFlags(w) \in [Flags -> BOOLEAN]
  BY FlagBoolean DEF NativeFlags
<1>2. \A f \in DependsOn(cc) : NativeFlags(w)[f] = eflags[f]
  BY DEF NativeFlags, IInv, DefiniteIsConcrete, Definite, DependsOn
<1> QED
  BY <1>1, <1>2, DependsOnly DEF IInv, Shape

(* With a symbolic flag, every flag comes from m_LastExpr.                 *)
LEMMA SymbolicFollows ==
    ASSUME IInv, FaithfulConditions, NEW c \in Conds, ~Definite(c[2]), HasCondition(c[2])
    PROVE  /\ m_LastExpr \in SymExprs
           /\ \A f \in Flags : bsym_flag[f]
           /\ \A w \in Worlds :
                 GetCondition(c[2], m_LastExpr, w) = Holds(c[2], NativeFlags(w))
<1>1. /\ m_LastExpr \in SymExprs
      /\ \A f \in Flags : bsym_flag[f] /\ native[f] = m_LastExpr
  BY DEF IInv, Uniform, Definite, DependsOn
<1>2. ASSUME NEW w \in Worlds
      PROVE  NativeFlags(w) = [f \in Flags |-> FlagOf(m_LastExpr, f, w)]
  BY <1>1 DEF NativeFlags
<1> QED
  BY <1>1, <1>2 DEF FaithfulConditions

(* The decision taken with definite flags is the machine's.                *)
LEMMA DecidedHolds ==
    ASSUME Shape, PlainMoves, NEW c \in Conds, c[2] \in CCs
    PROVE  Decided(c[1], c[2], c[3]) = Holds(c[2], eflags)
<1>1. CASE c[1] = "jcc"
  BY <1>1, CondFail DEF Decided, Holds
<1>2. CASE c[1] # "jcc"
  BY <1>2 DEF Decided, PlainMoves, Holds
<1> QED
  BY <1>1, <1>2

(* The invariant is inductive.                                             *)
LEMMA InvInitial == Init => IInv
<1> SUFFICES ASSUME Init PROVE IInv
  OBVIOUS
<1>1. PICK e \in ConExprs :
        /\ eflags = [f \in Flags |-> FlagOf(e, f, Seed)]
        /\ native = [f \in Flags |-> e]
  BY DEF Init
<1>2. Shape
  BY <1>1, FlagBoolean DEF Init, Shape
<1>3. Uniform /\ PathExact
  BY DEF Init, Uniform, PathExact
<1>4. DefiniteIsConcrete
  BY <1>1, ConcreteFlags DEF DefiniteIsConcrete
<1> QED
  BY <1>2, <1>3, <1>4 DEF IInv

LEMMA InvStep ==
    ASSUME FaithfulConditions, WholeFlags, PlainMoves, IInv, [Next]_vars
    PROVE  IInv'
<1> USE DEF IInv
<1>1. ASSUME NEW e \in SymExprs, SaveFlagChangingInstructionExpr(e)
      PROVE  IInv'
  <2>1. Shape' /\ PathExact'
    BY <1>1 DEF SaveFlagChangingInstructionExpr, Shape, PathExact
  <2>2. Uniform' /\ DefiniteIsConcrete'
    BY <1>1 DEF SaveFlagChangingInstructionExpr, Uniform, DefiniteIsConcrete
  <2> QED
    BY <2>1, <2>2
<1>2. ASSUME NEW e \in ConExprs, NEW keeps \in Preserves, InsnDispatch(e, keeps)
      PROVE  IInv'
  <2>1. /\ eflags' = [f \in Flags |-> FlagOf(e, f, Seed)]
        /\ native' = [f \in Flags |-> e]
        /\ bsym_flag' = [f \in Flags |-> FALSE]
    BY <1>2 DEF InsnDispatch, WholeFlags
  <2>2. Shape' /\ PathExact' /\ Uniform'
    BY <1>2, <2>1, FlagBoolean DEF InsnDispatch, Shape, PathExact, Uniform
  <2>3. DefiniteIsConcrete'
    BY <2>1, ConcreteFlags DEF DefiniteIsConcrete
  <2> QED
    BY <2>2, <2>3
<1>3. ASSUME NEW c \in Conds, Conditional(c[1], c[2], c[3])
      PROVE  IInv'
  <2>1. CASE UNCHANGED <<eflags, sols, agree>>
    BY <2>1, <1>3 DEF Conditional, Shape, Uniform, DefiniteIsConcrete, PathExact
  <2>2. CASE /\ ~Asserts(c[1], c[2]) /\ Definite(c[2])
             /\ Follow(c[2], Decided(c[1], c[2], c[3]))
             /\ UNCHANGED <<eflags, sols>>
    <3>1. c[2] \in CCs
      BY <2>2, EFlagsAssumption DEF Asserts
    <3>2. agree' = agree
      BY <2>2, <3>1, DefiniteFollows, DecidedHolds DEF Follow, Shape
    <3> QED
      BY <3>2, <2>1, <2>2
  <2>3. CASE /\ ~Definite(c[2]) /\ HasCondition(c[2])
             /\ \E taken \in BOOLEAN :
                   /\ AddConstraint(c[2], taken) /\ Follow(c[2], taken)
                   /\ eflags' = [f \in Flags |->
                          IF (c[1] = "jcc" \/ taken) /\ f \in DOMAIN ConcreteFlag(c[2], taken)
                          THEN ConcreteFlag(c[2], taken)[f] ELSE eflags[f]]
    <3>1. PICK taken \in BOOLEAN :
            /\ AddConstraint(c[2], taken) /\ Follow(c[2], taken)
            /\ eflags' = [f \in Flags |->
                   IF (c[1] = "jcc" \/ taken) /\ f \in DOMAIN ConcreteFlag(c[2], taken)
                   THEN ConcreteFlag(c[2], taken)[f] ELSE eflags[f]]
      BY <2>3
    <3>2. UNCHANGED <<bsym_flag, m_LastExpr, native>>
      BY <1>3 DEF Conditional
    <3>3. Shape'
      BY <3>1, <3>2, ConcreteFlagBoolean DEF Shape, Follow
    <3>4. PathExact'
      BY <2>3, <3>1, SymbolicFollows DEF AddConstraint, Follow, PathExact, Shape
    <3>5. Uniform' /\ DefiniteIsConcrete'
      BY <2>3, <3>2, SymbolicFollows DEF Uniform, DefiniteIsConcrete
    <3> QED
      BY <3>3, <3>4, <3>5
  <2> QED
    <3>1. Z3SolveConcritize(c[2], m_LastExpr, known') \in BOOLEAN
      BY DEF Z3SolveConcritize
    <3> QED
      BY <1>3, <2>1, <2>2, <2>3, <3>1 DEF Conditional
<1>4. CASE UNCHANGED vars
  BY <1>4 DEF vars, Shape, Uniform, DefiniteIsConcrete, PathExact
<1> QED
  BY <1>1, <1>2, <1>3, <1>4 DEF Next

-----------------------------------------------------------------------------
(* Comparisons: for a subtraction every condition means what it says.      *)

(* A number between -m and m, reduced modulo m.                            *)
LEMMA Reduced ==
    ASSUME NEW m \in Nat \ {0}, NEW d \in Int, -m <= d, d < m
    PROVE  d % m = IF d >= 0 THEN d ELSE d + m
<1>1. CASE d >= 0
  BY <1>1
<1>2. CASE d < 0
  BY <1>2
<1> QED
  BY <1>1, <1>2

(* The difference of two words, reduced.                                   *)
LEMMA Difference ==
    ASSUME NEW a \in Word, NEW b \in Word
    PROVE  (a - b) % Mod = IF a >= b THEN a - b ELSE a - b + Mod
<1>1. /\ Mod \in Nat \ {0} /\ a - b \in Int
      /\ -Mod <= a - b /\ a - b < Mod
      /\ a - b >= 0 <=> a >= b
  BY EFlagsAssumption DEF Mod, Word
<1> QED
  BY <1>1, Reduced

(* The exact result of a subtraction.                                      *)
LEMMA ExactSub ==
    ASSUME NEW a, NEW b
    PROVE  Exact("Sub", a, b) = a - b
BY Zenon DEF Exact

LEMMA ComparesFaithful ==
    ASSUME \A e \in SymExprs : e.op = "Sub"
    PROVE  FaithfulConditions
<1> SUFFICES ASSUME NEW c \in Conds, NEW e \in SymExprs, NEW w \in Worlds,
                    HasCondition(c[2])
             PROVE  GetCondition(c[2], e, w)
                        = Holds(c[2], [f \in Flags |-> FlagOf(e, f, w)])
  BY DEF FaithfulConditions
<1> DEFINE a == Val(e.r, w)
           b == Val(e.l, w)
           v == [f \in Flags |-> FlagOf(e, f, w)]
<1>1. a \in Word /\ b \in Word
  BY EFlagsAssumption DEF Val, Worlds
<1>2. Result(e, w) = IF a >= b THEN a - b ELSE a - b + Mod
  BY <1>1, Difference, ExactSub DEF Result
<1> HIDE DEF a, b
<1>3. Result(e, w) \in Int /\ (Result(e, w) = 0 <=> a = b)
  BY <1>1, <1>2, EFlagsAssumption DEF Mod, Word
<1>4. v["zf"] <=> a = b
  BY <1>3 DEF FlagOf, Flags
<1>5. v["cf"] <=> a < b
  <2>1. v["cf"] <=> a - b \notin Word
    BY ExactSub DEF FlagOf, Flags, a, b
  <2>2. a - b \notin Word <=> a < b
    BY <1>1, EFlagsAssumption DEF Mod, Word
  <2> QED
    BY <2>1, <2>2
<1>6. v["sf"] = v["of"] <=> Signed(a) >= Signed(b)
  <2>1. FlagOf(e, "sf", w) <=> Result(e, w) >= Half
    BY DEF FlagOf
  <2>2. FlagOf(e, "of", w) <=> Signed(a) - Signed(b) \notin -Half .. Half - 1
    BY ExactSub DEF FlagOf, a, b
  <2>3. (Result(e, w) >= Half <=> Signed(a) - Signed(b) \notin -Half .. Half - 1)
            <=> Signed(a) >= Signed(b)
    BY <1>1, <1>2, EFlagsAssumption DEF Signed, Mod, Word
  <2>4. v["sf"] = v["of"] <=> (FlagOf(e, "sf", w) <=> FlagOf(e, "of", w))
    BY FlagBoolean DEF Flags
  <2> QED
    BY <2>1, <2>2, <2>3, <2>4
<1>7. /\ a \in Int /\ b \in Int /\ Signed(a) \in Int /\ Signed(b) \in Int
      /\ Signed(a) = Signed(b) <=> a = b
  BY <1>1, EFlagsAssumption DEF Signed, Mod, Word
<1>8. c[2] \in CCs
  BY EFlagsAssumption DEF HasCondition
<1> HIDE DEF v
<1>9. GetCondition(c[2], e, w) = Holds(c[2], v)
  <2>2. CASE c[2] \in {"nb", "nbe", "be", "b"}
    BY <1>7, <2>2, <1>4, <1>5 DEF GetCondition, Holds, a, b
  <2>3. CASE c[2] \in {"nl", "nle", "le", "l"}
    BY <2>3, <1>4, <1>6, <1>7 DEF GetCondition, Holds, a, b
  <2>4. CASE c[2] \in {"z", "nz"}
    BY <2>4, <1>3, <1>4 DEF GetCondition, Holds, a, b
  <2> QED
    BY <2>2, <2>3, <2>4, <1>8 DEF HasCondition, CCs
<1> QED
  BY <1>9 DEF v

-----------------------------------------------------------------------------
(* With one symbolic object, to replace it by its seed decides.            *)
LEMMA OneObjectDecides ==
    ASSUME OneObject, NEW cc, NEW e \in SymExprs, NEW met \in SUBSET Symbols,
           {e.r, e.l} \cap Symbols \subseteq met
    PROVE  Z3SolveConcritize(cc, e, met) = GetCondition(cc, e, Seed)
<1> DEFINE x == SymbolOrder[1]
<1>1. DOMAIN SymbolOrder = {1} /\ Symbols = {x}
  BY EFlagsAssumption DEF OneObject, Symbols
<1>2. x \in met
  BY <1>1 DEF OneObject
<1>3. ASSUME NEW w \in Worlds, w[x] = Seed[x]
      PROVE  w = Seed
  BY <1>1, <1>3, EFlagsAssumption DEF Worlds
<1>4. Z3SolveConcritize(cc, e, met)
        <=> \A w \in Worlds : w[x] = Seed[x] => GetCondition(cc, e, w)
  BY <1>1, <1>2 DEF Z3SolveConcritize
<1>5. (\A w \in Worlds : w[x] = Seed[x] => GetCondition(cc, e, w))
        <=> GetCondition(cc, e, Seed)
  BY <1>3, EFlagsAssumption
<1> QED
  BY <1>4, <1>5 DEF Z3SolveConcritize, GetCondition

LEMMA SeedStep ==
    ASSUME FaithfulConditions, PlainMoves, OneObject,
           IInv, known \subseteq Symbols, SeedOnPath, [Next]_vars
    PROVE  (known \subseteq Symbols /\ SeedOnPath)'
<1>1. ASSUME NEW e \in SymExprs, SaveFlagChangingInstructionExpr(e)
      PROVE  (known \subseteq Symbols /\ SeedOnPath)'
  BY <1>1 DEF SaveFlagChangingInstructionExpr, SeedOnPath
<1>2. ASSUME NEW e \in ConExprs, NEW keeps \in Preserves, InsnDispatch(e, keeps)
      PROVE  (known \subseteq Symbols /\ SeedOnPath)'
  BY <1>2 DEF InsnDispatch, SeedOnPath
<1>3. ASSUME NEW c \in Conds, Conditional(c[1], c[2], c[3])
      PROVE  (known \subseteq Symbols /\ SeedOnPath)'
  <2>1. CASE UNCHANGED <<known, agree>>
    BY <2>1 DEF SeedOnPath
  <2>2. CASE /\ ~Asserts(c[1], c[2]) /\ Definite(c[2])
             /\ Follow(c[2], Decided(c[1], c[2], c[3]))
             /\ UNCHANGED known
    <3>1. c[2] \in CCs
      BY <2>2, EFlagsAssumption DEF Asserts
    <3>2. agree' = agree
      BY <2>2, <3>1, DefiniteFollows, DecidedHolds DEF Follow, IInv, Shape
    <3> QED
      BY <3>2, <2>2 DEF SeedOnPath
  <2>3. CASE /\ ~Definite(c[2]) /\ HasCondition(c[2])
             /\ known' = known \cup ({m_LastExpr.r, m_LastExpr.l} \cap Symbols)
             /\ Follow(c[2], Z3SolveConcritize(c[2], m_LastExpr, known'))
    <3>1. m_LastExpr \in SymExprs
      BY <2>3, SymbolicFollows
    <3>2. Z3SolveConcritize(c[2], m_LastExpr, known') = Holds(c[2], NativeFlags(Seed))
      BY <2>3, <3>1, OneObjectDecides, SymbolicFollows, EFlagsAssumption
    <3> QED
      BY <2>3, <3>2 DEF Follow, SeedOnPath
  <2> QED
    BY <1>3, <2>1, <2>2, <2>3 DEF Conditional
<1>4. CASE UNCHANGED vars
  BY <1>4 DEF vars, SeedOnPath
<1> QED
  BY <1>1, <1>2, <1>3, <1>4 DEF Next

(***************************************************************************)
(* m_Constraint is exactly the condition of the path taken, and a flag     *)
(* that is not symbolic has its machine value on every input, at every     *)
(* word width, for instructions and conditions within the hypotheses.      *)
(***************************************************************************)
THEOREM PathAlwaysExact ==
    ASSUME FaithfulConditions, WholeFlags, PlainMoves
    PROVE  Spec => [](PathExact /\ DefiniteIsConcrete)
<1>1. IInv => PathExact /\ DefiniteIsConcrete
  BY DEF IInv
<1>2. IInv /\ [Next]_vars => IInv'
  BY InvStep
<1> QED
  BY <1>1, <1>2, InvInitial, PTL DEF Spec

(***************************************************************************)
(* The same for code whose symbolic flags come from cmp and sub only, with *)
(* no hypothesis on the conditions: GetCondition is right for those.       *)
(***************************************************************************)
THEOREM ComparesPathExact ==
    ASSUME \A e \in SymExprs : e.op = "Sub", WholeFlags, PlainMoves
    PROVE  Spec => [](PathExact /\ DefiniteIsConcrete)
BY ComparesFaithful, PathAlwaysExact

(***************************************************************************)
(* With one symbolic object, symbolic flags from cmp and sub only, no      *)
(* instruction that sets some of the flags and no symbolic operand on a    *)
(* cmov or set, the run follows the path that its seed takes on the        *)
(* machine: the evaluation of updateJCCDecision is right.                  *)
(***************************************************************************)
THEOREM SeedAlwaysOnPath ==
    ASSUME \A e \in SymExprs : e.op = "Sub", WholeFlags, PlainMoves, OneObject
    PROVE  Spec => []SeedOnPath
<1> DEFINE J == IInv /\ known \subseteq Symbols /\ SeedOnPath
<1>0. FaithfulConditions
  BY ComparesFaithful
<1>1. Init => J
  BY InvInitial, EFlagsAssumption DEF Init, SeedOnPath
<1>2. J /\ [Next]_vars => J'
  BY <1>0, InvStep, SeedStep
<1>3. J => SeedOnPath
  OBVIOUS
<1> QED
  BY <1>1, <1>2, <1>3, PTL DEF Spec

(***************************************************************************)
(* Types hold with no hypothesis on instructions or conditions, and with   *)
(* them that DoGetCondition always finds m_LastExpr: no conditional, abort *)
(* or concrete instruction leaves a symbolic flag without an expression.   *)
(***************************************************************************)
THEOREM TypeCorrect == Spec => []TypeOK
<1>1. Init => TypeOK
  <2> SUFFICES ASSUME Init PROVE TypeOK
    OBVIOUS
  <2>1. PICK e \in ConExprs :
          /\ eflags = [f \in Flags |-> FlagOf(e, f, Seed)]
          /\ native = [f \in Flags |-> e]
    BY DEF Init
  <2> QED
    BY <2>1, FlagBoolean DEF Init, TypeOK
<1>2. TypeOK /\ [Next]_vars => TypeOK'
  <2> SUFFICES ASSUME TypeOK, [Next]_vars PROVE TypeOK'
    OBVIOUS
  <2>1. CASE UNCHANGED vars
    BY <2>1 DEF vars, TypeOK
  <2>2. ASSUME NEW e \in SymExprs, SaveFlagChangingInstructionExpr(e) PROVE TypeOK'
    BY <2>2, EFlagsAssumption DEF SaveFlagChangingInstructionExpr, TypeOK
  <2>3. ASSUME NEW e \in ConExprs, NEW keeps \in Preserves, InsnDispatch(e, keeps)
        PROVE  TypeOK'
    BY <2>3, FlagBoolean DEF InsnDispatch, TypeOK
  <2>4. ASSUME NEW c \in Conds, Conditional(c[1], c[2], c[3]) PROVE TypeOK'
    <3>1. PICK taken \in BOOLEAN :
            \/ UNCHANGED eflags
            \/ eflags' = [f \in Flags |->
                            IF (c[1] = "jcc" \/ taken) /\ f \in DOMAIN ConcreteFlag(c[2], taken)
                            THEN ConcreteFlag(c[2], taken)[f] ELSE eflags[f]]
      <4>1. Z3SolveConcritize(c[2], m_LastExpr, known') \in BOOLEAN
        BY DEF Z3SolveConcritize
      <4> QED
        BY <2>4, <4>1 DEF Conditional
    <3>2. eflags' \in [Flags -> BOOLEAN]
      BY <3>1, ConcreteFlagBoolean DEF TypeOK
    <3>3. sols' \subseteq sols /\ agree' \subseteq agree
      BY <2>4 DEF Conditional, AddConstraint, Follow
    <3>4. known' \in SUBSET Symbols
      BY <2>4 DEF Conditional, TypeOK
    <3>5. UNCHANGED <<bsym_flag, m_LastExpr, native>> /\ status' \in {status, "abort"}
      BY <2>4 DEF Conditional
    <3> QED
      BY <3>2, <3>3, <3>4, <3>5 DEF TypeOK
  <2> QED
    BY <2>1, <2>2, <2>3, <2>4 DEF Next
<1> QED
  BY <1>1, <1>2, PTL DEF Spec
=============================================================================
