---------------------------- MODULE RegFileProofs ----------------------------
(***************************************************************************)
(* Proofs about module RegFile, for every register width.                  *)
(***************************************************************************)
EXTENDS RegFile, TLAPS

(* The layers of one register.                                             *)
Stores == [marked : SUBSET Off, content : [Off -> SymByte \cup {NoSym}], con : [Off -> ConByte]]

(* One register has the bytes b of the machine, but for those of x.        *)
Sound(s, b, x) ==
    /\ \A o \in s.marked : s.content[o] # NoSym
    /\ \A o \in Off \ x : b[o] = IF o \in s.marked THEN s.content[o] ELSE s.con[o]

(* Bitmap and list of one register cover the same bytes.                   *)
Aligned(s) == \A o \in Off : o \in s.marked <=> s.content[o] # NoSym

IInv == TypeOK /\ (ZeroedHeap => \A r \in Regs : Sound(file[r], want[r], astray[r]))

(* Every sub-register lies within its register, from its first byte; its   *)
(* concrete value does too.                                                *)
LEMMA SubRegBounds ==
    ASSUME NEW sr \in SubRegs
    PROVE  /\ At(sr) = 0 /\ Size(sr) \in Nat \ {0} /\ Size(sr) <= Width
           /\ ConAt(sr) \in Nat /\ ConAt(sr) + Size(sr) <= Width
           /\ sr \in {"full", "d", "w", "l"}
           /\ Touched(sr) = 0 .. Size(sr) - 1 /\ Touched(sr) \subseteq Off
           /\ ConAt(sr) = 0 => Misplaced(sr) = {}
           /\ ConAt(sr) # 0 => Touched(sr) \cup Span(ConAt(sr), Size(sr)) = Misplaced(sr)
           /\ Misplaced(sr) \subseteq Off /\ UpperHalf(sr) \subseteq Off
           /\ sr # "d" => UpperHalf(sr) = {}
           /\ sr = "d" => UpperHalf(sr) = Off \ Touched(sr)
<1>1. sr \in {"full", "d", "w", "l"}
  BY RegAssumption
<1>2. /\ At(sr) = 0 /\ Size(sr) \in Nat \ {0} /\ Size(sr) <= Width
      /\ ConAt(sr) \in Nat /\ ConAt(sr) + Size(sr) <= Width
  <2>1. Width \div 2 \in Nat \ {0} /\ Width \div 2 <= Width
    BY RegAssumption
  <2>2. CASE sr = "full"
    BY <2>2, RegAssumption DEF At, ConAt, Size, regIdxToAddrSize, conOffset
  <2>3. CASE sr = "d"
    BY <2>1, <2>3, RegAssumption DEF At, ConAt, Size, regIdxToAddrSize, conOffset
  <2>4. CASE sr = "w"
    BY <2>4, RegAssumption DEF At, ConAt, Size, regIdxToAddrSize, conOffset
  <2>5. CASE sr = "l"
    BY <2>5, RegAssumption DEF At, ConAt, Size, regIdxToAddrSize, conOffset
  <2>. QED  BY <1>1, <2>2, <2>3, <2>4, <2>5
<1>3. Touched(sr) = 0 .. Size(sr) - 1 /\ Touched(sr) \subseteq Off
  BY <1>2, RegAssumption DEF Touched, Span, Off
<1>4. Span(ConAt(sr), Size(sr)) \subseteq Off
  BY <1>2, RegAssumption DEF Span, Off
<1>. QED  BY <1>1, <1>2, <1>3, <1>4 DEF Misplaced, UpperHalf

(* The bytes of a sub-register, and where its concrete value has them.     *)
LEMMA SubRegBytes ==
    ASSUME NEW sr \in SubRegs, NEW o \in Off
    PROVE  /\ o \in Touched(sr) <=> o - At(sr) \in 0 .. Size(sr) - 1
           /\ o \in Span(ConAt(sr), Size(sr)) <=> o - ConAt(sr) \in 0 .. Size(sr) - 1
           /\ o - At(sr) = o
           /\ ConAt(sr) # 0 /\ o \notin Misplaced(sr) =>
                o \notin Touched(sr) /\ o - ConAt(sr) \notin 0 .. Size(sr) - 1
BY SubRegBounds DEF Span, Off

(* What a write of the executor leaves astray.                             *)
After(x, sr, t) == (x \ Touched(sr)) \cup UpperHalf(sr) \cup (Misplaced(sr) \ t.marked)

(* A concrete write keeps the types and the agreement of a register.       *)
LEMMA WriteConSound ==
    ASSUME NEW s \in Stores, NEW b, NEW x, NEW sr \in SubRegs, NEW val \in ConValues(Size(sr)),
           NEW t, t = WriteCon(s, At(sr), ConAt(sr), Size(sr), val),
           NEW b2, b2 = [o \in Off |->
                IF o \notin Touched(sr) THEN (IF sr = "d" THEN Zero ELSE b[o])
                ELSE val[o - At(sr)]]
    PROVE  /\ t \in Stores
           /\ Sound(s, b, x) => Sound(t, b2, After(x, sr, t))
           /\ Aligned(s) => Aligned(t)
<1>. DEFINE a == At(sr)
            c == ConAt(sr)
            n == Size(sr)
<1>a. DOMAIN val = 0 .. n - 1 /\ DOMAIN s.con = Off /\ \A i \in 0 .. n - 1 : val[i] \in ConByte
  BY DEF ConValues, Stores
<1>2. /\ t.marked = s.marked \ Touched(sr)
      /\ t.content = [o \in Off |-> IF o \in Touched(sr) THEN NoSym ELSE s.content[o]]
      /\ t.con = [o \in Off |-> IF o - c \in 0 .. n - 1 THEN val[o - c] ELSE s.con[o]]
      /\ t = [marked |-> t.marked, content |-> t.content, con |-> t.con]
  BY <1>a DEF WriteCon, Overlay, Touched
<1>3. t \in Stores
  <2>1. t.marked \in SUBSET Off
    BY <1>2 DEF Stores
  <2>2. t.content \in [Off -> SymByte \cup {NoSym}]
    BY <1>2 DEF Stores
  <2>3. t.con \in [Off -> ConByte]
    BY <1>2, <1>a DEF Stores
  <2>. QED  BY <1>2, <2>1, <2>2, <2>3 DEF Stores
<1>4. ASSUME Sound(s, b, x) PROVE Sound(t, b2, After(x, sr, t))
  <2>1. \A o \in t.marked : t.content[o] # NoSym
    BY <1>2, <1>4 DEF Sound, Stores
  <2>2. ASSUME NEW o \in Off \ After(x, sr, t)
        PROVE  b2[o] = IF o \in t.marked THEN t.content[o] ELSE t.con[o]
    <3>1. /\ o \in Touched(sr) \/ o \notin x
          /\ o \notin UpperHalf(sr) /\ (o \in Misplaced(sr) => o \in t.marked)
      BY DEF After
    <3>2. CASE o \in Touched(sr)
      <4>1. o \notin t.marked /\ c = 0
        BY <1>2, <3>1, <3>2, SubRegBounds
      <4>. QED  BY <1>2, <3>2, <4>1, SubRegBytes, SubRegBounds
    <3>3. CASE o \notin Touched(sr)
      <4>1. b2[o] = b[o] /\ o \notin x
        BY <3>1, <3>3, SubRegBounds
      <4>2. b[o] = IF o \in s.marked THEN s.content[o] ELSE s.con[o]
        BY <1>4, <4>1 DEF Sound
      <4>3. o \in t.marked <=> o \in s.marked
        BY <1>2, <3>3
      <4>4. o \notin t.marked => t.con[o] = s.con[o]
        BY <1>2, <3>1, <3>3, SubRegBytes, SubRegBounds
      <4>. QED  BY <1>2, <3>3, <4>1, <4>2, <4>3, <4>4
    <3>. QED  BY <3>2, <3>3
  <2>. QED  BY <2>1, <2>2 DEF Sound
<1>5. Aligned(s) => Aligned(t)
  BY <1>2 DEF Aligned
<1>. QED  BY <1>3, <1>4, <1>5

(* So does a symbolic expression.                                          *)
LEMMA WriteExprSound ==
    ASSUME NEW s \in Stores, NEW b, NEW x, NEW sr \in SubRegs, NEW expr \in Exprs(Size(sr)),
           NEW t, t = WriteExpr(s, At(sr), ConAt(sr), Size(sr), expr),
           NEW b2, b2 = [o \in Off |->
                IF o \notin Touched(sr) THEN (IF sr = "d" THEN Zero ELSE b[o])
                ELSE expr[o - At(sr)]]
    PROVE  /\ t \in Stores
           /\ Sound(s, b, x) => Sound(t, b2, After(x, sr, t))
           /\ Aligned(s) => Aligned(t)
<1>. DEFINE c == ConAt(sr)
            n == Size(sr)
<1>a. DOMAIN s.con = Off /\ \A i \in 0 .. n - 1 : expr[i] \in SymByte
  BY DEF Exprs, Stores
<1>b. n \in Int /\ c \in Int
  BY SubRegBounds
<1>2. /\ t.marked = s.marked \cup Touched(sr)
      /\ t.content = [o \in Off |-> IF o \in Touched(sr) THEN expr[o] ELSE s.content[o]]
      /\ t.con = [o \in Off |-> IF o - c \in 0 .. n - 1 THEN Zero ELSE s.con[o]]
      /\ t = [marked |-> t.marked, content |-> t.content, con |-> t.con]
  <2>1. \A o \in Off : o - At(sr) = o
    BY SubRegBytes
  <2>. HIDE DEF c, n
  <2>. QED  BY <1>a, <1>b, <2>1 DEF WriteExpr, Overlay, Zeroes, Touched, c, n
<1>3. t \in Stores
  <2>1. t.marked \in SUBSET Off
    BY <1>2, SubRegBounds DEF Stores
  <2>2. t.content \in [Off -> SymByte \cup {NoSym}]
    BY <1>2, <1>a, SubRegBounds DEF Stores
  <2>3. t.con \in [Off -> ConByte]
    BY <1>2, RegAssumption DEF Stores
  <2>. QED  BY <1>2, <2>1, <2>2, <2>3 DEF Stores
<1>c. \A o \in Touched(sr) : expr[o] # NoSym
  BY <1>a, SubRegBounds, RegAssumption
<1>4. ASSUME Sound(s, b, x) PROVE Sound(t, b2, After(x, sr, t))
  <2>1. \A o \in t.marked : t.content[o] # NoSym
    BY <1>2, <1>4, <1>c, SubRegBounds DEF Sound, Stores
  <2>2. ASSUME NEW o \in Off \ After(x, sr, t)
        PROVE  b2[o] = IF o \in t.marked THEN t.content[o] ELSE t.con[o]
    <3>1. /\ o \in Touched(sr) \/ o \notin x
          /\ o \notin UpperHalf(sr) /\ (o \in Misplaced(sr) => o \in t.marked)
      BY DEF After
    <3>2. CASE o \in Touched(sr)
      BY <1>2, <3>2, SubRegBytes
    <3>3. CASE o \notin Touched(sr)
      <4>1. b2[o] = b[o] /\ o \notin x
        BY <3>1, <3>3, SubRegBounds
      <4>2. b[o] = IF o \in s.marked THEN s.content[o] ELSE s.con[o]
        BY <1>4, <4>1 DEF Sound
      <4>3. o \in t.marked <=> o \in s.marked
        BY <1>2, <3>3
      <4>4. o \notin t.marked => t.con[o] = s.con[o]
        BY <1>2, <3>1, <3>3, SubRegBytes, SubRegBounds
      <4>. QED  BY <1>2, <3>3, <4>1, <4>2, <4>3, <4>4
    <3>. QED  BY <3>2, <3>3
  <2>. QED  BY <2>1, <2>2 DEF Sound
<1>5. Aligned(s) => Aligned(t)
  BY <1>2, <1>c DEF Aligned
<1>. QED  BY <1>3, <1>4, <1>5

(* And a list of cells.                                                    *)
LEMMA WriteListSound ==
    ASSUME NEW s \in Stores, NEW b, NEW x, NEW sr \in SubRegs, NEW sym \in Lists(Size(sr)),
           NEW val \in ConValues(Size(sr)),
           NEW t, t = WriteList(s, At(sr), ConAt(sr), Size(sr), 0, sym, val),
           NEW b2, b2 = [o \in Off |->
                IF o \notin Touched(sr) THEN (IF sr = "d" THEN Zero ELSE b[o])
                ELSE IF o - At(sr) \in DOMAIN sym THEN sym[o - At(sr)]
                ELSE val[o - At(sr)]]
    PROVE  /\ t \in Stores
           /\ Sound(s, b, x) => Sound(t, b2, After(x, sr, t))
           /\ Spanning /\ Aligned(s) => Aligned(t)
<1>. DEFINE n == Size(sr)
            c == ConAt(sr)
<1>0. At(sr) = 0 /\ n \in Nat \ {0} /\ n <= Width /\ Touched(sr) = 0 .. n - 1
  BY SubRegBounds
<1>a. /\ DOMAIN val = 0 .. n - 1 /\ DOMAIN s.con = Off
      /\ \A i \in 0 .. n - 1 : val[i] \in ConByte
  BY DEF Stores, ConValues
<1>b. /\ DOMAIN sym \subseteq 0 .. n - 1
      /\ \A i \in DOMAIN sym : sym[i] \in SymByte
      /\ Spanning => {0, n - 1} \subseteq DOMAIN sym
  BY DEF Lists
<1>c. Span(0, n) = 0 .. n - 1
  BY <1>0 DEF Touched
<1>. HIDE DEF n, c
<1>1. 0 .. n - 1 \subseteq Off
  BY <1>0, RegAssumption DEF Off
<1>2. \A o \in Off : o - 0 = o /\ o \in Int
  BY DEF Off
<1>3. /\ t.marked = (s.marked \ (0 .. n - 1)) \cup DOMAIN sym
      /\ t.content = [o \in Off |-> IF o \in DOMAIN sym THEN sym[o]
                            ELSE IF \E j, k \in DOMAIN sym : j <= o /\ o <= k
                            THEN NoSym ELSE s.content[o]]
      /\ t.con = [o \in Off |-> IF o - c \in 0 .. n - 1 THEN val[o - c] ELSE s.con[o]]
      /\ t = [marked |-> t.marked, content |-> t.content, con |-> t.con]
  <2>1. \A j \in DOMAIN sym : 0 + j = j
    BY <1>b
  <2>. QED  BY <1>0, <1>a, <1>b, <1>1, <1>2, <1>c, <2>1 DEF WriteList, Overlay, n, c
<1>4. t \in Stores
  <2>1. t.marked \in SUBSET Off
    BY <1>1, <1>3, <1>b DEF Stores
  <2>2. t.content \in [Off -> SymByte \cup {NoSym}]
    BY <1>3, <1>b DEF Stores
  <2>3. t.con \in [Off -> ConByte]
    BY <1>3, <1>a DEF Stores
  <2>. QED  BY <1>3, <2>1, <2>2, <2>3 DEF Stores
<1>d. \A o \in Off \ (0 .. n - 1) : ~\E j, k \in DOMAIN sym : j <= o /\ o <= k
  BY <1>0, <1>b DEF Off
<1>e. \A o \in DOMAIN sym : sym[o] # NoSym
  BY <1>b, RegAssumption
<1>5. ASSUME Sound(s, b, x) PROVE Sound(t, b2, After(x, sr, t))
  <2>1. \A o \in t.marked : t.content[o] # NoSym
    BY <1>1, <1>3, <1>5, <1>b, <1>d, <1>e DEF Sound, Stores
  <2>2. ASSUME NEW o \in Off \ After(x, sr, t)
        PROVE  b2[o] = IF o \in t.marked THEN t.content[o] ELSE t.con[o]
    <3>1. /\ o \in Touched(sr) \/ o \notin x
          /\ o \notin UpperHalf(sr) /\ (o \in Misplaced(sr) => o \in t.marked)
      BY DEF After
    <3>2. CASE o \in DOMAIN sym
      BY <1>0, <1>1, <1>2, <1>3, <1>b, <3>2
    <3>3. CASE o \in Touched(sr) /\ o \notin DOMAIN sym
      <4>1. o \notin t.marked
        BY <1>0, <1>3, <3>3
      <4>2. c = 0
        BY <3>1, <3>3, <4>1, SubRegBounds DEF c
      <4>3. b2[o] = val[o] /\ t.con[o] = val[o]
        BY <1>0, <1>2, <1>3, <3>3, <4>2
      <4>. QED  BY <4>1, <4>3
    <3>4. CASE o \notin Touched(sr)
      <4>1. b2[o] = b[o] /\ o \notin x
        BY <3>1, <3>4, SubRegBounds
      <4>2. b[o] = IF o \in s.marked THEN s.content[o] ELSE s.con[o]
        BY <1>5, <4>1 DEF Sound
      <4>3. (o \in t.marked <=> o \in s.marked) /\ t.content[o] = s.content[o]
        BY <1>0, <1>3, <1>b, <1>d, <3>4
      <4>4. o \notin t.marked => t.con[o] = s.con[o]
        <5>1. o \notin t.marked => o - c \notin 0 .. n - 1
          BY <3>1, <3>4, SubRegBytes, SubRegBounds DEF c, n
        <5>. QED  BY <1>3, <5>1
      <4>. QED  BY <4>1, <4>2, <4>3, <4>4
    <3>. QED  BY <3>2, <3>3, <3>4
  <2>. QED  BY <2>1, <2>2 DEF Sound
<1>6. Spanning /\ Aligned(s) => Aligned(t)
  <2>. SUFFICES ASSUME Spanning, Aligned(s) PROVE Aligned(t)
    OBVIOUS
  <2>1. \A o \in 0 .. n - 1 : \E j, k \in DOMAIN sym : j <= o /\ o <= k
    BY <1>0, <1>b
  <2>. QED  BY <1>3, <1>b, <1>d, <1>e, <2>1 DEF Aligned
<1>. QED  BY <1>4, <1>5, <1>6

(* What a host instruction makes of a register and of its astray bytes.    *)
HostWrite(s, sr, val) ==
    [s EXCEPT !.con = Overlay(IF sr = "d" THEN Zeroes(Width) ELSE s.con, At(sr), val)]

HostAfter(x, sr, s) ==
    (x \ (Touched(sr) \cup UpperHalf(sr))) \cup (UpperHalf(sr) \cap s.marked)

(* It writes registers that have no symbolic byte.                         *)
LEMMA HostSound ==
    ASSUME NEW s \in Stores, NEW b, NEW x, NEW sr \in SubRegs, NEW val \in ConValues(Size(sr)),
           ~IsSym(s, At(sr), Size(sr)),
           NEW b2, b2 = [o \in Off |->
                IF o \notin Touched(sr) THEN (IF sr = "d" THEN Zero ELSE b[o])
                ELSE val[o - At(sr)]],
           NEW t, t = HostWrite(s, sr, val), NEW y, y = HostAfter(x, sr, s)
    PROVE  t \in Stores /\ (Sound(s, b, x) => Sound(t, b2, y)) /\ (Aligned(s) => Aligned(t))
<1>. DEFINE n == Size(sr)
            old == IF sr = "d" THEN Zeroes(Width) ELSE s.con
<1>a. DOMAIN val = 0 .. n - 1 /\ \A i \in 0 .. n - 1 : val[i] \in ConByte
  BY DEF ConValues
<1>b. Touched(sr) \cap s.marked = {}
  BY DEF IsSym, Touched
<1>c. old \in [Off -> ConByte] /\ DOMAIN old = Off
  BY RegAssumption DEF Zeroes, Off, Stores
<1>2. /\ t.marked = s.marked /\ t.content = s.content
      /\ t.con = [o \in Off |-> IF o \in Touched(sr) THEN val[o] ELSE old[o]]
  <2>1. t.con = Overlay(old, At(sr), val) /\ t.marked = s.marked /\ t.content = s.content
    BY DEF Stores, HostWrite
  <2>2. \A o \in Off : o - At(sr) = o /\ (o \in Touched(sr) <=> o \in 0 .. n - 1)
    BY SubRegBytes
  <2>. HIDE DEF old, n
  <2>. QED  BY <1>a, <1>c, <2>1, <2>2 DEF Overlay
<1>3. t \in Stores
  <2>1. t.con \in [Off -> ConByte]
    BY <1>2, <1>a, <1>c, SubRegBounds DEF Stores
  <2>2. t = [s EXCEPT !.con = t.con]
    BY DEF HostWrite, Stores
  <2>. QED  BY <1>2, <2>1, <2>2 DEF Stores
<1>4. ASSUME Sound(s, b, x) PROVE Sound(t, b2, y)
  <2>1. ASSUME NEW o \in Off \ y
        PROVE  b2[o] = IF o \in t.marked THEN t.content[o] ELSE t.con[o]
    <3>1. CASE o \in Touched(sr)
      BY <1>2, <1>b, <3>1, SubRegBytes
    <3>2. CASE o \in UpperHalf(sr)
      <4>1. sr = "d" /\ o \notin Touched(sr) /\ o \notin s.marked
        BY <2>1, <3>2, SubRegBounds DEF HostAfter
      <4>2. old[o] = Zero
        BY <4>1 DEF Zeroes, Off
      <4>. QED  BY <1>2, <4>1, <4>2
    <3>3. CASE o \notin Touched(sr) /\ o \notin UpperHalf(sr)
      <4>1. o \notin x /\ sr # "d"
        BY <2>1, <3>3, SubRegBounds DEF HostAfter
      <4>2. b2[o] = b[o] /\ old[o] = s.con[o]
        BY <3>3, <4>1
      <4>. QED  BY <1>2, <1>4, <3>3, <4>1, <4>2 DEF Sound
    <3>. QED  BY <3>1, <3>2, <3>3
  <2>. QED  BY <1>2, <1>4, <2>1 DEF Sound
<1>5. Aligned(s) => Aligned(t)
  BY <1>2 DEF Aligned
<1>. QED  BY <1>3, <1>4, <1>5

(* A reload of m_PTRegs changes the bytes that are not symbolic.           *)
LEMMA LoadSound ==
    ASSUME NEW s \in Stores, NEW b, NEW x, NEW con \in [Off -> ConByte],
           NEW t, t = [s EXCEPT !.con = con],
           NEW b2, b2 = [o \in Off |-> IF o \in s.marked THEN b[o] ELSE con[o]]
    PROVE  /\ t \in Stores
           /\ Sound(s, b, x) => Sound(t, b2, x \cap s.marked)
           /\ Aligned(s) => Aligned(t)
<1>1. t.marked = s.marked /\ t.content = s.content /\ t.con = con
  BY DEF Stores
<1>. QED  BY <1>1 DEF Sound, Stores, Aligned

-----------------------------------------------------------------------------
(* What a step keeps, register by register.                                *)
Kept(r) ==
    /\ file'[r] \in Stores
    /\ want'[r] \in [Off -> SymByte \cup ConByte]
    /\ astray'[r] \in SUBSET Off
    /\ Sound(file[r], want[r], astray[r]) => Sound(file[r], want[r], astray[r])'
    /\ Spanning /\ Aligned(file[r]) => Aligned(file[r])'

Shape ==
    /\ DOMAIN file' = Regs /\ DOMAIN want' = Regs /\ DOMAIN astray' = Regs
    /\ file' = [q \in Regs |-> file'[q]] /\ want' = [q \in Regs |-> want'[q]]
    /\ astray' = [q \in Regs |-> astray'[q]]

(* What the types say of each register.                                    *)
LEMMA Before ==
    ASSUME TypeOK
    PROVE  /\ DOMAIN file = Regs /\ DOMAIN want = Regs /\ DOMAIN astray = Regs
           /\ \A r \in Regs : /\ file[r] \in Stores /\ astray[r] \in SUBSET Off
                              /\ want[r] \in [Off -> SymByte \cup ConByte]
BY DEF TypeOK, Stores

(* A step through one register leaves the others alone.                    *)
LEMMA OthersKept ==
    ASSUME TypeOK, NEW r \in Regs, NEW s, NEW b, NEW x,
           file' = [file EXCEPT ![r] = s], want' = [want EXCEPT ![r] = b],
           astray' = [astray EXCEPT ![r] = x],
           s \in Stores, b \in [Off -> SymByte \cup ConByte], x \in SUBSET Off,
           Sound(file[r], want[r], astray[r]) => Sound(s, b, x),
           Spanning /\ Aligned(file[r]) => Aligned(s)
    PROVE  (\A q \in Regs : Kept(q)) /\ Shape
<1>1. /\ DOMAIN file = Regs /\ DOMAIN want = Regs /\ DOMAIN astray = Regs
  BY Before
<1>2. file'[r] = s /\ want'[r] = b /\ astray'[r] = x
  BY <1>1
<1>3. \A q \in Regs : q # r => file'[q] = file[q] /\ want'[q] = want[q] /\ astray'[q] = astray[q]
  BY <1>1
<1>4. \A q \in Regs : /\ file[q] \in Stores /\ astray[q] \in SUBSET Off
                      /\ want[q] \in [Off -> SymByte \cup ConByte]
  BY Before
<1>5. Kept(r)
  BY <1>2 DEF Kept, Sound, Aligned
<1>6. \A q \in Regs : q # r => Kept(q)
  BY <1>3, <1>4 DEF Kept, Sound, Aligned
<1>7. Shape
  BY <1>1 DEF Shape
<1>. QED  BY <1>5, <1>6, <1>7

(* The machine's bytes after a write.                                      *)
LEMMA WantType ==
    ASSUME TypeOK, NEW r \in Regs, NEW sr \in SubRegs, NEW v,
           \A i \in 0 .. Size(sr) - 1 : v[i] \in SymByte \cup ConByte
    PROVE  [o \in Off |-> IF o \notin Touched(sr) THEN (IF sr = "d" THEN Zero ELSE want[r][o])
                          ELSE v[o - At(sr)]] \in [Off -> SymByte \cup ConByte]
<1>1. \A o \in Off : want[r][o] \in SymByte \cup ConByte
  BY Before
<1>2. \A o \in Touched(sr) : o - At(sr) \in 0 .. Size(sr) - 1
  BY SubRegBounds, SubRegBytes
<1>. QED  BY <1>1, <1>2, RegAssumption

LEMMA StepKeeps ==
    ASSUME TypeOK, Next
    PROVE  (\A q \in Regs : Kept(q)) /\ Shape
<1>0. /\ DOMAIN file = Regs /\ DOMAIN want = Regs /\ DOMAIN astray = Regs
      /\ \A r \in Regs : /\ file[r] \in Stores /\ astray[r] \in SUBSET Off
                         /\ want[r] \in [Off -> SymByte \cup ConByte]
  BY Before
<1>1. ASSUME NEW con \in [Regs -> [Off -> ConByte]], setConcreteCPUState(con)
      PROVE  (\A q \in Regs : Kept(q)) /\ Shape
  <2>1. ASSUME NEW q \in Regs PROVE Kept(q)
    <3>. DEFINE s == file[q]
                t == file'[q]
                b == want[q]
                b2 == want'[q]
    <3>1. /\ t = [s EXCEPT !.con = con[q]]
          /\ b2 = [o \in Off |-> IF o \in s.marked THEN b[o] ELSE con[q][o]]
          /\ astray'[q] = astray[q] \cap s.marked
          /\ con[q] \in [Off -> ConByte] /\ s \in Stores
      BY <1>0, <1>1, <2>1 DEF setConcreteCPUState
    <3>2. b2 \in [Off -> SymByte \cup ConByte] /\ astray'[q] \in SUBSET Off
      <4>1. \A o \in Off : b[o] \in SymByte \cup ConByte /\ con[q][o] \in ConByte
        BY <1>0, <3>1
      <4>. HIDE DEF b, b2
      <4>. QED  BY <1>0, <3>1, <4>1
    <3>. DEFINE k == con[q]
                x == astray[q]
    <3>a. /\ t = [s EXCEPT !.con = k] /\ k \in [Off -> ConByte] /\ s \in Stores
          /\ b2 = [o \in Off |-> IF o \in s.marked THEN b[o] ELSE k[o]]
      BY <3>1
    <3>. HIDE DEF s, t, b, b2, k, x
    <3>b. /\ t \in Stores /\ (Aligned(s) => Aligned(t))
          /\ Sound(s, b, x) => Sound(t, b2, x \cap s.marked)
      BY <3>a, LoadSound
    <3>3. /\ t \in Stores /\ (Aligned(s) => Aligned(t))
          /\ Sound(s, b, astray[q]) => Sound(t, b2, astray'[q])
      BY <3>1, <3>b DEF x
    <3>. QED  BY <3>2, <3>3 DEF Kept, Sound, Aligned, s, t, b, b2
  <2>2. Shape
    BY <1>1 DEF setConcreteCPUState, Shape
  <2>. QED  BY <2>1, <2>2
<1>3. ASSUME NEW r \in Regs, NEW sr \in SubRegs, NEW val \in ConValues(Size(sr)),
             writeRegisterCon(r, sr, val)
      PROVE  (\A q \in Regs : Kept(q)) /\ Shape
  <2>. DEFINE s == WriteCon(file[r], At(sr), ConAt(sr), Size(sr), val)
              b == [o \in Off |->
                      IF o \notin Touched(sr) THEN (IF sr = "d" THEN Zero ELSE want[r][o])
                      ELSE val[o - At(sr)]]
              x == After(astray[r], sr, s)
  <2>1. file' = [file EXCEPT ![r] = s] /\ want' = [want EXCEPT ![r] = b]
    BY <1>0, <1>3 DEF writeRegisterCon, Wrote, Touched
  <2>2. astray' = [astray EXCEPT ![r] = x]
    <3>1. file'[r] = s
      BY <1>0, <2>1
    <3>. HIDE DEF s
    <3>. QED  BY <1>0, <1>3, <3>1 DEF writeRegisterCon, Strays, After
  <2>3. /\ s \in Stores /\ (Aligned(file[r]) => Aligned(s))
        /\ Sound(file[r], want[r], astray[r]) => Sound(s, b, x)
    BY <1>0, <1>3, WriteConSound
  <2>4. b \in [Off -> SymByte \cup ConByte]
    <3>1. \A i \in 0 .. Size(sr) - 1 : val[i] \in SymByte \cup ConByte
      BY DEF ConValues
    <3>. QED  BY <3>1, WantType
  <2>5. x \in SUBSET Off
    BY <1>0, SubRegBounds DEF After
  <2>. HIDE DEF s, b, x
  <2>. QED  BY <2>1, <2>2, <2>3, <2>4, <2>5, OthersKept
<1>4. ASSUME NEW r \in Regs, NEW sr \in SubRegs, NEW expr \in Exprs(Size(sr)),
             writeRegisterExpr(r, sr, expr)
      PROVE  (\A q \in Regs : Kept(q)) /\ Shape
  <2>. DEFINE s == WriteExpr(file[r], At(sr), ConAt(sr), Size(sr), expr)
              b == [o \in Off |->
                      IF o \notin Touched(sr) THEN (IF sr = "d" THEN Zero ELSE want[r][o])
                      ELSE expr[o - At(sr)]]
              x == After(astray[r], sr, s)
  <2>0. /\ \A o \in Touched(sr) : o - At(sr) \in DOMAIN expr
        /\ \A i \in 0 .. Size(sr) - 1 : expr[i] \in SymByte \cup ConByte
    BY SubRegBounds, SubRegBytes DEF Exprs
  <2>1. file' = [file EXCEPT ![r] = s] /\ want' = [want EXCEPT ![r] = b]
    BY <1>0, <1>4, <2>0 DEF writeRegisterExpr, Wrote, Touched
  <2>2. astray' = [astray EXCEPT ![r] = x]
    <3>1. file'[r] = s
      BY <1>0, <2>1
    <3>. HIDE DEF s
    <3>. QED  BY <1>0, <1>4, <3>1 DEF writeRegisterExpr, Strays, After
  <2>3. /\ s \in Stores /\ (Aligned(file[r]) => Aligned(s))
        /\ Sound(file[r], want[r], astray[r]) => Sound(s, b, x)
    BY <1>0, <1>4, WriteExprSound
  <2>4. b \in [Off -> SymByte \cup ConByte]
    BY <2>0, WantType
  <2>5. x \in SUBSET Off
    BY <1>0, SubRegBounds DEF After
  <2>. HIDE DEF s, b, x
  <2>. QED  BY <2>1, <2>2, <2>3, <2>4, <2>5, OthersKept
<1>5. ASSUME NEW r \in Regs, NEW sr \in ListRegs, NEW sym \in Lists(Size(sr)),
             NEW val \in ConValues(Size(sr)), writeRegisterList(r, sr, sym, val)
      PROVE  (\A q \in Regs : Kept(q)) /\ Shape
  <2>0. sr \in SubRegs
    BY RegAssumption
  <2>. DEFINE s == WriteList(file[r], At(sr), ConAt(sr), Size(sr), 0, sym, val)
              v == [i \in 0 .. Size(sr) - 1 |-> IF i \in DOMAIN sym THEN sym[i] ELSE val[i]]
              b == [o \in Off |->
                      IF o \notin Touched(sr) THEN (IF sr = "d" THEN Zero ELSE want[r][o])
                      ELSE IF o - At(sr) \in DOMAIN sym THEN sym[o - At(sr)]
                      ELSE val[o - At(sr)]]
              x == After(astray[r], sr, s)
  <2>1. file' = [file EXCEPT ![r] = s] /\ want' = [want EXCEPT ![r] = b]
    BY <1>0, <1>5 DEF writeRegisterList, Wrote, Touched
  <2>2. astray' = [astray EXCEPT ![r] = x]
    <3>1. file'[r] = s
      BY <1>0, <2>1
    <3>. HIDE DEF s
    <3>. QED  BY <1>0, <1>5, <3>1 DEF writeRegisterList, Strays, After
  <2>3. /\ s \in Stores /\ (Spanning /\ Aligned(file[r]) => Aligned(s))
        /\ Sound(file[r], want[r], astray[r]) => Sound(s, b, x)
    <3>. DEFINE f == file[r]
                u == want[r]
                z == astray[r]
    <3>1. f \in Stores
      BY <1>0
    <3>2. /\ s = WriteList(f, At(sr), ConAt(sr), Size(sr), 0, sym, val)
          /\ b = [o \in Off |-> IF o \notin Touched(sr) THEN (IF sr = "d" THEN Zero ELSE u[o])
                      ELSE IF o - At(sr) \in DOMAIN sym THEN sym[o - At(sr)]
                      ELSE val[o - At(sr)]]
          /\ x = After(z, sr, s)
      OBVIOUS
    <3>. HIDE DEF s, b, x, f, u, z
    <3>3. /\ s \in Stores /\ (Spanning /\ Aligned(f) => Aligned(s))
          /\ Sound(f, u, z) => Sound(s, b, After(z, sr, s))
      BY <2>0, <3>1, <3>2, WriteListSound
    <3>. QED  BY <3>2, <3>3 DEF f, u, z
  <2>4. b \in [Off -> SymByte \cup ConByte]
    <3>1. \A i \in 0 .. Size(sr) - 1 : val[i] \in SymByte \cup ConByte
      BY DEF ConValues
    <3>2. \A i \in DOMAIN sym : sym[i] \in SymByte \cup ConByte
      BY DEF Lists
    <3>3. \A o \in Touched(sr) : o - At(sr) \in 0 .. Size(sr) - 1
      BY <2>0, SubRegBounds, SubRegBytes
    <3>4. \A o \in Off : want[r][o] \in SymByte \cup ConByte
      BY <1>0
    <3>. QED  BY <3>1, <3>2, <3>3, <3>4, RegAssumption
  <2>5. x \in SUBSET Off
    BY <1>0, <2>0, SubRegBounds DEF After
  <2>. HIDE DEF s, b, x
  <2>. QED  BY <2>1, <2>2, <2>3, <2>4, <2>5, OthersKept
<1>6. ASSUME NEW r \in Regs, NEW sr \in SubRegs, NEW val \in ConValues(Size(sr)),
             InsnDispatch(r, sr, val)
      PROVE  (\A q \in Regs : Kept(q)) /\ Shape
  <2>. DEFINE s == [file[r] EXCEPT !.con = Overlay(IF sr = "d" THEN Zeroes(Width)
                                                   ELSE file[r].con, At(sr), val)]
              b == [o \in Off |->
                      IF o \notin Touched(sr) THEN (IF sr = "d" THEN Zero ELSE want[r][o])
                      ELSE val[o - At(sr)]]
              x == (astray[r] \ (Touched(sr) \cup UpperHalf(sr)))
                        \cup (UpperHalf(sr) \cap file[r].marked)
  <2>1. file' = [file EXCEPT ![r] = s] /\ want' = [want EXCEPT ![r] = b]
    <3>1. file' = [file EXCEPT ![r] = s]
      BY <1>6 DEF InsnDispatch
    <3>2. want' = [want EXCEPT ![r] = b]
      BY <1>6 DEF InsnDispatch, Wrote, Touched
    <3>. QED  BY <3>1, <3>2
  <2>2. astray' = [astray EXCEPT ![r] = x]
    BY <1>6 DEF InsnDispatch
  <2>3. /\ s \in Stores /\ (Aligned(file[r]) => Aligned(s))
        /\ Sound(file[r], want[r], astray[r]) => Sound(s, b, x)
    <3>. DEFINE f == file[r]
                u == want[r]
                z == astray[r]
    <3>1. ~IsSym(f, At(sr), Size(sr)) /\ f \in Stores
      BY <1>0, <1>6 DEF InsnDispatch
    <3>2. /\ s = HostWrite(f, sr, val)
          /\ b = [o \in Off |-> IF o \notin Touched(sr) THEN (IF sr = "d" THEN Zero ELSE u[o])
                      ELSE val[o - At(sr)]]
          /\ x = HostAfter(z, sr, f)
      BY DEF HostWrite, HostAfter
    <3>. HIDE DEF s, b, x, f, u, z
    <3>3. s \in Stores /\ (Sound(f, u, z) => Sound(s, b, x)) /\ (Aligned(f) => Aligned(s))
      BY <3>1, <3>2, HostSound
    <3>. QED  BY <3>3 DEF f, u, z
  <2>4. b \in [Off -> SymByte \cup ConByte]
    <3>1. \A i \in 0 .. Size(sr) - 1 : val[i] \in SymByte \cup ConByte
      BY DEF ConValues
    <3>. QED  BY <3>1, WantType
  <2>5. x \in SUBSET Off
    BY <1>0, SubRegBounds
  <2>. HIDE DEF s, b, x
  <2>. QED  BY <2>1, <2>2, <2>3, <2>4, <2>5, OthersKept
<1>. QED  BY <1>1, <1>3, <1>4, <1>5, <1>6 DEF Next

(* The types hold at the start, and the agreement if the heap was zero.    *)
LEMMA InitSound ==
    ASSUME Init
    PROVE  IInv /\ (ZeroedHeap => \A r \in Regs : Aligned(file[r]))
<1>0. PICK con \in [Regs -> [Off -> ConByte]],
           bits \in [Regs -> IF ZeroedHeap THEN {{}} ELSE SUBSET Off] :
        file = [r \in Regs |-> [Concrete(con[r]) EXCEPT !.marked = bits[r]]]
  BY DEF Init
<1>1. ASSUME NEW r \in Regs
      PROVE  /\ file[r] \in Stores /\ file[r].con = con[r] /\ (ZeroedHeap => file[r].marked = {})
             /\ file[r].content = [o \in Off |-> NoSym]
  <2>. DEFINE none == [o \in Off |-> NoSym]
              t    == [marked |-> bits[r], content |-> none, con |-> con[r]]
  <2>1. con[r] \in [Off -> ConByte] /\ bits[r] \in SUBSET Off /\ (ZeroedHeap => bits[r] = {})
    BY <1>0
  <2>2. none \in [Off -> SymByte \cup {NoSym}]
    OBVIOUS
  <2>3. file[r] = t
    BY <1>0, <2>1 DEF Concrete
  <2>. HIDE DEF none
  <2>4. t \in Stores /\ t.marked = bits[r] /\ t.con = con[r] /\ t.content = none
    BY <2>1, <2>2 DEF Stores
  <2>. HIDE DEF t
  <2>. QED  BY <2>1, <2>3, <2>4 DEF none
<1>2. file \in [Regs -> Stores]
  BY <1>0, <1>1
<1>3. want = [r \in Regs |-> con[r]] /\ want \in [Regs -> [Off -> SymByte \cup ConByte]]
  <2>1. want = [r \in Regs |-> file[r].con]
    BY DEF Init
  <2>2. want = [r \in Regs |-> con[r]]
    BY <1>1, <2>1
  <2>3. \A r \in Regs : con[r] \in [Off -> SymByte \cup ConByte]
    BY <1>0
  <2>. QED  BY <2>2, <2>3
<1>4. astray \in [Regs -> SUBSET Off]
  BY DEF Init
<1>5. ZeroedHeap => \A r \in Regs : Sound(file[r], want[r], astray[r]) /\ Aligned(file[r])
  BY <1>1, <1>3 DEF Sound, Aligned
<1>. QED  BY <1>2, <1>3, <1>4, <1>5 DEF IInv, TypeOK, Stores

(* The types are inductive, and with them the agreement.                   *)
LEMMA StepIInv ==
    ASSUME IInv, [Next]_vars
    PROVE  IInv' /\ (Spanning /\ (\A r \in Regs : Aligned(file[r]))
                        => (\A r \in Regs : Aligned(file[r]))')
<1>1. CASE Next
  <2>1. (\A q \in Regs : Kept(q)) /\ Shape
    BY <1>1, StepKeeps DEF IInv
  <2>2. file' \in [Regs -> Stores]
    BY <2>1 DEF Kept, Shape
  <2>3. want' \in [Regs -> [Off -> SymByte \cup ConByte]]
    BY <2>1 DEF Kept, Shape
  <2>4. astray' \in [Regs -> SUBSET Off]
    BY <2>1 DEF Kept, Shape
  <2>5. TypeOK'
    BY <2>2, <2>3, <2>4 DEF TypeOK, Stores
  <2>6. (ZeroedHeap => \A r \in Regs : Sound(file[r], want[r], astray[r]))'
    BY <2>1 DEF IInv, Kept
  <2>7. Spanning /\ (\A r \in Regs : Aligned(file[r])) => (\A r \in Regs : Aligned(file[r]))'
    BY <2>1 DEF Kept
  <2>. QED  BY <2>5, <2>6, <2>7 DEF IInv
<1>2. CASE UNCHANGED vars
  BY <1>2 DEF vars, IInv, TypeOK, Sound, Aligned
<1>. QED  BY <1>1, <1>2

(***************************************************************************)
(* The layers of the register file keep their types, whatever the heap and *)
(* the lists are.                                                          *)
(***************************************************************************)
THEOREM TypeCorrect == Spec => []TypeOK
<1>1. Init => IInv
  BY InitSound
<1>2. IInv /\ [Next]_vars => IInv'
  BY StepIInv
<1>3. IInv => TypeOK
  BY DEF IInv
<1>. QED  BY <1>1, <1>2, <1>3, PTL DEF Spec

(***************************************************************************)
(* If the heap was zero, a byte that the bitmap of a register calls        *)
(* symbolic has a symbol: every sub-register that m_Regs has, every list.  *)
(***************************************************************************)
THEOREM MarkedAlwaysCovered ==
    ASSUME ZeroedHeap
    PROVE  Spec => []MarkedIsCovered
<1>1. Init => IInv
  BY InitSound
<1>2. IInv /\ [Next]_vars => IInv'
  BY StepIInv
<1>3. IInv => MarkedIsCovered
  BY DEF IInv, Sound, MarkedIsCovered
<1>. QED  BY <1>1, <1>2, <1>3, PTL DEF Spec

(***************************************************************************)
(* If the heap was zero, bitmap, list and m_PTRegs together give the       *)
(* machine's register in every byte that is not astray, however            *)
(* sub-registers overlap and whoever writes, for arbitrary cell lists.     *)
(***************************************************************************)
THEOREM BytesAlwaysFresh ==
    ASSUME ZeroedHeap
    PROVE  Spec => []BytesFresh
<1>1. Init => IInv
  BY InitSound
<1>2. IInv /\ [Next]_vars => IInv'
  BY StepIInv
<1>3. IInv => BytesFresh
  BY DEF IInv, Sound, BytesFresh
<1>. QED  BY <1>1, <1>2, <1>3, PTL DEF Spec

(***************************************************************************)
(* If the heap was zero and lists reach both ends, a sub-register without  *)
(* an astray byte reads as the bytes that were last written through any    *)
(* other; a byte register that is not symbolic is left out: the code reads *)
(* it in the second byte (CPUState.cpp:433).                               *)
(***************************************************************************)
THEOREM SpanningReadsFresh ==
    ASSUME ZeroedHeap, Spanning
    PROVE  Spec => []ReadsFresh
<1>. DEFINE J == IInv /\ \A r \in Regs : Aligned(file[r])
<1>1. Init => J
  BY InitSound
<1>2. J /\ [Next]_vars => J'
  BY StepIInv
<1>3. J => ReadsFresh
  <2>. SUFFICES ASSUME J, NEW r \in Regs, NEW sr \in SubRegs, NEW i \in 0 .. Size(sr) - 1,
                       Touched(sr) \cap astray[r] = {},
                       ConAt(sr) = At(sr) \/ IsSym(file[r], At(sr), Size(sr))
                PROVE  readRegister(r, sr)[i] = want[r][At(sr) + i]
    BY DEF ReadsFresh, ReadsAsWritten
  <2>. DEFINE s == file[r]
  <2>1. Sound(s, want[r], astray[r]) /\ Aligned(s)
    BY DEF IInv
  <2>2. At(sr) + i = i /\ i \in Touched(sr) /\ i \in Off \ astray[r]
    BY SubRegBounds
  <2>3. readRegister(r, sr)[i] = IF IsSym(s, At(sr), Size(sr)) /\ s.content[i] # NoSym
                                 THEN s.content[i] ELSE s.con[ConAt(sr) + i]
    BY <2>2 DEF readRegister, ReadExpr
  <2>4. CASE i \in s.marked
    <3>1. IsSym(s, At(sr), Size(sr))
      BY <2>2, <2>4 DEF IsSym, Touched
    <3>. QED  BY <2>1, <2>2, <2>3, <2>4, <3>1 DEF Sound
  <2>5. CASE i \notin s.marked
    <3>1. s.content[i] = NoSym
      BY <2>1, <2>2, <2>5 DEF Aligned
    <3>2. ConAt(sr) = At(sr)
      <4>1. ASSUME ConAt(sr) # At(sr) PROVE Size(sr) = 1
        <5>1. sr = "l"
          BY <4>1, SubRegBounds DEF ConAt, At, conOffset, regIdxToAddrSize
        <5>. QED  BY <5>1 DEF Size, regIdxToAddrSize
      <4>2. ASSUME Size(sr) = 1 PROVE ~IsSym(s, At(sr), Size(sr))
        <5>1. Touched(sr) = {i}
          BY <4>2, SubRegBounds
        <5>. QED  BY <2>5, <5>1 DEF IsSym, Touched
      <4>. QED  BY <4>1, <4>2
    <3>. QED  BY <2>1, <2>2, <2>3, <2>5, <3>1, <3>2 DEF Sound
  <2>. QED  BY <2>4, <2>5
<1>. QED  BY <1>1, <1>2, <1>3, PTL DEF Spec
=============================================================================
