--------------------------- MODULE SymExecProofs ----------------------------
(***************************************************************************)
(* Proofs about SymExec for every program of well-formed instructions,     *)
(* every register width, set of registers, memory and symbolic object: the *)
(* layers stay typed and covered, and what KRover does with an instruction *)
(* is what the machine does.                                               *)
(***************************************************************************)
EXTENDS SymExec, TLAPS

Values(size) == [0 .. size - 1 -> Bit]

-----------------------------------------------------------------------------
(* Words                                                                   *)

LEMMA Parameters ==
    /\ Width \in Nat /\ Width >= 2 /\ Width \div 2 \in Nat /\ 2 * (Width \div 2) = Width
    /\ MemSize \in Nat
    /\ Zero = 0 /\ NoSym \notin SymBytes /\ Seed \in Worlds
    /\ "rax" \in Regs /\ "rdx" \in Regs
<1>1. Width \in Nat \ {0} /\ Width % 2 = 0
  BY SymExecAssumption
<1>2. Width = 2 * (Width \div 2) + (Width % 2) /\ Width \div 2 \in Nat
  BY <1>1
<1>3. QED
  BY <1>1, <1>2, SymExecAssumption DEF SymBytes

LEMMA LenIs ==
    ASSUME NEW v, NEW n \in 1 .. 2 * Width, DOMAIN v = 0 .. n - 1
    PROVE  Len(v) = n
<1>1. \E m \in 1 .. 2 * Width : DOMAIN v = 0 .. m - 1
  OBVIOUS
<1>2. Len(v) \in 1 .. 2 * Width /\ DOMAIN v = 0 .. Len(v) - 1
  BY <1>1 DEF Len
<1>3. n - 1 \in 0 .. Len(v) - 1 /\ Len(v) - 1 \in 0 .. n - 1
  BY <1>2, Parameters
<1>4. QED
  BY <1>2, <1>3, Parameters

LEMMA ValueLen ==
    ASSUME NEW n \in 1 .. 2 * Width, NEW v \in Values(n)
    PROVE  Len(v) = n /\ DOMAIN v = 0 .. n - 1 /\ \A j \in 0 .. n - 1 : v[j] \in Bit
BY LenIs DEF Values

LEMMA WordFacts ==
    ASSUME NEW num, NEW size
    PROVE  Word(num, size) \in Values(size)
BY DEF Word, Values, Bit

LEMMA ZExtFacts ==
    ASSUME NEW n \in 1 .. 2 * Width, NEW v \in Values(n), NEW size \in Nat
    PROVE  /\ ZExt(v, size) \in Values(size)
           /\ size = n => ZExt(v, size) = v
<1>1. Len(v) = n /\ n \in Nat /\ DOMAIN v = 0 .. n - 1 /\ \A j \in 0 .. n - 1 : v[j] \in Bit
  BY ValueLen, Parameters
<1>2. ZExt(v, size) = [j \in 0 .. size - 1 |-> IF j < n THEN v[j] ELSE 0]
  BY <1>1 DEF ZExt
<1>3. ZExt(v, size) \in Values(size)
  BY <1>1, <1>2 DEF Values, Bit
<1>4. ASSUME size = n PROVE ZExt(v, size) = v
  BY <1>1, <1>2, <1>4 DEF Values
<1>5. QED
  BY <1>3, <1>4

LEMMA SExtFacts ==
    ASSUME NEW n \in 1 .. 2 * Width, NEW v \in Values(n), NEW size \in Nat
    PROVE  /\ SExt(v, size) \in Values(size)
           /\ size = n => SExt(v, size) = v
           /\ ~Negative(v) => SExt(v, size) = ZExt(v, size)
<1>1. /\ Len(v) = n /\ n \in Nat /\ n > 0
      /\ DOMAIN v = 0 .. n - 1 /\ \A j \in 0 .. n - 1 : v[j] \in Bit
  BY ValueLen, Parameters
<1>2. SExt(v, size) = [j \in 0 .. size - 1 |-> v[IF j < n THEN j ELSE n - 1]]
  BY <1>1 DEF SExt
<1>3. SExt(v, size) \in Values(size)
  BY <1>1, <1>2 DEF Values
<1>4. ASSUME size = n PROVE SExt(v, size) = v
  BY <1>1, <1>2, <1>4 DEF Values
<1>5. ASSUME ~Negative(v) PROVE SExt(v, size) = ZExt(v, size)
  <2>1. v[n - 1] = 0
    BY <1>1, <1>5 DEF Negative, Bit
  <2>2. ZExt(v, size) = [j \in 0 .. size - 1 |-> IF j < n THEN v[j] ELSE 0]
    BY <1>1 DEF ZExt
  <2>3. QED
    BY <1>1, <1>2, <2>1, <2>2
<1>6. QED
  BY <1>3, <1>4, <1>5

LEMMA HalfFacts ==
    ASSUME NEW h \in 1 .. Width, NEW v \in Values(2 * h), NEW at \in {0, h}
    PROVE  Half(v, at) \in Values(h)
<1>1. h \in Nat /\ 2 * h \in 1 .. 2 * Width
  BY Parameters
<1>2. Len(v) = 2 * h /\ \A j \in 0 .. 2 * h - 1 : v[j] \in Bit
  BY <1>1, ValueLen
<1>3. (2 * h) \div 2 = h
  BY <1>1
<1>4. Half(v, at) = [j \in 0 .. h - 1 |-> v[at + j]]
  BY <1>2, <1>3 DEF Half
<1>5. \A j \in 0 .. h - 1 : at + j \in 0 .. 2 * h - 1
  BY <1>1
<1>6. QED
  BY <1>2, <1>4, <1>5 DEF Values

LEMMA AluFacts ==
    ASSUME NEW op \in Binary \cup Unary, NEW n \in 1 .. Width, NEW a \in Values(n), NEW b,
           op \in {"and", "test", "or", "xor"} => b \in Values(n)
    PROVE  Alu(op, a, b) \in Values(n)
<1>1. n \in 1 .. 2 * Width /\ n \in Nat
  BY Parameters
<1>2. Len(a) = n /\ \A j \in 0 .. n - 1 : a[j] \in Bit
  BY <1>1, ValueLen
<1>3. CASE op \in {"and", "test"}
  <2>1. \A j \in 0 .. n - 1 : b[j] \in Bit
    BY <1>1, <1>3, ValueLen
  <2>2. \A j \in 0 .. n - 1 : a[j] * b[j] \in Bit
    BY <1>2, <2>1 DEF Bit
  <2>3. Alu(op, a, b) = [j \in 0 .. n - 1 |-> a[j] * b[j]]
    BY <1>2, <1>3 DEF Alu
  <2>4. QED
    BY <2>2, <2>3 DEF Values
<1>4. CASE op = "or"
  <2>1. \A j \in 0 .. n - 1 : b[j] \in Bit
    BY <1>1, <1>4, ValueLen
  <2>2. \A j \in 0 .. n - 1 : a[j] + b[j] - a[j] * b[j] \in Bit
    BY <1>2, <2>1 DEF Bit
  <2>3. Alu(op, a, b) = [j \in 0 .. n - 1 |-> a[j] + b[j] - a[j] * b[j]]
    BY <1>2, <1>4 DEF Alu
  <2>4. QED
    BY <2>2, <2>3 DEF Values
<1>5. CASE op = "xor"
  <2>1. \A j \in 0 .. n - 1 : b[j] \in Bit
    BY <1>1, <1>5, ValueLen
  <2>2. \A j \in 0 .. n - 1 : (a[j] + b[j]) % 2 \in Bit
    BY <1>2, <2>1 DEF Bit
  <2>3. Alu(op, a, b) = [j \in 0 .. n - 1 |-> (a[j] + b[j]) % 2]
    BY <1>2, <1>5 DEF Alu
  <2>4. QED
    BY <2>2, <2>3 DEF Values
<1>6. CASE op = "not"
  <2>1. \A j \in 0 .. n - 1 : 1 - a[j] \in Bit
    BY <1>2 DEF Bit
  <2>2. Alu(op, a, b) = [j \in 0 .. n - 1 |-> 1 - a[j]]
    BY <1>2, <1>6 DEF Alu
  <2>3. QED
    BY <2>1, <2>2 DEF Values
<1>7. CASE op \notin {"and", "test", "or", "xor", "not"}
  <2>1. \E num : Alu(op, a, b) = Word(num, n)
    BY <1>2, <1>7 DEF Alu, Binary, Unary
  <2>2. QED
    BY <2>1, WordFacts
<1>8. QED
  BY <1>3, <1>4, <1>5, <1>6, <1>7

-----------------------------------------------------------------------------
(* Layers                                                                  *)

Exprs(size) == [0 .. size - 1 -> SymBytes]

(* Layers in which every marked byte has its symbol.                       *)
Good(D) == { s \in LayersOf(D) : \A a \in s.marked : s.content[a] # NoSym }

VM == [reg : [Regs -> Good(Off)], mem : Good(Addr), rsp : 0 .. MemSize]

LEMMA GoodFacts ==
    ASSUME NEW D, NEW s
    PROVE  s \in Good(D) <=>
             /\ s = [marked |-> s.marked, content |-> s.content, con |-> s.con]
             /\ s.marked \subseteq D
             /\ s.content \in [D -> SymBytes \cup {NoSym}] /\ s.con \in [D -> Bit]
             /\ \A a \in s.marked : s.content[a] # NoSym
BY DEF Good, LayersOf

LEMMA OverlayFacts ==
    ASSUME NEW D, NEW con \in [D -> Bit], NEW at, NEW val,
           \A j \in DOMAIN val : val[j] \in Bit
    PROVE  Overlay(con, at, val) \in [D -> Bit]
BY DEF Overlay

LEMMA WriteConGood ==
    ASSUME NEW D, NEW s \in Good(D), NEW at, NEW conAt, NEW size, NEW val,
           \A j \in DOMAIN val : val[j] \in Bit
    PROVE  WriteCon(s, at, conAt, size, val) \in Good(D)
<1> DEFINE t == WriteCon(s, at, conAt, size, val)
<1>1. /\ s.marked \subseteq D /\ s.content \in [D -> SymBytes \cup {NoSym}]
      /\ s.con \in [D -> Bit] /\ \A a \in s.marked : s.content[a] # NoSym
  BY GoodFacts
<1>2. /\ t = [marked |-> t.marked, content |-> t.content, con |-> t.con]
      /\ t.marked = s.marked \ Span(at, size)
      /\ t.content = [o \in D |-> IF o \in Span(at, size) THEN NoSym ELSE s.content[o]]
      /\ t.con = Overlay(s.con, conAt, val)
  BY <1>1 DEF WriteCon
<1>3. t.con \in [D -> Bit]
  BY <1>1, <1>2, OverlayFacts
<1> HIDE DEF t
<1>4. t \in Good(D)
  BY <1>1, <1>2, <1>3, GoodFacts
<1>5. QED
  BY <1>4 DEF t

LEMMA WriteExprGood ==
    ASSUME NEW D, NEW s \in Good(D), NEW at \in Int, NEW conAt, NEW size \in Nat,
           Span(at, size) \subseteq D, NEW e \in Exprs(size)
    PROVE  WriteExpr(s, at, conAt, size, e) \in Good(D)
<1> DEFINE t == WriteExpr(s, at, conAt, size, e)
<1>1. /\ s.marked \subseteq D /\ s.content \in [D -> SymBytes \cup {NoSym}]
      /\ s.con \in [D -> Bit] /\ \A a \in s.marked : s.content[a] # NoSym
  BY GoodFacts
<1>2. /\ t = [marked |-> t.marked, content |-> t.content, con |-> t.con]
      /\ t.marked = s.marked \cup Span(at, size)
      /\ t.content = [o \in D |-> IF o \in Span(at, size) THEN e[o - at] ELSE s.content[o]]
      /\ t.con = Overlay(s.con, conAt, Zeroes(size))
  BY <1>1 DEF WriteExpr
<1>3. \A o \in Span(at, size) : e[o - at] \in SymBytes /\ e[o - at] # NoSym
  BY Parameters DEF Exprs, Span
<1>4. t.con \in [D -> Bit]
  <2>1. \A j \in DOMAIN Zeroes(size) : Zeroes(size)[j] \in Bit
    BY Parameters DEF Zeroes, Bit
  <2>2. QED
    BY <1>1, <1>2, <2>1, OverlayFacts
<1> HIDE DEF t
<1>5. t \in Good(D)
  BY <1>1, <1>2, <1>3, <1>4, GoodFacts
<1>6. QED
  BY <1>5 DEF t

(* The cells of a value fill its bytes, or it is one byte.                 *)
LEMMA WriteListGood ==
    ASSUME NEW D \in SUBSET Int, NEW s \in Good(D), NEW at \in Int, NEW conAt, NEW size \in Nat,
           NEW base \in Int, base = at \/ size = 1,
           NEW sym, DOMAIN sym \subseteq 0 .. size - 1, \A j \in DOMAIN sym : sym[j] \in SymBytes,
           NEW val, \A j \in DOMAIN val : val[j] \in Bit
    PROVE  WriteList(s, at, conAt, size, base, sym, val) \in Good(D)
<1> DEFINE t == WriteList(s, at, conAt, size, base, sym, val)
           gap(o) == \E j, k \in DOMAIN sym : base + j <= o /\ o <= base + k
<1>1. /\ s.marked \subseteq D /\ s.content \in [D -> SymBytes \cup {NoSym}]
      /\ s.con \in [D -> Bit] /\ \A a \in s.marked : s.content[a] # NoSym
  BY GoodFacts
<1>2. /\ t = [marked |-> t.marked, content |-> t.content, con |-> t.con]
      /\ t.marked = (s.marked \ Span(at, size)) \cup { o \in D : o - base \in DOMAIN sym }
      /\ t.content = [o \in D |-> IF o - base \in DOMAIN sym THEN sym[o - base]
                                  ELSE IF gap(o) THEN NoSym ELSE s.content[o]]
      /\ t.con = Overlay(s.con, conAt, val)
  BY <1>1 DEF WriteList
<1>3. t.con \in [D -> Bit]
  BY <1>1, <1>2, OverlayFacts
<1>4. ASSUME NEW o \in D, o - base \notin DOMAIN sym, gap(o)
      PROVE  o \in Span(at, size)
  <2>1. PICK j, k \in DOMAIN sym : base + j <= o /\ o <= base + k
    BY <1>4
  <2>2. j \in 0 .. size - 1 /\ k \in 0 .. size - 1 /\ o \in Int
    OBVIOUS
  <2>3. CASE base = at
    BY <2>1, <2>2, <2>3 DEF Span
  <2>4. CASE size = 1
    <3>1. j = 0 /\ k = 0
      BY <2>2, <2>4
    <3>2. o - base = j
      BY <2>1, <2>2, <3>1
    <3>3. QED
      BY <1>4, <3>2
  <2>5. QED
    BY <2>3, <2>4
<1>5. \A o \in D : t.content[o] \in SymBytes \cup {NoSym}
  BY <1>1, <1>2
<1>6. \A a \in t.marked : t.content[a] # NoSym
  <2> SUFFICES ASSUME NEW a \in t.marked PROVE t.content[a] # NoSym
    OBVIOUS
  <2>1. a \in D
    BY <1>1, <1>2
  <2>2. CASE a - base \in DOMAIN sym
    BY <1>2, <2>1, <2>2, Parameters
  <2>3. CASE a - base \notin DOMAIN sym
    <3>1. a \in s.marked /\ a \notin Span(at, size)
      BY <1>2, <2>3
    <3>2. ~gap(a)
      BY <1>4, <2>1, <2>3, <3>1
    <3>3. QED
      BY <1>1, <1>2, <2>1, <2>3, <3>1, <3>2
  <2>4. QED
    BY <2>2, <2>3
<1>7. t.marked \subseteq D /\ t.content \in [D -> SymBytes \cup {NoSym}]
  BY <1>1, <1>2, <1>5
<1> HIDE DEF t
<1>8. t \in Good(D)
  BY <1>2, <1>3, <1>6, <1>7, GoodFacts
<1>9. QED
  BY <1>8 DEF t

(* An expression is built from its value in each world.                    *)
Built(size, f, b) ==
    [j \in 0 .. size - 1 |-> [val |-> [w \in Worlds |-> f[w][j]], fails |-> b]]

LEMMA FromWorlds ==
    ASSUME NEW size, NEW f \in [Worlds -> Values(size)], NEW b \in BOOLEAN
    PROVE  /\ Built(size, f, b) \in Exprs(size)
           /\ \A w \in Worlds : ValueIn(Built(size, f, b), w) = f[w]
<1> DEFINE e == Built(size, f, b)
<1>1. \A w \in Worlds : f[w] \in [0 .. size - 1 -> Bit]
  BY DEF Values
<1>2. \A j \in 0 .. size - 1 : e[j] \in [val : [Worlds -> Bit], fails : BOOLEAN]
  BY <1>1 DEF Built
<1>3. \A w \in Worlds : ValueIn(e, w) = [j \in 0 .. size - 1 |-> f[w][j]]
  BY DEF ValueIn, Built
<1>4. \A w \in Worlds : ValueIn(e, w) = f[w]
  BY <1>1, <1>3
<1>5. QED
  BY <1>2, <1>4 DEF Exprs, SymBytes, Built

LEMMA ValueInFacts ==
    ASSUME NEW size, NEW e \in Exprs(size), NEW w \in Worlds
    PROVE  ValueIn(e, w) \in Values(size)
BY DEF Exprs, SymBytes, ValueIn, Values

-----------------------------------------------------------------------------
(* Operands                                                                *)

Cpus == [reg : [Regs -> [Off -> Bit]], mem : [Addr -> Bit], rsp : Int, zf : BOOLEAN]

LEMMA RegisterFacts ==
    ASSUME NEW o, IsRegister(o)
    PROVE  /\ o.k = "reg" /\ o.r \in Regs
           /\ Size(o) \in 1 .. Width /\ At(o) \in Nat /\ At(o) + Size(o) <= Width
<1>1. o.k = "reg" /\ o.r \in Regs /\ o.v \in {"full", "d", "w", "l", "h"}
  BY DEF IsRegister, regIdxToAddrSize
<1>2. Size(o) = regIdxToAddrSize[o.v][2] /\ At(o) = regIdxToAddrSize[o.v][1]
  BY <1>1 DEF Size, At
<1>3. CASE o.v = "full"
  BY <1>1, <1>2, <1>3, Parameters DEF regIdxToAddrSize
<1>4. CASE o.v = "d"
  BY <1>1, <1>2, <1>4, Parameters DEF regIdxToAddrSize
<1>5. CASE o.v = "w"
  BY <1>1, <1>2, <1>5, Parameters DEF regIdxToAddrSize
<1>6. CASE o.v = "l"
  BY <1>1, <1>2, <1>6, Parameters DEF regIdxToAddrSize
<1>7. CASE o.v = "h"
  BY <1>1, <1>2, <1>7, Parameters DEF regIdxToAddrSize
<1>8. QED
  BY <1>1, <1>3, <1>4, <1>5, <1>6, <1>7

LEMMA AccFacts ==
    /\ IsRegister(Acc) /\ Acc.k = "reg" /\ Acc.r = "rax" /\ Acc.v = "full"
    /\ Size(Acc) = Width /\ At(Acc) = 0
    /\ IsRegister(Ext) /\ Ext.k = "reg" /\ Ext.r = "rdx" /\ Ext.v = "full"
    /\ Size(Ext) = Width /\ At(Ext) = 0
BY Parameters DEF Acc, Ext, IsRegister, Size, At, regIdxToAddrSize

LEMMA TargetFacts ==
    ASSUME NEW o, IsTarget(o)
    PROVE  /\ o.k \in {"reg", "mem", "ind"} /\ Size(o) \in 1 .. Width
           /\ IsMem(o) <=> o.k # "reg"
           /\ o.k \in {"reg", "ind"} => o.r \in Regs
           /\ o.k = "reg" => IsRegister(o)
           /\ o.k = "mem" => o.at \in Nat /\ o.at + o.n <= MemSize
           /\ IsMem(o) => Size(o) = o.n
<1>1. CASE IsRegister(o)
  BY <1>1, RegisterFacts DEF IsMem
<1>2. CASE o.k = "mem" /\ o.at \in Addr /\ o.n \in 1 .. Width /\ o.at + o.n <= MemSize
  BY <1>2, Parameters DEF Addr, IsMem, Size
<1>3. CASE o.k = "ind" /\ o.r \in Regs /\ o.n \in 1 .. Width
  BY <1>3 DEF IsMem, Size
<1>4. QED
  BY <1>1, <1>2, <1>3 DEF IsTarget

(* The store of an operand has a byte for each of the operand's.           *)
Room(o) == IF IsMem(o) THEN MemSize ELSE Width

Home(o) == 0 .. Room(o) - 1

Placed(o) ==
    /\ Where(o) \in Nat /\ Size(o) \in 1 .. Width /\ Where(o) + Size(o) <= Room(o)
    /\ ConWhere(o) \in Nat /\ ConWhere(o) + Size(o) <= Room(o)

(* Only the concrete byte of al, dl, ... is not where the bitmap has it.   *)
LEMMA ConPlaced ==
    ASSUME NEW o, IsTarget(o)
    PROVE  /\ o.k # "reg" => ConWhere(o) = Where(o)
           /\ o.k = "reg" => /\ ConWhere(o) \in Nat /\ ConWhere(o) + Size(o) <= Width
                            /\ \/ ConWhere(o) = Where(o)
                               \/ ConWhere(o) = 1 /\ Where(o) = 0 /\ Size(o) = 1 /\ o.v = "l"
<1>1. CASE o.k # "reg"
  BY <1>1 DEF ConWhere
<1>2. CASE o.k = "reg"
  <2>1. o.v \in {"full", "d", "w", "l", "h"}
    BY <1>2 DEF IsTarget, IsRegister, regIdxToAddrSize
  <2>2. /\ ConWhere(o) = conOffset[o.v] /\ Where(o) = regIdxToAddrSize[o.v][1]
        /\ Size(o) = regIdxToAddrSize[o.v][2]
    BY <1>2 DEF ConWhere, Where, At, Size
  <2>3. QED
    BY <1>2, <2>1, <2>2, Parameters DEF conOffset, regIdxToAddrSize
<1>3. QED
  BY <1>1, <1>2

LEMMA PlacedFacts ==
    ASSUME NEW o, Placed(o)
    PROVE  /\ Span(Where(o), Size(o)) \subseteq Home(o)
           /\ \A j \in 0 .. Size(o) - 1 :
                Where(o) + j \in Span(Where(o), Size(o)) /\ ConWhere(o) + j \in Home(o)
           /\ Where(o) \in Int /\ Size(o) \in Nat
           /\ Home(o) = IF IsMem(o) THEN Addr ELSE Off
           /\ Home(o) \subseteq Int
<1>1. /\ Where(o) \in Nat /\ Size(o) \in Nat /\ Where(o) + Size(o) <= Room(o) /\ Room(o) \in Nat
      /\ ConWhere(o) \in Nat /\ ConWhere(o) + Size(o) <= Room(o)
  BY Parameters DEF Placed, Room
<1>2. Home(o) = IF IsMem(o) THEN Addr ELSE Off
  BY DEF Home, Room, Addr, Off
<1>3. QED
  BY <1>1, <1>2 DEF Span, Home

(* The operand's address can be computed, and lies in memory.              *)
Reachable(o) == o.k = "ind" => AddrOf(HostCpu, o) \in 0 .. MemSize - o.n

LEMMA TargetPlaced ==
    ASSUME NEW o, IsTarget(o), Reachable(o)
    PROVE  Placed(o)
<1>1. CASE o.k = "reg"
  <2>1. Where(o) = At(o) /\ Room(o) = Width
    BY <1>1 DEF Where, Room, IsMem
  <2>2. QED
    BY <1>1, <2>1, TargetFacts, RegisterFacts, ConPlaced DEF Placed
<1>2. CASE o.k = "mem"
  <2>1. Where(o) = o.at /\ Room(o) = MemSize /\ Size(o) = o.n
    BY <1>2 DEF Where, Room, IsMem, AddrOf, Size
  <2>2. QED
    BY <1>2, <2>1, TargetFacts, ConPlaced DEF Placed
<1>3. CASE o.k = "ind"
  <2>1. Where(o) = AddrOf(HostCpu, o) /\ Room(o) = MemSize /\ Size(o) = o.n
    BY <1>3 DEF Where, Room, IsMem, Size
  <2>2. Size(o) \in 1 .. Width /\ MemSize \in Nat /\ Width \in Nat
    BY TargetFacts, Parameters
  <2>3. QED
    BY <1>3, <2>1, <2>2, ConPlaced DEF Placed, Reachable
<1>4. QED
  BY <1>1, <1>2, <1>3, TargetFacts

LEMMA SlotPlaced ==
    ASSUME NEW rsp \in Nat, rsp + Width <= MemSize
    PROVE  /\ IsTarget(Slot(rsp)) /\ Placed(Slot(rsp))
           /\ IsMem(Slot(rsp)) /\ Size(Slot(rsp)) = Width /\ Where(Slot(rsp)) = rsp
           /\ Slot(rsp).k = "mem" /\ Slot(rsp).at = rsp
<1>1. /\ Slot(rsp).k = "mem" /\ Slot(rsp).at = rsp /\ Slot(rsp).n = Width
      /\ Size(Slot(rsp)) = Width /\ IsMem(Slot(rsp)) /\ Where(Slot(rsp)) = rsp
  BY DEF Slot, Size, IsMem, Where, AddrOf
<1>2. rsp \in Addr /\ Width \in 1 .. Width
  BY Parameters DEF Addr
<1>3. IsTarget(Slot(rsp))
  BY <1>1, <1>2 DEF IsTarget
<1>4. QED
  BY <1>1, <1>3, TargetPlaced DEF Reachable

-----------------------------------------------------------------------------
(* The state                                                               *)

(***************************************************************************)
(* The inductive invariant.  The seed satisfies every condition that was   *)
(* decided with it, so a world is left; and flags that are not symbolic    *)
(* are the same in all worlds that are left.                               *)
(***************************************************************************)
SeedStays == Seed \in path

FlagsAgree == ~flags.bsym => \A w \in path : flags.zf[w] = flags.zf[Seed]

IInv == TypeOK /\ MarkedIsCovered /\ SeedStays /\ FlagsAgree

LEMMA VMFacts ==
    ASSUME NEW m
    PROVE  m \in VM <=>
             /\ m = [reg |-> m.reg, mem |-> m.mem, rsp |-> m.rsp]
             /\ m.reg \in [Regs -> Good(Off)] /\ m.mem \in Good(Addr) /\ m.rsp \in 0 .. MemSize
BY DEF VM

LEMMA LayersGood ==
    ASSUME vm \in [reg : [Regs -> LayersOf(Off)], mem : LayersOf(Addr), rsp : 0 .. MemSize]
    PROVE  MarkedIsCovered <=> vm \in VM
<1>1. /\ vm = [reg |-> vm.reg, mem |-> vm.mem, rsp |-> vm.rsp]
      /\ vm.reg \in [Regs -> LayersOf(Off)] /\ vm.mem \in LayersOf(Addr) /\ vm.rsp \in 0 .. MemSize
  OBVIOUS
<1>2. MarkedIsCovered <=>
        /\ \A r \in Regs : \A a \in vm.reg[r].marked : vm.reg[r].content[a] # NoSym
        /\ \A a \in vm.mem.marked : vm.mem.content[a] # NoSym
  BY DEF MarkedIsCovered, Stores
<1>3. (\A r \in Regs : \A a \in vm.reg[r].marked : vm.reg[r].content[a] # NoSym)
        <=> \A r \in Regs : vm.reg[r] \in Good(Off)
  BY <1>1 DEF Good
<1>4. (\A a \in vm.mem.marked : vm.mem.content[a] # NoSym) <=> vm.mem \in Good(Addr)
  BY <1>1 DEF Good
<1>5. (\A r \in Regs : vm.reg[r] \in Good(Off)) <=> vm.reg \in [Regs -> Good(Off)]
  BY <1>1
<1>6. QED
  BY <1>1, <1>2, <1>3, <1>4, <1>5, VMFacts

LEMMA InvFacts ==
    IInv <=> /\ vm \in VM
             /\ flags \in [bsym : BOOLEAN, fails : BOOLEAN, zf : [Worlds -> BOOLEAN]]
             /\ path \subseteq Worlds /\ Seed \in path
             /\ status \in {"run", "abort"} /\ count \in 0 .. MaxInsns
             /\ FlagsAgree
<1>1. vm \in VM => vm \in [reg : [Regs -> LayersOf(Off)], mem : LayersOf(Addr), rsp : 0 .. MemSize]
  <2>1. Good(Off) \subseteq LayersOf(Off) /\ Good(Addr) \subseteq LayersOf(Addr)
    BY DEF Good
  <2>2. QED
    BY <2>1 DEF VM
<1>2. QED
  BY <1>1, LayersGood DEF IInv, TypeOK, SeedStays

-----------------------------------------------------------------------------
(* Reading and writing operands                                            *)

LEMMA CpuFacts ==
    ASSUME NEW c
    PROVE  c \in Cpus <=>
             /\ c = [reg |-> c.reg, mem |-> c.mem, rsp |-> c.rsp, zf |-> c.zf]
             /\ c.reg \in [Regs -> [Off -> Bit]] /\ c.mem \in [Addr -> Bit]
             /\ c.rsp \in Int /\ c.zf \in BOOLEAN
BY DEF Cpus

LEMMA BytesInFacts ==
    ASSUME NEW D, NEW s \in Good(D), NEW w \in Worlds
    PROVE  /\ BytesIn(s, w) \in [D -> Bit]
           /\ \A o \in D : BytesIn(s, w)[o] = IF o \in s.marked THEN s.content[o].val[w] ELSE s.con[o]
<1>1. /\ s.marked \subseteq D /\ s.content \in [D -> SymBytes \cup {NoSym}]
      /\ s.con \in [D -> Bit] /\ \A a \in s.marked : s.content[a] # NoSym
  BY GoodFacts
<1>2. \A a \in s.marked : s.content[a].val \in [Worlds -> Bit]
  BY <1>1 DEF SymBytes
<1>3. \A o \in D : (IF o \in s.marked THEN s.content[o].val[w] ELSE s.con[o]) \in Bit
  BY <1>1, <1>2
<1>4. BytesIn(s, w) = [o \in D |-> IF o \in s.marked THEN s.content[o].val[w] ELSE s.con[o]]
  BY <1>1 DEF BytesIn
<1>5. QED
  BY <1>3, <1>4

(* The machine state that the layers m have in a world.                    *)
CpuOf(m, zf, w) ==
    [reg |-> [r \in Regs |-> BytesIn(m.reg[r], w)], mem |-> BytesIn(m.mem, w),
     rsp |-> m.rsp, zf |-> zf]

LEMMA CpuOfFacts ==
    ASSUME NEW m \in VM, NEW zf \in BOOLEAN, NEW w \in Worlds
    PROVE  CpuOf(m, zf, w) \in Cpus
<1>1. m.reg \in [Regs -> Good(Off)] /\ m.mem \in Good(Addr) /\ m.rsp \in 0 .. MemSize
  BY VMFacts
<1>2. m.rsp \in Int
  BY <1>1
<1>3. \A r \in Regs : BytesIn(m.reg[r], w) \in [Off -> Bit]
  BY <1>1, BytesInFacts
<1>4. BytesIn(m.mem, w) \in [Addr -> Bit]
  BY <1>1, BytesInFacts
<1>5. QED
  BY <1>2, <1>3, <1>4 DEF CpuOf, Cpus

LEMMA CpusTyped ==
    ASSUME IInv
    PROVE  /\ HostCpu \in Cpus
           /\ \A w \in Worlds : CpuIn(w) \in Cpus /\ CpuIn(w) = CpuOf(vm, flags.zf[w], w)
<1>1. /\ vm \in VM /\ flags.zf \in [Worlds -> BOOLEAN]
  BY InvFacts
<1>2. vm.reg \in [Regs -> Good(Off)] /\ vm.mem \in Good(Addr) /\ vm.rsp \in 0 .. MemSize
  BY <1>1, VMFacts
<1>3. /\ \A r \in Regs : vm.reg[r].con \in [Off -> Bit]
      /\ vm.mem.con \in [Addr -> Bit] /\ vm.rsp \in Int
  BY <1>2, GoodFacts
<1>4. HostCpu \in Cpus
  BY <1>1, <1>3, Parameters DEF HostCpu, Cpus
<1>5. \A w \in Worlds : CpuIn(w) = CpuOf(vm, flags.zf[w], w)
  BY DEF CpuIn, CpuOf
<1>6. QED
  BY <1>1, <1>4, <1>5, CpuOfFacts

LEMMA GetFacts ==
    ASSUME NEW c \in Cpus, NEW o, NEW size
    PROVE  /\ o.k \in {"imm", "sum"} => Get(c, o, size) \in Values(size)
           /\ IsRegister(o) =>
                /\ Get(c, o, size) = [j \in 0 .. Size(o) - 1 |-> c.reg[o.r][At(o) + j]]
                /\ Get(c, o, size) \in Values(Size(o))
           /\ IsMem(o) => Get(c, o, size) = [j \in 0 .. Size(o) - 1 |-> c.mem[AddrOf(c, o) + j]]
           /\ IsMem(o) /\ AddrOf(c, o) \in Nat /\ Size(o) \in Nat /\ AddrOf(c, o) + Size(o) <= MemSize =>
                Get(c, o, size) \in Values(Size(o))
<1>1. ASSUME o.k \in {"imm", "sum"} PROVE Get(c, o, size) \in Values(size)
  BY <1>1, WordFacts DEF Get
<1>2. ASSUME IsRegister(o)
      PROVE  /\ Get(c, o, size) = [j \in 0 .. Size(o) - 1 |-> c.reg[o.r][At(o) + j]]
             /\ Get(c, o, size) \in Values(Size(o))
  <2>1. /\ o.k = "reg" /\ o.r \in Regs
        /\ Size(o) \in 1 .. Width /\ At(o) \in Nat /\ At(o) + Size(o) <= Width
    BY <1>2, RegisterFacts
  <2>2. Get(c, o, size) = [j \in 0 .. Size(o) - 1 |-> c.reg[o.r][At(o) + j]]
    BY <2>1 DEF Get
  <2>3. c.reg[o.r] \in [Off -> Bit]
    BY <2>1, CpuFacts
  <2>4. \A j \in 0 .. Size(o) - 1 : At(o) + j \in Off
    BY <2>1, Parameters DEF Off
  <2>5. QED
    BY <2>2, <2>3, <2>4 DEF Values
<1>3. ASSUME IsMem(o)
      PROVE  Get(c, o, size) = [j \in 0 .. Size(o) - 1 |-> c.mem[AddrOf(c, o) + j]]
  BY <1>3 DEF Get, IsMem
<1>4. ASSUME IsMem(o), AddrOf(c, o) \in Nat, Size(o) \in Nat, AddrOf(c, o) + Size(o) <= MemSize
      PROVE  Get(c, o, size) \in Values(Size(o))
  <2>1. c.mem \in [Addr -> Bit]
    BY CpuFacts
  <2>2. \A j \in 0 .. Size(o) - 1 : AddrOf(c, o) + j \in Addr
    BY <1>4, Parameters DEF Addr
  <2>3. QED
    BY <1>3, <1>4, <2>1, <2>2 DEF Values
<1>5. QED
  BY <1>1, <1>2, <1>3, <1>4

LEMMA PutFacts ==
    ASSUME NEW c \in Cpus, NEW o, NEW val, \A j \in DOMAIN val : val[j] \in Bit
    PROVE  /\ IsRegister(o) =>
                /\ Put(c, o, val) \in Cpus
                /\ Put(c, o, val) =
                    [reg |-> [r \in Regs |->
                                IF r = o.r
                                THEN Overlay(IF o.v = "d" THEN [j \in Off |-> 0] ELSE c.reg[o.r],
                                             At(o), val)
                                ELSE c.reg[r]],
                     mem |-> c.mem, rsp |-> c.rsp, zf |-> c.zf]
           /\ IsMem(o) =>
                /\ Put(c, o, val) \in Cpus
                /\ Put(c, o, val) =
                    [reg |-> c.reg, mem |-> Overlay(c.mem, AddrOf(c, o), val),
                     rsp |-> c.rsp, zf |-> c.zf]
<1>1. /\ c = [reg |-> c.reg, mem |-> c.mem, rsp |-> c.rsp, zf |-> c.zf]
      /\ c.reg \in [Regs -> [Off -> Bit]] /\ c.mem \in [Addr -> Bit]
      /\ c.rsp \in Int /\ c.zf \in BOOLEAN
  BY CpuFacts
<1>2. ASSUME IsRegister(o)
      PROVE  /\ Put(c, o, val) \in Cpus
             /\ Put(c, o, val) =
                    [reg |-> [r \in Regs |->
                                IF r = o.r
                                THEN Overlay(IF o.v = "d" THEN [j \in Off |-> 0] ELSE c.reg[o.r],
                                             At(o), val)
                                ELSE c.reg[r]],
                     mem |-> c.mem, rsp |-> c.rsp, zf |-> c.zf]
  <2> DEFINE old == IF o.v = "d" THEN [j \in Off |-> 0] ELSE c.reg[o.r]
             new == Overlay(old, At(o), val)
  <2>1. o.k = "reg" /\ o.r \in Regs
    BY <1>2, RegisterFacts
  <2>2. old \in [Off -> Bit]
    BY <1>1, <2>1 DEF Bit
  <2>3. new \in [Off -> Bit]
    <3> HIDE DEF old
    <3>1. QED
      BY <2>2, OverlayFacts
  <2>4. Put(c, o, val) = [c EXCEPT !.reg[o.r] = new]
    BY <2>1 DEF Put
  <2> HIDE DEF new
  <2>5. [c.reg EXCEPT ![o.r] = new] = [r \in Regs |-> IF r = o.r THEN new ELSE c.reg[r]]
    BY <1>1, <2>1
  <2>6. Put(c, o, val) = [reg |-> [c.reg EXCEPT ![o.r] = new],
                          mem |-> c.mem, rsp |-> c.rsp, zf |-> c.zf]
    BY <1>1, <2>4
  <2>7. [r \in Regs |-> IF r = o.r THEN new ELSE c.reg[r]] \in [Regs -> [Off -> Bit]]
    BY <1>1, <2>3
  <2>8. Put(c, o, val) \in Cpus
    <3> DEFINE regs == [r \in Regs |-> IF r = o.r THEN new ELSE c.reg[r]]
    <3> HIDE DEF regs
    <3>1. regs \in [Regs -> [Off -> Bit]]
      BY <2>7 DEF regs
    <3>2. [reg |-> regs, mem |-> c.mem, rsp |-> c.rsp, zf |-> c.zf] \in Cpus
      BY <1>1, <3>1 DEF Cpus
    <3>3. QED
      BY <2>5, <2>6, <3>2 DEF regs
  <2>9. QED
    BY <2>5, <2>6, <2>8 DEF new
<1>3. ASSUME IsMem(o)
      PROVE  /\ Put(c, o, val) \in Cpus
             /\ Put(c, o, val) =
                    [reg |-> c.reg, mem |-> Overlay(c.mem, AddrOf(c, o), val),
                     rsp |-> c.rsp, zf |-> c.zf]
  <2> DEFINE new == Overlay(c.mem, AddrOf(c, o), val)
  <2>1. new \in [Addr -> Bit]
    BY <1>1, OverlayFacts
  <2>2. Put(c, o, val) = [c EXCEPT !.mem = new]
    BY <1>3 DEF Put, IsMem
  <2> HIDE DEF new
  <2>3. Put(c, o, val) = [reg |-> c.reg, mem |-> new, rsp |-> c.rsp, zf |-> c.zf]
    BY <1>1, <2>2
  <2>4. Put(c, o, val) \in Cpus
    BY <1>1, <2>1, <2>3 DEF Cpus
  <2>5. QED
    BY <2>3, <2>4 DEF new
<1>4. QED
  BY <1>2, <1>3

LEMMA StoreFacts ==
    ASSUME NEW m \in VM, NEW o, IsMem(o) \/ o.r \in Regs
    PROVE  StoreIn(m, o) \in Good(Home(o)) /\ Store(o) = StoreIn(vm, o)
<1>1. m.reg \in [Regs -> Good(Off)] /\ m.mem \in Good(Addr)
  BY VMFacts
<1>2. Home(o) = IF IsMem(o) THEN Addr ELSE Off
  BY DEF Home, Room, Addr, Off
<1>3. QED
  BY <1>1, <1>2 DEF StoreIn, Store

LEMMA WithStoreFacts ==
    ASSUME NEW m \in VM, NEW o, IsMem(o) \/ o.r \in Regs, NEW s \in Good(Home(o))
    PROVE  /\ WithStore(m, o, s) \in VM
           /\ WithStore(m, o, s) =
                IF IsMem(o) THEN [reg |-> m.reg, mem |-> s, rsp |-> m.rsp]
                ELSE [reg |-> [r \in Regs |-> IF r = o.r THEN s ELSE m.reg[r]],
                      mem |-> m.mem, rsp |-> m.rsp]
<1>1. /\ m = [reg |-> m.reg, mem |-> m.mem, rsp |-> m.rsp]
      /\ m.reg \in [Regs -> Good(Off)] /\ m.mem \in Good(Addr) /\ m.rsp \in 0 .. MemSize
  BY VMFacts
<1>2. Home(o) = IF IsMem(o) THEN Addr ELSE Off
  BY DEF Home, Room, Addr, Off
<1>3. CASE IsMem(o)
  <2>1. WithStore(m, o, s) = [m EXCEPT !.mem = s]
    BY <1>3 DEF WithStore
  <2>2. WithStore(m, o, s) = [reg |-> m.reg, mem |-> s, rsp |-> m.rsp]
    BY <1>1, <2>1
  <2>3. QED
    BY <1>1, <1>2, <1>3, <2>2 DEF VM
<1>4. CASE ~IsMem(o)
  <2>1. WithStore(m, o, s) = [m EXCEPT !.reg[o.r] = s]
    BY <1>4 DEF WithStore
  <2>2. [m.reg EXCEPT ![o.r] = s] = [r \in Regs |-> IF r = o.r THEN s ELSE m.reg[r]]
    BY <1>1
  <2>3. WithStore(m, o, s) = [reg |-> [m.reg EXCEPT ![o.r] = s], mem |-> m.mem, rsp |-> m.rsp]
    BY <1>1, <2>1
  <2>4. [r \in Regs |-> IF r = o.r THEN s ELSE m.reg[r]] \in [Regs -> Good(Off)]
    BY <1>1, <1>2, <1>4
  <2>5. QED
    BY <1>1, <1>4, <2>2, <2>3, <2>4 DEF VM
<1>5. QED
  BY <1>3, <1>4

LEMMA SetConGood ==
    ASSUME NEW m \in VM, NEW o, IsTarget(o), NEW val, \A j \in DOMAIN val : val[j] \in Bit
    PROVE  setConValue(m, o, val) \in VM
<1>1. IsMem(o) \/ o.r \in Regs
  BY TargetFacts
<1>2. StoreIn(m, o) \in Good(Home(o))
  BY <1>1, StoreFacts
<1>3. WriteCon(StoreIn(m, o), Where(o), ConWhere(o), Size(o), val) \in Good(Home(o))
  BY <1>2, WriteConGood
<1>4. QED
  BY <1>1, <1>3, WithStoreFacts DEF setConValue

LEMMA SetSymGood ==
    ASSUME NEW m \in VM, NEW o, IsTarget(o), Placed(o), NEW e \in Exprs(Size(o))
    PROVE  setSymValue(m, o, e) \in VM
<1>1. IsMem(o) \/ o.r \in Regs
  BY TargetFacts
<1>2. StoreIn(m, o) \in Good(Home(o))
  BY <1>1, StoreFacts
<1>3. WriteExpr(StoreIn(m, o), Where(o), ConWhere(o), Size(o), e) \in Good(Home(o))
  BY <1>2, PlacedFacts, WriteExprGood
<1>4. QED
  BY <1>1, <1>3, WithStoreFacts DEF setSymValue

(* Only the second byte of a register is not where its cells are put.      *)
LEMMA ListBase ==
    ASSUME NEW o, IsTarget(o), ~IsMem(o)
    PROVE  /\ o.v # "h" => Where(o) = 0
           /\ o.v = "h" => Size(o) = 1
<1>1. IsRegister(o) /\ o.k = "reg"
  BY TargetFacts
<1>2. o.v \in {"full", "d", "w", "l", "h"}
  BY <1>1 DEF IsRegister, regIdxToAddrSize
<1>3. Where(o) = regIdxToAddrSize[o.v][1] /\ Size(o) = regIdxToAddrSize[o.v][2]
  BY <1>1 DEF Where, At, Size
<1>4. QED
  BY <1>2, <1>3 DEF regIdxToAddrSize

LEMMA SetListGood ==
    ASSUME NEW m \in VM, NEW o, IsTarget(o), Placed(o), NEW src,
           DOMAIN src.cells \subseteq 0 .. Size(o) - 1,
           \A j \in DOMAIN src.cells : src.cells[j] \in SymBytes,
           \A j \in DOMAIN src.image : src.image[j] \in Bit
    PROVE  setSymList(m, o, src) \in VM
<1> DEFINE base == IF IsMem(o) THEN Where(o) ELSE 0
<1>1. IsMem(o) \/ o.r \in Regs
  BY TargetFacts
<1>2. StoreIn(m, o) \in Good(Home(o))
  BY <1>1, StoreFacts
<1>3. Where(o) \in Int /\ Size(o) \in Nat /\ Home(o) \in SUBSET Int
  BY PlacedFacts
<1>4. base \in Int /\ (base = Where(o) \/ Size(o) = 1)
  BY <1>3, ListBase
<1>5. setSymList(m, o, src) =
        WithStore(m, o, WriteList(StoreIn(m, o), Where(o), ConWhere(o), Size(o), base,
                                  src.cells, src.image))
  BY DEF setSymList
<1> HIDE DEF base
<1>6. WriteList(StoreIn(m, o), Where(o), ConWhere(o), Size(o), base, src.cells, src.image)
        \in Good(Home(o))
  BY <1>2, <1>3, <1>4, WriteListGood
<1>7. QED
  BY <1>1, <1>5, <1>6, WithStoreFacts

LEMMA SumFacts ==
    ASSUME NEW o, o.k = "sum"
    PROVE  Placed(o) /\ Where(o) = 0 /\ ConWhere(o) = 0 /\ Size(o) = Width /\ ~IsMem(o)
BY Parameters DEF Placed, Where, ConWhere, Size, IsMem, Room

(* The bytes that are read from a store for an operand.                    *)
LEMMA ReadFacts ==
    ASSUME vm \in VM, NEW o, Placed(o), IsMem(o) \/ o.r \in Regs
    PROVE  /\ Store(o) \in Good(Home(o))
           /\ \A j \in 0 .. Size(o) - 1 :
                /\ Where(o) + j \in Home(o) /\ ConWhere(o) + j \in Home(o)
                /\ Store(o).content[Where(o) + j] \in SymBytes \cup {NoSym}
                /\ Store(o).con[Where(o) + j] \in Bit /\ Store(o).con[ConWhere(o) + j] \in Bit
<1>1. Store(o) \in Good(Home(o))
  BY StoreFacts
<1>2. \A j \in 0 .. Size(o) - 1 : Where(o) + j \in Home(o) /\ ConWhere(o) + j \in Home(o)
  BY PlacedFacts
<1>3. /\ Store(o).content \in [Home(o) -> SymBytes \cup {NoSym}]
      /\ Store(o).con \in [Home(o) -> Bit]
  BY <1>1, GoodFacts
<1>4. QED
  BY <1>1, <1>2, <1>3

LEMMA ListFacts ==
    ASSUME vm \in VM, NEW o, Placed(o), IsMem(o) \/ o.r \in Regs
    PROVE  LET cells == CellsOf(Store(o), Where(o), Size(o))
               image == ImageOf(Store(o), ConWhere(o), Size(o))
           IN  /\ cells = [j \in { k \in 0 .. Size(o) - 1 : Store(o).content[Where(o) + k] # NoSym } |->
                                Store(o).content[Where(o) + j]]
               /\ image = [j \in 0 .. Size(o) - 1 |-> Store(o).con[ConWhere(o) + j]]
               /\ DOMAIN cells \subseteq 0 .. Size(o) - 1
               /\ \A j \in DOMAIN cells : cells[j] \in SymBytes
               /\ image \in Values(Size(o))
               /\ \A j \in DOMAIN image : image[j] \in Bit
<1>1. \A j \in 0 .. Size(o) - 1 :
                /\ Store(o).content[Where(o) + j] \in SymBytes \cup {NoSym}
                /\ Store(o).con[ConWhere(o) + j] \in Bit
  BY ReadFacts
<1>2. QED
  BY <1>1 DEF CellsOf, ImageOf, Values

(* The bytes of an operand that GetExpr finds, or fills in.                *)
Found(o, w) ==
    [j \in 0 .. Size(o) - 1 |->
        IF Store(o).content[Where(o) + j] # NoSym THEN Store(o).content[Where(o) + j].val[w]
        ELSE Store(o).con[ConWhere(o) + j]]

LEMMA SymValueFacts ==
    ASSUME vm \in VM, NEW o, Placed(o), IsMem(o) \/ o.r \in Regs
    PROVE  /\ o.k = "sum" =>
                /\ getSymValue(o) \in Exprs(Width)
                /\ \A w \in Worlds :
                    ValueIn(getSymValue(o), w) = Word(Num(Found(o, w)) + o.c, Width)
           /\ o.k # "sum" =>
                /\ getSymValue(o) \in Exprs(Size(o))
                /\ \A w \in Worlds : ValueIn(getSymValue(o), w) = Found(o, w)
           /\ \A w \in Worlds : Found(o, w) \in Values(Size(o))
<1> DEFINE b == OpdFails(o)
           f == [w \in Worlds |-> Found(o, w)]
           e == Built(Size(o), f, b)
           g == [w \in Worlds |-> Word(Num(Found(o, w)) + o.c, Width)]
           h == Built(Width, g, b)
<1>1. \A j \in 0 .. Size(o) - 1 :
                /\ Store(o).content[Where(o) + j] \in SymBytes \cup {NoSym}
                /\ Store(o).con[ConWhere(o) + j] \in Bit
  BY ReadFacts
<1>2. \A w \in Worlds : Found(o, w) \in Values(Size(o))
  BY <1>1 DEF Found, Values, SymBytes
<1>3. b \in BOOLEAN
  <2>1. \A a \in Span(Where(o), Size(o)) :
            Store(o).content[a] # NoSym => Store(o).content[a].fails \in BOOLEAN
    <3>1. Store(o) \in Good(Home(o)) /\ Span(Where(o), Size(o)) \subseteq Home(o)
      BY ReadFacts, PlacedFacts
    <3>2. Store(o).content \in [Home(o) -> SymBytes \cup {NoSym}]
      BY <3>1, GoodFacts
    <3>3. QED
      BY <3>1, <3>2 DEF SymBytes
  <2>2. QED
    BY <2>1 DEF OpdFails
<1>4. f \in [Worlds -> Values(Size(o))] /\ g \in [Worlds -> Values(Width)]
  BY <1>2, WordFacts
<1>5. e = Expr(Size(o), b, LAMBDA w : Found(o, w))
  BY DEF Expr, Built
<1> HIDE DEF b
<1>6. e \in Exprs(Size(o)) /\ \A w \in Worlds : ValueIn(e, w) = Found(o, w)
  <2> HIDE DEF f
  <2>1. e \in Exprs(Size(o)) /\ \A w \in Worlds : ValueIn(e, w) = f[w]
    BY <1>3, <1>4, FromWorlds
  <2>2. QED
    BY <2>1 DEF f
<1>7. getSymValue(o) = IF o.k = "sum"
        THEN Expr(Width, b, LAMBDA w : Word(Num(ValueIn(e, w)) + o.c, Width)) ELSE e
  BY DEF getSymValue, Expr, Built, Found, b
<1>8. CASE o.k = "sum"
  <2>1. getSymValue(o) = h
    BY <1>6, <1>7, <1>8 DEF Expr, Built
  <2>2. h \in Exprs(Width) /\ \A w \in Worlds : ValueIn(h, w) = g[w]
    <3> HIDE DEF g
    <3>1. QED
      BY <1>3, <1>4, FromWorlds
  <2>3. QED
    BY <1>2, <1>8, <2>1, <2>2
<1>9. QED
  BY <1>2, <1>6, <1>7, <1>8

LEMMA HostGet ==
    ASSUME IInv, NEW o, NEW size
    PROVE  /\ o.k \in {"imm", "sum"} => Get(HostCpu, o, size) \in Values(size)
           /\ IsTarget(o) /\ Placed(o) =>
                /\ Get(HostCpu, o, size) \in Values(Size(o))
                /\ Get(HostCpu, o, size) = [j \in 0 .. Size(o) - 1 |-> Store(o).con[Where(o) + j]]
<1>1. HostCpu \in Cpus
  BY CpusTyped
<1>2. ASSUME IsTarget(o), Placed(o)
      PROVE  /\ Get(HostCpu, o, size) \in Values(Size(o))
             /\ Get(HostCpu, o, size) = [j \in 0 .. Size(o) - 1 |-> Store(o).con[Where(o) + j]]
  <2>1. CASE IsMem(o)
    <3>1. Where(o) = AddrOf(HostCpu, o) /\ Store(o) = vm.mem
      BY <2>1 DEF Where, Store, IsMem
    <3>2. Where(o) \in Nat /\ Size(o) \in Nat /\ Where(o) + Size(o) <= MemSize
      BY <1>2, <2>1, Parameters DEF Placed, Room
    <3>3. HostCpu.mem = vm.mem.con
      BY DEF HostCpu
    <3>4. Get(HostCpu, o, size) \in Values(Size(o))
      BY <1>1, <2>1, <3>1, <3>2, GetFacts
    <3>5. Get(HostCpu, o, size) = [j \in 0 .. Size(o) - 1 |-> HostCpu.mem[AddrOf(HostCpu, o) + j]]
      BY <1>1, <2>1, GetFacts
    <3>6. QED
      BY <3>1, <3>3, <3>4, <3>5
  <2>2. CASE ~IsMem(o)
    <3>1. IsRegister(o) /\ o.k = "reg" /\ o.r \in Regs
      BY <1>2, <2>2, TargetFacts
    <3>2. Where(o) = At(o) /\ Store(o) = vm.reg[o.r]
      BY <2>2, <3>1 DEF Where, Store
    <3>3. HostCpu.reg[o.r] = vm.reg[o.r].con
      BY <3>1 DEF HostCpu
    <3>4. /\ Get(HostCpu, o, size) = [j \in 0 .. Size(o) - 1 |-> HostCpu.reg[o.r][At(o) + j]]
          /\ Get(HostCpu, o, size) \in Values(Size(o))
      BY <1>1, <3>1, GetFacts
    <3>5. QED
      BY <3>2, <3>3, <3>4
  <2>3. QED
    BY <2>1, <2>2
<1>3. QED
  BY <1>1, <1>2, GetFacts

(***************************************************************************)
(* getConValue of an operand as wide as asked for is its concrete value, of *)
(* a byte register the one in its second byte.                             *)
(***************************************************************************)
LEMMA ConValueFacts ==
    ASSUME IInv, NEW o, NEW size \in 1 .. 2 * Width
    PROVE  /\ o.k \in {"imm", "sum"} =>
                /\ getConValue(o, size) \in Values(size)
                /\ getConValue(o, size) = Get(HostCpu, o, size)
           /\ IsTarget(o) /\ Placed(o) =>
                /\ getConValue(o, size) \in Values(size)
                /\ size = Size(o) =>
                    getConValue(o, size) = [j \in 0 .. size - 1 |-> Store(o).con[ConWhere(o) + j]]
                /\ ConWhere(o) = Where(o) =>
                    getConValue(o, size) = (IF o.k = "reg" THEN SExt(Get(HostCpu, o, size), size)
                                            ELSE ZExt(Get(HostCpu, o, size), size))
<1> DEFINE v == Get(HostCpu, o, size)
           image == ImageOf(Store(o), ConWhere(o), Size(o))
<1>1. size \in Nat
  BY Parameters
<1>2. getConValue(o, size) = IF o.k = "reg" THEN SExt(image, size) ELSE ZExt(v, size)
  BY DEF getConValue
<1>3. ASSUME o.k \in {"imm", "sum"}
      PROVE  getConValue(o, size) \in Values(size) /\ getConValue(o, size) = v
  <2>1. v \in Values(size)
    BY <1>3, HostGet
  <2> HIDE DEF v
  <2>2. QED
    BY <1>1, <1>2, <1>3, <2>1, ZExtFacts
<1>4. ASSUME IsTarget(o), Placed(o)
      PROVE  /\ getConValue(o, size) \in Values(size)
             /\ size = Size(o) =>
                    getConValue(o, size) = [j \in 0 .. size - 1 |-> Store(o).con[ConWhere(o) + j]]
             /\ ConWhere(o) = Where(o) =>
                    getConValue(o, size) = IF o.k = "reg" THEN SExt(v, size) ELSE ZExt(v, size)
  <2>1. v \in Values(Size(o)) /\ v = [j \in 0 .. Size(o) - 1 |-> Store(o).con[Where(o) + j]]
    BY <1>4, HostGet
  <2>2. Size(o) \in 1 .. 2 * Width
    BY <1>4, Parameters DEF Placed
  <2>3. image \in Values(Size(o)) /\ image = [j \in 0 .. Size(o) - 1 |-> Store(o).con[ConWhere(o) + j]]
    <3>1. vm \in VM /\ (IsMem(o) \/ o.r \in Regs)
      BY <1>4, TargetFacts, InvFacts
    <3>2. QED
      BY <1>4, <3>1, ListFacts
  <2>4. o.k # "reg" => ConWhere(o) = Where(o)
    BY <1>4, ConPlaced
  <2>5. ConWhere(o) = Where(o) => image = v
    BY <2>1, <2>3
  <2> HIDE DEF v, image
  <2>6. SExt(image, size) \in Values(size) /\ ZExt(v, size) \in Values(size)
    BY <1>1, <2>1, <2>2, <2>3, ZExtFacts, SExtFacts
  <2>7. size = Size(o) => SExt(image, size) = image /\ ZExt(v, size) = v
    BY <1>1, <2>1, <2>2, <2>3, ZExtFacts, SExtFacts
  <2>8. size = Size(o) => getConValue(o, size) = image
    BY <1>2, <2>4, <2>5, <2>7
  <2>9. QED
    BY <1>2, <2>3, <2>5, <2>6, <2>8
<1>5. QED
  BY <1>3, <1>4

-----------------------------------------------------------------------------
(* An instruction whose addresses are concrete, in range in every world.   *)

Ready(i) ==
    i \in Insns /\ ~SymAddr(i) /\ ~NoRegister(i) /\ \A w \in path : Runs(CpuIn(w), i)

LEMMA FormFacts ==
    ASSUME NEW i, WellFormed(i)
    PROVE  /\ ~(IsMem(i.dst) /\ IsMem(i.src))
           /\ i.op \in {"mov", "cmov"} =>
                /\ IsTarget(i.dst) /\ IsSource(i.src)
                /\ i.src.k = "imm" \/ Size(i.src) = Size(i.dst)
           /\ i.op = "cmov" => IsRegister(i.dst) /\ IsTarget(i.src)
           /\ i.op \in {"movzx", "movsx"} =>
                IsRegister(i.dst) /\ IsTarget(i.src) /\ Size(i.src) <= Size(i.dst)
           /\ i.op = "lea"  => /\ IsRegister(i.dst) /\ Size(i.dst) = Width
                               /\ i.src.k = "sum" /\ i.src.r \in Regs
           /\ i.op = "xchg" =>
                /\ IsTarget(i.dst) /\ IsTarget(i.src) /\ Size(i.src) = Size(i.dst)
                /\ i.dst.k = "reg" /\ i.src.k = "reg" => (i.dst.v = "d" <=> i.src.v = "d")
           /\ i.op = "set"  => IsTarget(i.dst) /\ i.src.k = "none"
           /\ i.op = "push" => i.dst.k = "none" /\ IsSource(i.src) /\ Size(i.src) = Width
           /\ i.op = "pop"  => IsTarget(i.dst) /\ Size(i.dst) = Width /\ i.src.k = "none"
           /\ i.op = "cbw" => i.dst = Acc /\ i.src.k = "none"
           /\ i.op = "cdq" => i.dst = Ext /\ i.src.k = "none"
           /\ i.op \in {"mul", "idiv"} => i.dst = Acc /\ IsTarget(i.src) /\ Size(i.src) = Width
           /\ i.op \in Binary =>
                /\ IsTarget(i.dst) /\ IsSource(i.src)
                /\ i.src.k = "imm" \/ Size(i.src) = Size(i.dst) \/ i.op \in Shifts
           /\ i.op \in Unary => IsTarget(i.dst) /\ i.src.k = "none"
           /\ i.op \in {"mov", "cmov", "movzx", "movsx", "lea", "xchg", "set", "push", "pop",
                        "cbw", "cdq", "mul", "idiv"} \cup Binary \cup Unary
BY DEF WellFormed, Binary, Unary, IsMem

LEMMA RegisterIsTarget ==
    ASSUME NEW o, IsRegister(o)
    PROVE  IsTarget(o) /\ ~IsMem(o) /\ Placed(o) /\ Where(o) = At(o) /\ Reachable(o)
<1>1. IsTarget(o) /\ ~IsMem(o) /\ Reachable(o)
  BY RegisterFacts DEF IsTarget, IsMem, Reachable
<1>2. QED
  BY <1>1, RegisterFacts, TargetPlaced DEF Where

(* A register that is used as an address has no symbolic byte.             *)
LEMMA AddressConcrete ==
    ASSUME vm \in VM, NEW r \in Regs, ~IsSym(vm.reg[r], 0, Width), NEW w \in Worlds
    PROVE  BytesIn(vm.reg[r], w) = vm.reg[r].con
<1>1. vm.reg[r] \in Good(Off)
  BY VMFacts
<1>2. vm.reg[r].marked \subseteq Off /\ vm.reg[r].con \in [Off -> Bit]
  BY <1>1, GoodFacts
<1>3. Span(0, Width) = Off
  BY Parameters DEF Span, Off
<1>4. vm.reg[r].marked = {}
  BY <1>2, <1>3 DEF IsSym
<1>5. BytesIn(vm.reg[r], w) = [o \in Off |-> vm.reg[r].con[o]]
  BY <1>2, <1>4 DEF BytesIn
<1>6. QED
  BY <1>2, <1>5

LEMMA ReadyFacts ==
    ASSUME IInv, NEW i, Ready(i)
    PROVE  /\ WellFormed(i)
           /\ \A o \in {i.dst, i.src} :
                IsTarget(o) =>
                    /\ Placed(o)
                    /\ IsMem(o) => \A w \in path : AddrOf(CpuIn(w), o) = Where(o)
           /\ i.op = "push" => vm.rsp >= Width
           /\ i.op = "pop"  => vm.rsp + Width <= MemSize
<1>1. WellFormed(i)
  BY SymExecAssumption DEF Ready
<1>2. vm \in VM /\ path \subseteq Worlds /\ Seed \in path
  BY InvFacts
<1>3. Runs(CpuIn(Seed), i) /\ CpuIn(Seed).rsp = vm.rsp
  BY <1>2 DEF Ready, CpuIn
<1>4. ASSUME NEW o \in {i.dst, i.src}, IsTarget(o), NEW w \in path, IsMem(o)
      PROVE  /\ AddrOf(CpuIn(w), o) = Where(o)
             /\ AddrOf(HostCpu, o) = Where(o)
  <2>1. CASE o.k = "mem"
    BY <2>1 DEF AddrOf, Where
  <2>2. CASE o.k = "ind"
    <3>1. o.r \in Regs
      BY <1>4, <2>2, TargetFacts
    <3>2. ~IsSym(vm.reg[o.r], 0, Width)
      BY <2>2 DEF Ready, SymAddr
    <3>3. BytesIn(vm.reg[o.r], w) = vm.reg[o.r].con
      BY <1>2, <3>1, <3>2, AddressConcrete
    <3>4. CpuIn(w).reg[o.r] = HostCpu.reg[o.r]
      BY <3>1, <3>3 DEF CpuIn, HostCpu
    <3>5. QED
      BY <2>2, <3>4 DEF AddrOf, Where
  <2>3. QED
    BY <1>4, <2>1, <2>2 DEF IsMem
<1>5. ASSUME NEW o \in {i.dst, i.src}, IsTarget(o)
      PROVE  Placed(o)
  <2>1. ASSUME o.k = "ind" PROVE AddrOf(HostCpu, o) \in 0 .. MemSize - o.n
    <3>1. AddrOf(CpuIn(Seed), o) \in 0 .. MemSize - o.n
      BY <1>3, <2>1 DEF Runs
    <3>2. IsMem(o)
      BY <2>1 DEF IsMem
    <3>3. QED
      BY <1>2, <1>4, <1>5, <3>1, <3>2
  <2>2. QED
    BY <1>5, <2>1, TargetPlaced DEF Reachable
<1>6. (i.op = "push" => vm.rsp >= Width) /\ (i.op = "pop"  => vm.rsp + Width <= MemSize)
  BY <1>3 DEF Runs
<1>7. QED
  BY <1>1, <1>4, <1>5, <1>6

(* A value that a handler combines from both kinds of operands.            *)
LEMMA MixedFacts ==
    ASSUME IInv, NEW i, NEW o, NEW size \in 1 .. Width, NEW w \in Worlds,
           \/ o.k = "imm"
           \/ IsTarget(o) /\ Placed(o) /\ size = Size(o)
    PROVE  Mixed(i, o, size, w) \in Values(size)
<1>1. vm \in VM /\ size \in 1 .. 2 * Width
  BY InvFacts, Parameters
<1>2. CASE o.k = "imm"
  <2>1. symb(i, o) = FALSE
    BY <1>2 DEF symb, IsMem, mayOperandUseSymbol_XX
  <2>2. QED
    BY <1>1, <1>2, <2>1, ConValueFacts DEF Mixed
<1>3. CASE IsTarget(o) /\ Placed(o) /\ size = Size(o)
  <2>1. (IsMem(o) \/ o.r \in Regs) /\ o.k # "sum"
    BY <1>3, TargetFacts
  <2>2. getSymValue(o) \in Exprs(size)
    BY <1>1, <1>3, <2>1, SymValueFacts
  <2>3. ValueIn(getSymValue(o), w) \in Values(size)
    BY <2>2, ValueInFacts
  <2>4. getConValue(o, size) \in Values(size)
    BY <1>1, <1>3, ConValueFacts
  <2>5. QED
    BY <2>3, <2>4 DEF Mixed
<1>4. QED
  BY <1>2, <1>3

SecondOf(i, w) == IF i.op \in Unary THEN <<>> ELSE Mixed(i, i.src, SrcSize(i), w)

LEMMA CombinedFacts ==
    ASSUME IInv, NEW i, Ready(i), i.op \in Binary \cup Unary
    PROVE  /\ Combined(i) \in Exprs(Size(i.dst))
           /\ \A w \in Worlds :
                ValueIn(Combined(i), w) = Alu(i.op, Mixed(i, i.dst, Size(i.dst), w), SecondOf(i, w))
<1> DEFINE size == Size(i.dst)
           val(w) == Alu(i.op, Mixed(i, i.dst, size, w), SecondOf(i, w))
           f == [w \in Worlds |-> val(w)]
           b == WidthsDiffer(i) \/ MixedFails(i)
           e == Built(size, f, b)
<1>1. WellFormed(i)
  BY ReadyFacts
<1>2. IsTarget(i.dst) /\ Placed(i.dst) /\ size \in 1 .. Width
  BY <1>1, FormFacts, ReadyFacts, TargetFacts
<1>3. \A w \in Worlds : Mixed(i, i.dst, size, w) \in Values(size)
  BY <1>2, MixedFacts
<1>4. ASSUME NEW w \in Worlds, i.op \in {"and", "test", "or", "xor"}
      PROVE  SecondOf(i, w) \in Values(size)
  <2>1. i.op \in Binary /\ i.op \notin Unary /\ i.op \notin Shifts
    BY <1>4 DEF Binary, Unary, Shifts
  <2>2. IsSource(i.src) /\ (i.src.k = "imm" \/ Size(i.src) = size)
    BY <1>1, <2>1, FormFacts
  <2>3. SrcSize(i) = size
    BY <2>2 DEF SrcSize
  <2>4. i.src.k = "imm" \/ (IsTarget(i.src) /\ Placed(i.src) /\ size = Size(i.src))
    BY <2>2, ReadyFacts DEF IsSource
  <2>5. Mixed(i, i.src, size, w) \in Values(size)
    BY <1>2, <2>4, MixedFacts
  <2>6. QED
    BY <2>1, <2>3, <2>5 DEF SecondOf
<1>5. \A w \in Worlds : val(w) \in Values(size)
  BY <1>2, <1>3, <1>4, AluFacts
<1>6. Combined(i) = e
  BY DEF Combined, Expr, SecondOf, Built
<1>7. f \in [Worlds -> Values(size)] /\ \A w \in Worlds : f[w] = val(w)
  BY <1>5
<1>10. b \in BOOLEAN
  OBVIOUS
<1> HIDE DEF val, size, f, b
<1>8. e \in Exprs(size) /\ \A w \in Worlds : ValueIn(e, w) = f[w]
  BY <1>7, <1>10, FromWorlds
<1>9. QED
  BY <1>6, <1>7, <1>8 DEF val, size

-----------------------------------------------------------------------------
(* One instruction on the machine                                          *)

(* The bits of a value, in the form the writes ask for.                    *)
LEMMA ValueBits ==
    ASSUME NEW size, NEW v \in Values(size)
    PROVE  \A j \in DOMAIN v : v[j] \in Bit
BY DEF Values

(* The upper half of a value that was extended to two words.               *)
LEMMA UpperFacts ==
    ASSUME NEW v \in Values(Width)
    PROVE  Half(SExt(v, 2 * Width), Width) \in Values(Width)
<1>1. Width \in 1 .. Width /\ Width \in 1 .. 2 * Width /\ 2 * Width \in Nat
  BY Parameters
<1>2. SExt(v, 2 * Width) \in Values(2 * Width)
  BY <1>1, SExtFacts
<1>3. QED
  BY <1>1, <1>2, HalfFacts

LEMMA ExecIs ==
    ASSUME NEW s, NEW i, NEW size, NEW a, NEW b,
           size = Size(IF i.op = "push" THEN i.src ELSE i.dst),
           a = Get(s, i.dst, size), b = Get(s, i.src, size)
    PROVE  /\ i.op \in {"mov", "lea"} => Exec(s, i) = Put(s, i.dst, b)
           /\ i.op = "movzx" => Exec(s, i) = Put(s, i.dst, ZExt(b, size))
           /\ i.op = "movsx" => Exec(s, i) = Put(s, i.dst, SExt(b, size))
           /\ i.op = "xchg"  => Exec(s, i) = Put(Put(s, i.dst, b), Resolved(s, i.src), a)
           /\ i.op = "cmov"  => Exec(s, i) = Put(s, i.dst, IF s.zf THEN b ELSE a)
           /\ i.op = "set"   => Exec(s, i) = Put(s, i.dst, Word(IF s.zf THEN 1 ELSE 0, size))
           /\ i.op = "push"  =>
                Exec(s, i) = [Put(s, Slot(s.rsp - Width), b) EXCEPT !.rsp = @ - Width]
           /\ i.op = "pop"   =>
                Exec(s, i) = [Put(s, i.dst, Get(s, Slot(s.rsp), Width)) EXCEPT !.rsp = @ + Width]
           /\ i.op = "cbw"   => Exec(s, i) = Put(s, Acc, SExt(Half(Get(s, Acc, Width), 0), Width))
           /\ i.op = "cdq"   =>
                Exec(s, i) = Put(s, Ext, Half(SExt(Get(s, Acc, Width), 2 * Width), Width))
           /\ i.op = "mul"   =>
                Exec(s, i) =
                  Put(Put(s, Acc, Half(Word(Num(Get(s, Acc, Width)) * Num(b), 2 * Width), 0)),
                      Ext, Half(Word(Num(Get(s, Acc, Width)) * Num(b), 2 * Width), Width))
           /\ i.op = "idiv"  =>
                Exec(s, i) =
                  Put(Put(s, Acc, Word(Quotient(Signed(Joined(Get(s, Ext, Width), Get(s, Acc, Width))),
                                                Signed(b)), Width)),
                      Ext, Word(Remainder(Signed(Joined(Get(s, Ext, Width), Get(s, Acc, Width))),
                                          Signed(b)), Width))
           /\ i.op \in Binary \cup Unary =>
                LET v == Alu(i.op, a, IF i.op \in Unary THEN a ELSE b)
                    t == IF i.op \in OnlyFlags THEN s ELSE Put(s, i.dst, v)
                IN  Exec(s, i) = IF i.op # "not" THEN [t EXCEPT !.zf = (Num(v) = 0)] ELSE t
<1>1. i.op \in {"mov", "lea"} => Exec(s, i) = Put(s, i.dst, b)
  BY DEF Exec, Binary, Unary
<1>2. i.op = "movzx" => Exec(s, i) = Put(s, i.dst, ZExt(b, size))
  BY DEF Exec, Binary, Unary
<1>3. i.op = "movsx" => Exec(s, i) = Put(s, i.dst, SExt(b, size))
  BY DEF Exec, Binary, Unary
<1>4. i.op = "xchg"  => Exec(s, i) = Put(Put(s, i.dst, b), Resolved(s, i.src), a)
  BY DEF Exec, Binary, Unary
<1>5. i.op = "cmov"  => Exec(s, i) = Put(s, i.dst, IF s.zf THEN b ELSE a)
  BY DEF Exec, Binary, Unary
<1>6. i.op = "set"   => Exec(s, i) = Put(s, i.dst, Word(IF s.zf THEN 1 ELSE 0, size))
  BY DEF Exec, Binary, Unary
<1>7. i.op = "push"  =>
                Exec(s, i) = [Put(s, Slot(s.rsp - Width), b) EXCEPT !.rsp = @ - Width]
  BY DEF Exec, Binary, Unary
<1>8. i.op = "pop"   =>
                Exec(s, i) = [Put(s, i.dst, Get(s, Slot(s.rsp), Width)) EXCEPT !.rsp = @ + Width]
  BY DEF Exec, Binary, Unary
<1>9. i.op = "cbw"   => Exec(s, i) = Put(s, Acc, SExt(Half(Get(s, Acc, Width), 0), Width))
  BY DEF Exec, Binary, Unary
<1>10. i.op = "cdq"   =>
                Exec(s, i) = Put(s, Ext, Half(SExt(Get(s, Acc, Width), 2 * Width), Width))
  BY DEF Exec, Binary, Unary
<1>11. i.op = "mul"   =>
                Exec(s, i) =
                  Put(Put(s, Acc, Half(Word(Num(Get(s, Acc, Width)) * Num(b), 2 * Width), 0)),
                      Ext, Half(Word(Num(Get(s, Acc, Width)) * Num(b), 2 * Width), Width))
  BY DEF Exec, Binary, Unary
<1>12. i.op = "idiv"  =>
                Exec(s, i) =
                  Put(Put(s, Acc, Word(Quotient(Signed(Joined(Get(s, Ext, Width), Get(s, Acc, Width))),
                                                Signed(b)), Width)),
                      Ext, Word(Remainder(Signed(Joined(Get(s, Ext, Width), Get(s, Acc, Width))),
                                          Signed(b)), Width))
  BY DEF Exec, Binary, Unary
<1>13. i.op \in Binary \cup Unary =>
                LET v == Alu(i.op, a, IF i.op \in Unary THEN a ELSE b)
                    t == IF i.op \in OnlyFlags THEN s ELSE Put(s, i.dst, v)
                IN  Exec(s, i) = IF i.op # "not" THEN [t EXCEPT !.zf = (Num(v) = 0)] ELSE t
  <2>1. i.op \in Binary \cup Unary =>
            /\ i.op \notin {"mov", "lea", "movzx", "movsx", "xchg", "cmov", "set", "push", "pop",
                            "cbw", "cdq", "mul", "idiv"}
            /\ SetsFlags(i.op) <=> i.op # "not"
    BY DEF Binary, Unary, SetsFlags
  <2>2. QED
    BY <2>1 DEF Exec
<1>14. QED
  BY <1>1, <1>2, <1>3, <1>4, <1>5, <1>6, <1>7, <1>8, <1>9, <1>10, <1>11, <1>12, <1>13

(* An operand that the machine state c can read and write.                 *)
Usable(c, o) ==
    /\ IsTarget(o)
    /\ IsMem(o) => AddrOf(c, o) \in Nat /\ AddrOf(c, o) + Size(o) <= MemSize

Fits(c, i) ==
    /\ WellFormed(i)
    /\ \A o \in {i.dst, i.src} : IsTarget(o) => Usable(c, o)
    /\ c.rsp \in 0 .. MemSize
    /\ i.op = "push" => c.rsp >= Width
    /\ i.op = "pop"  => c.rsp + Width <= MemSize

LEMMA GetTyped ==
    ASSUME NEW c \in Cpus, NEW o, NEW size,
           \/ o.k \in {"imm", "sum"}
           \/ Usable(c, o) /\ Size(o) = size
    PROVE  Get(c, o, size) \in Values(size)
<1>1. CASE o.k \in {"imm", "sum"}
  BY <1>1, GetFacts
<1>2. CASE Usable(c, o) /\ Size(o) = size
  <2>1. IsTarget(o) /\ Size(o) \in Nat /\ (IsMem(o) \/ IsRegister(o))
    BY <1>2, TargetFacts, Parameters DEF Usable
  <2>2. QED
    BY <1>2, <2>1, GetFacts DEF Usable
<1>3. QED
  BY <1>1, <1>2

LEMMA PutTyped ==
    ASSUME NEW c \in Cpus, NEW o, IsRegister(o) \/ IsMem(o), NEW size, NEW val \in Values(size)
    PROVE  /\ Put(c, o, val) \in Cpus
           /\ Put(c, o, val).rsp = c.rsp /\ Put(c, o, val).zf = c.zf
<1>1. \A j \in DOMAIN val : val[j] \in Bit
  BY ValueBits
<1>2. QED
  BY <1>1, PutFacts

LEMMA ExecTyped ==
    ASSUME NEW c \in Cpus, NEW i, Fits(c, i)
    PROVE  Exec(c, i) \in Cpus /\ Exec(c, i).rsp \in 0 .. MemSize
<1> DEFINE size == Size(IF i.op = "push" THEN i.src ELSE i.dst)
           a == Get(c, i.dst, size)
           b == Get(c, i.src, size)
           acc == Get(c, Acc, Width)
           ext == Get(c, Ext, Width)
<1>1. /\ WellFormed(i) /\ c.rsp \in 0 .. MemSize
      /\ Width \in 1 .. Width /\ Width \in 1 .. 2 * Width
  BY Parameters DEF Fits
<1>2. /\ \A o : IsTarget(o) => IsRegister(o) \/ IsMem(o)
      /\ \A o : IsTarget(o) => Size(o) \in 1 .. Width
      /\ \A o : IsRegister(o) => IsTarget(o)
  BY TargetFacts, RegisterIsTarget
<1>3. /\ IsTarget(i.dst) => Usable(c, i.dst)
      /\ IsTarget(i.src) => Usable(c, i.src)
  BY DEF Fits
<1>4. acc \in Values(Width) /\ ext \in Values(Width) /\ IsRegister(Acc) /\ IsRegister(Ext)
  <2>1. Usable(c, Acc) /\ Usable(c, Ext)
    BY AccFacts, RegisterIsTarget DEF Usable
  <2>2. QED
    BY <2>1, AccFacts, GetTyped
<1>5. CASE i.op \in {"mov", "lea", "xchg", "cmov"}
  <2>1. /\ IsTarget(i.dst) /\ size = Size(i.dst)
        /\ i.src.k \in {"imm", "sum"} \/ (IsTarget(i.src) /\ Size(i.src) = size)
    BY <1>1, <1>2, <1>5, FormFacts DEF IsSource
  <2>2. b \in Values(size)
    BY <1>3, <2>1, GetTyped
  <2>3. a \in Values(size)
    BY <1>3, <2>1, GetTyped
  <2>4. CASE i.op \in {"mov", "lea"}
    BY <1>1, <1>2, <2>1, <2>2, <2>4, ExecIs, PutTyped
  <2>5. CASE i.op = "cmov"
    <3>1. (IF c.zf THEN b ELSE a) \in Values(size)
      BY <2>2, <2>3
    <3>2. QED
      BY <1>1, <1>2, <2>1, <2>5, <3>1, ExecIs, PutTyped
  <2>6. CASE i.op = "xchg"
    <3>1. Put(c, i.dst, b) \in Cpus /\ Put(c, i.dst, b).rsp = c.rsp
      BY <1>2, <2>1, <2>2, PutTyped
    <3>2. IsTarget(i.src)
      BY <1>1, <2>6, FormFacts
    <3>3. IsRegister(Resolved(c, i.src)) \/ IsMem(Resolved(c, i.src))
      BY <1>2, <3>2 DEF Resolved, IsMem
    <3>4. QED
      BY <1>1, <2>3, <2>6, <3>1, <3>3, ExecIs, PutTyped
  <2>7. QED
    BY <1>5, <2>4, <2>5, <2>6
<1>6. CASE i.op \in {"movzx", "movsx", "set"}
  <2>1. IsTarget(i.dst) /\ size = Size(i.dst) /\ size \in Nat
    BY <1>1, <1>2, <1>6, FormFacts, Parameters
  <2>2. CASE i.op = "set"
    BY <1>1, <1>2, <2>1, <2>2, ExecIs, PutTyped, WordFacts
  <2>3. CASE i.op \in {"movzx", "movsx"}
    <3>1. IsTarget(i.src) /\ Size(i.src) \in 1 .. 2 * Width
      BY <1>1, <1>2, <2>3, FormFacts, Parameters
    <3>2. b \in Values(Size(i.src))
      <4>1. IsMem(i.src) \/ IsRegister(i.src)
        BY <1>2, <3>1
      <4>2. QED
        BY <1>3, <3>1, <4>1, GetFacts DEF Usable
    <3>3. ZExt(b, size) \in Values(size) /\ SExt(b, size) \in Values(size)
      <4> HIDE DEF b, size
      <4>1. QED
        BY <2>1, <3>1, <3>2, ZExtFacts, SExtFacts
    <3>4. QED
      BY <1>1, <1>2, <2>1, <2>3, <3>3, ExecIs, PutTyped
  <2>4. QED
    BY <1>6, <2>2, <2>3
<1>7. CASE i.op = "push"
  <2>1. IsSource(i.src) /\ size = Size(i.src) /\ size = Width
    BY <1>1, <1>7, FormFacts
  <2>2. b \in Values(Width)
    BY <1>3, <2>1, GetTyped DEF IsSource
  <2>3. IsMem(Slot(c.rsp - Width))
    BY DEF IsMem, Slot
  <2> DEFINE t == Put(c, Slot(c.rsp - Width), b)
  <2>4. t \in Cpus /\ t.rsp = c.rsp
    BY <2>2, <2>3, PutTyped
  <2>5. Exec(c, i) = [t EXCEPT !.rsp = c.rsp - Width]
    BY <1>7, <2>4, ExecIs
  <2> HIDE DEF t
  <2>6. c.rsp - Width \in 0 .. MemSize
    BY <1>1, <1>7, Parameters DEF Fits
  <2>7. Exec(c, i) = [reg |-> t.reg, mem |-> t.mem, rsp |-> c.rsp - Width, zf |-> t.zf]
    BY <2>4, <2>5, CpuFacts
  <2>8. QED
    BY <2>4, <2>6, <2>7, CpuFacts
<1>8. CASE i.op = "pop"
  <2>1. IsTarget(i.dst)
    BY <1>1, <1>8, FormFacts
  <2>2. Get(c, Slot(c.rsp), Width) \in Values(Width)
    <3>1. c.rsp \in Nat /\ c.rsp + Width <= MemSize
      BY <1>1, <1>8 DEF Fits
    <3>2. IsTarget(Slot(c.rsp)) /\ Size(Slot(c.rsp)) = Width /\ AddrOf(c, Slot(c.rsp)) = c.rsp
      BY <3>1, SlotPlaced DEF AddrOf
    <3>3. QED
      BY <3>1, <3>2, GetTyped DEF Usable
  <2> DEFINE t == Put(c, i.dst, Get(c, Slot(c.rsp), Width))
  <2>3. t \in Cpus /\ t.rsp = c.rsp
    BY <1>2, <2>1, <2>2, PutTyped
  <2>4. Exec(c, i) = [t EXCEPT !.rsp = c.rsp + Width]
    BY <1>8, <2>3, ExecIs
  <2> HIDE DEF t
  <2>5. c.rsp + Width \in 0 .. MemSize
    BY <1>1, <1>8, Parameters DEF Fits
  <2>6. Exec(c, i) = [reg |-> t.reg, mem |-> t.mem, rsp |-> c.rsp + Width, zf |-> t.zf]
    BY <2>3, <2>4, CpuFacts
  <2>7. QED
    BY <2>3, <2>5, <2>6, CpuFacts
<1>9. CASE i.op \in {"cbw", "cdq", "mul", "idiv"}
  <2>1. SExt(Half(acc, 0), Width) \in Values(Width)
    <3>1. Width \div 2 \in 1 .. Width /\ Width \div 2 \in 1 .. 2 * Width /\ 2 * (Width \div 2) = Width
      BY Parameters
    <3> HIDE DEF acc
    <3>2. Half(acc, 0) \in Values(Width \div 2)
      BY <1>4, <3>1, HalfFacts
    <3>3. QED
      BY <3>1, <3>2, SExtFacts, Parameters
  <2>2. Half(SExt(acc, 2 * Width), Width) \in Values(Width)
    BY <1>4, UpperFacts
  <2>3. \A num : Half(Word(num, 2 * Width), 0) \in Values(Width)
                 /\ Half(Word(num, 2 * Width), Width) \in Values(Width)
                 /\ Word(num, Width) \in Values(Width)
    BY <1>1, WordFacts, HalfFacts
  <2>4. \A p, q \in Values(Width) :
            /\ Put(c, Acc, p) \in Cpus /\ Put(c, Acc, p).rsp = c.rsp
            /\ Put(c, Ext, p) \in Cpus /\ Put(c, Ext, p).rsp = c.rsp
            /\ Put(Put(c, Acc, p), Ext, q) \in Cpus
            /\ Put(Put(c, Acc, p), Ext, q).rsp = c.rsp
    BY <1>4, PutTyped
  <2>5. CASE i.op = "cbw"
    BY <1>1, <2>1, <2>4, <2>5, ExecIs
  <2>6. CASE i.op = "cdq"
    BY <1>1, <2>2, <2>4, <2>6, ExecIs
  <2>7. CASE i.op = "mul"
    BY <1>1, <2>3, <2>4, <2>7, ExecIs
  <2>8. CASE i.op = "idiv"
    BY <1>1, <2>3, <2>4, <2>8, ExecIs
  <2>9. QED
    BY <1>9, <2>5, <2>6, <2>7, <2>8
<1>10. CASE i.op \in Binary \cup Unary
  <2> DEFINE v == Alu(i.op, a, IF i.op \in Unary THEN a ELSE b)
             t == IF i.op \in OnlyFlags THEN c ELSE Put(c, i.dst, v)
  <2>1. IsTarget(i.dst) /\ size = Size(i.dst) /\ size \in 1 .. Width
    BY <1>1, <1>2, <1>10, FormFacts DEF Binary, Unary
  <2>2. a \in Values(size)
    BY <1>3, <2>1, GetTyped
  <2>3. i.op \in {"and", "test", "or", "xor"} => (IF i.op \in Unary THEN a ELSE b) \in Values(size)
    <3>1. ASSUME i.op \in {"and", "test", "or", "xor"} PROVE b \in Values(size)
      <4>1. i.op \in Binary /\ i.op \notin Shifts
        BY <3>1 DEF Binary, Shifts
      <4>2. IsSource(i.src) /\ (i.src.k = "imm" \/ Size(i.src) = size)
        BY <1>1, <2>1, <4>1, FormFacts
      <4>3. QED
        BY <1>3, <4>2, GetTyped DEF IsSource
    <3>2. QED
      BY <2>2, <3>1
  <2>4. v \in Values(size)
    BY <1>10, <2>1, <2>2, <2>3, AluFacts
  <2>5. Exec(c, i) = IF i.op # "not" THEN [t EXCEPT !.zf = (Num(v) = 0)] ELSE t
    BY <1>10, ExecIs
  <2> HIDE DEF v
  <2>6. t \in Cpus /\ t.rsp = c.rsp
    BY <1>2, <2>1, <2>4, PutTyped
  <2> HIDE DEF t
  <2>7. [t EXCEPT !.zf = (Num(v) = 0)] =
            [reg |-> t.reg, mem |-> t.mem, rsp |-> t.rsp, zf |-> (Num(v) = 0)]
    BY <2>6, CpuFacts
  <2>8. [t EXCEPT !.zf = (Num(v) = 0)] \in Cpus
    BY <2>6, <2>7, CpuFacts
  <2>9. QED
    BY <1>1, <2>5, <2>6, <2>7, <2>8
<1>11. QED
  BY <1>1, <1>5, <1>6, <1>7, <1>8, <1>9, <1>10, FormFacts

(* The machine in a world that satisfies the constraint runs it.            *)
LEMMA WorldFits ==
    ASSUME IInv, NEW i, Ready(i), NEW w \in path
    PROVE  /\ Runs(CpuIn(w), i) /\ Exec(CpuIn(w), i) \in Cpus
           /\ CpuIn(w) \in Cpus /\ Fits(CpuIn(w), i)
<1> DEFINE c == CpuIn(w)
<1>1. c \in Cpus /\ c.rsp = vm.rsp /\ vm.rsp \in 0 .. MemSize /\ Runs(c, i)
  <2>1. vm \in VM /\ w \in Worlds
    BY InvFacts
  <2>2. QED
    BY <2>1, CpusTyped, VMFacts DEF Ready, CpuIn
<1>2. ASSUME NEW o \in {i.dst, i.src}, IsTarget(o)
      PROVE  Usable(c, o)
  <2>1. Placed(o) /\ (IsMem(o) => AddrOf(c, o) = Where(o))
    BY <1>2, ReadyFacts
  <2>2. IsMem(o) => Room(o) = MemSize
    BY DEF Room
  <2> HIDE DEF c
  <2>3. QED
    BY <1>2, <2>1, <2>2 DEF Usable, Placed
<1>3. Fits(c, i)
  BY <1>1, <1>2, ReadyFacts DEF Fits
<1>4. QED
  BY <1>1, <1>3, ExecTyped

(***************************************************************************)
(* An expression that cannot be evaluated stands for what the machine has  *)
(* in the register after the instruction.                                  *)
(***************************************************************************)
LEMMA UnevaluableFacts ==
    ASSUME IInv, NEW i, Ready(i), NEW o, IsRegister(o)
    PROVE  /\ Unevaluable(i, o) \in Exprs(Size(o))
           /\ \A w \in path :
                ValueIn(Unevaluable(i, o), w) = Get(Exec(CpuIn(w), i), o, Size(o))
<1> DEFINE n == Size(o)
           val(w) == IF w \in path THEN Get(Exec(CpuIn(w), i), o, n) ELSE Zeroes(n)
           f == [w \in Worlds |-> val(w)]
           e == Built(n, f, TRUE)
<1>1. \A w \in path : Get(Exec(CpuIn(w), i), o, n) \in Values(n)
  BY WorldFits, GetFacts
<1>2. Zeroes(n) \in Values(n)
  BY Parameters DEF Zeroes, Values, Bit
<1>3. f \in [Worlds -> Values(n)] /\ \A w \in Worlds : f[w] = val(w)
  BY <1>1, <1>2
<1>4. Unevaluable(i, o) = e
  BY DEF Unevaluable, Expr, Built
<1>5. path \subseteq Worlds
  BY InvFacts
<1> HIDE DEF f
<1>6. e \in Exprs(n) /\ \A w \in Worlds : ValueIn(e, w) = f[w]
  BY <1>3, FromWorlds
<1>7. QED
  BY <1>3, <1>4, <1>5, <1>6

-----------------------------------------------------------------------------
(* Each handler keeps the layers typed and covered.                        *)

FlagsTyped == flags \in [bsym : BOOLEAN, fails : BOOLEAN, zf : [Worlds -> BOOLEAN]]

Kept ==
    /\ vm' \in VM /\ FlagsTyped' /\ status' \in {"run", "abort"}
    /\ flags' = flags \/ flags'.bsym

LEMMA AbortKeeps ==
    ASSUME IInv, Abort
    PROVE  Kept
BY InvFacts DEF Abort, Kept, FlagsTyped

LEMMA WritesKeeps ==
    ASSUME IInv, NEW m \in VM, Writes(m)
    PROVE  Kept
BY InvFacts DEF Writes, Kept, FlagsTyped

LEMMA SavesFacts ==
    ASSUME NEW e, Saves(e)
    PROVE  FlagsTyped' /\ flags'.bsym
           /\ \A w \in Worlds : flags'.zf[w] = (Num(ValueIn(e, w)) = 0)
<1>1. flags' = [bsym |-> TRUE, fails |-> Fails(e),
                zf |-> [w \in Worlds |-> Num(ValueIn(e, w)) = 0]]
  BY DEF Saves
<1>5. Fails(e) \in BOOLEAN
  BY DEF Fails
<1>2. flags'.bsym = TRUE /\ flags'.zf = [w \in Worlds |-> Num(ValueIn(e, w)) = 0]
  BY <1>1
<1>3. flags'.zf \in [Worlds -> BOOLEAN]
  BY <1>2
<1>4. QED
  BY <1>1, <1>2, <1>3, <1>5 DEF FlagsTyped

LEMMA ComputesKeeps ==
    ASSUME IInv, NEW i, Ready(i), i.op \in Binary \cup Unary, Computes(i)
    PROVE  Kept
<1>1. vm \in VM /\ status \in {"run", "abort"}
  BY InvFacts
<1>2. IsTarget(i.dst) /\ Placed(i.dst)
  BY FormFacts, ReadyFacts
<1>3. Combined(i) \in Exprs(Size(i.dst))
  BY CombinedFacts
<1>4. setSymValue(vm, i.dst, Combined(i)) \in VM
  BY <1>1, <1>2, <1>3, SetSymGood
<1>5. /\ vm' = IF i.op \in OnlyFlags THEN vm ELSE setSymValue(vm, i.dst, Combined(i))
      /\ Saves(Combined(i)) /\ status' = status
  BY DEF Computes
<1>6. FlagsTyped' /\ flags'.bsym
  BY <1>5, SavesFacts
<1>7. QED
  BY <1>1, <1>4, <1>5, <1>6 DEF Kept

LEMMA SourceFacts ==
    ASSUME vm \in VM, NEW o, IsTarget(o), Placed(o)
    PROVE  LET src == parseSource(o)
           IN  /\ src.symb = IsSymOpd(o)
               /\ src.cells = CellsOf(Store(o), Where(o), Size(o))
               /\ src.image = ImageOf(Store(o), ConWhere(o), Size(o))
<1>1. o.k \in {"reg", "mem", "ind"} /\ o.k # "imm" /\ (IsMem(o) <=> o.k # "reg")
  BY TargetFacts
<1>2. mayOperandUseSymbol_XX(o) = IsSymOpd(o) \/ IsMem(o)
  BY <1>1 DEF mayOperandUseSymbol_XX, IsSymOpd, IsSym
<1>3. parseSource(o) =
        [symb |-> IsSymOpd(o), cells |-> CellsOf(Store(o), Where(o), Size(o)),
         image |-> ImageOf(Store(o), ConWhere(o), Size(o))]
  <2>1. CASE IsMem(o)
    BY <1>1, <2>1 DEF parseSource, parseOperand_RX
  <2>2. CASE ~IsMem(o)
    BY <1>1, <1>2, <2>2 DEF parseSource, parseOperand_XX
  <2>3. QED
    BY <2>1, <2>2
<1>4. QED
  BY <1>3

(* A list read from one operand fits another that is as wide.              *)
LEMMA MoveListGood ==
    ASSUME NEW m \in VM, vm \in VM, NEW o, IsTarget(o), Placed(o),
           NEW p, IsTarget(p), Placed(p), Size(p) = Size(o), NEW src,
           src.cells = CellsOf(Store(p), Where(p), Size(p)),
           src.image = ImageOf(Store(p), ConWhere(p), Size(p))
    PROVE  setSymList(m, o, src) \in VM
<1>1. IsMem(p) \/ p.r \in Regs
  BY TargetFacts
<1>2. /\ DOMAIN src.cells \subseteq 0 .. Size(p) - 1
      /\ \A j \in DOMAIN src.cells : src.cells[j] \in SymBytes
      /\ \A j \in DOMAIN src.image : src.image[j] \in Bit
  BY <1>1, ListFacts
<1>3. QED
  BY <1>2, SetListGood

LEMMA MovKeeps ==
    ASSUME IInv, NEW i, Ready(i), process_mov(i)
    PROVE  Kept
<1> DEFINE src == parseSource(i.src)
<1>1. vm \in VM /\ i.op = "mov"
  BY InvFacts DEF process_mov
<1>2. /\ IsTarget(i.dst) /\ IsSource(i.src) /\ Placed(i.dst)
      /\ i.src.k = "imm" \/ Size(i.src) = Size(i.dst)
      /\ Size(i.dst) \in 1 .. 2 * Width
  BY <1>1, FormFacts, ReadyFacts, TargetFacts, Parameters
<1>3. IF src.symb THEN Writes(setSymList(vm, i.dst, src))
      ELSE IF parseTarget(i.dst)
      THEN Writes(setConValue(vm, i.dst, getConValue(i.src, Size(i.dst))))
      ELSE Abort
  BY DEF process_mov
<1>4. CASE src.symb
  <2>1. i.src.k # "imm"
    BY <1>4 DEF parseSource
  <2>2. IsTarget(i.src) /\ Placed(i.src) /\ Size(i.src) = Size(i.dst)
    BY <1>2, <2>1, ReadyFacts DEF IsSource
  <2>3. /\ src.cells = CellsOf(Store(i.src), Where(i.src), Size(i.src))
        /\ src.image = ImageOf(Store(i.src), ConWhere(i.src), Size(i.src))
    BY <1>1, <2>2, SourceFacts
  <2> HIDE DEF src
  <2>4. setSymList(vm, i.dst, src) \in VM
    BY <1>1, <1>2, <2>2, <2>3, MoveListGood
  <2>5. QED
    BY <1>3, <1>4, <2>4, WritesKeeps
<1>5. CASE ~src.symb
  <2>1. getConValue(i.src, Size(i.dst)) \in Values(Size(i.dst))
    BY <1>2, ReadyFacts, ConValueFacts DEF IsSource
  <2>2. setConValue(vm, i.dst, getConValue(i.src, Size(i.dst))) \in VM
    BY <1>1, <1>2, <2>1, ValueBits, SetConGood
  <2>3. QED
    BY <1>3, <1>5, <2>2, WritesKeeps, AbortKeeps
<1>6. QED
  BY <1>4, <1>5

LEMMA LeaKeeps ==
    ASSUME IInv, NEW i, Ready(i), process_lea(i)
    PROVE  Kept
<1>1. vm \in VM /\ i.op = "lea" /\ Width \in 1 .. 2 * Width
  BY InvFacts, Parameters DEF process_lea
<1>2. /\ IsTarget(i.dst) /\ Placed(i.dst) /\ Size(i.dst) = Width
      /\ i.src.k = "sum" /\ i.src.r \in Regs
  BY <1>1, FormFacts, ReadyFacts, RegisterIsTarget
<1>3. Writes(IF symb(i, i.src) THEN setSymValue(vm, i.dst, getSymValue(i.src))
             ELSE setConValue(vm, i.dst, getConValue(i.src, Width)))
  BY DEF process_lea
<1>4. setSymValue(vm, i.dst, getSymValue(i.src)) \in VM
  <2>1. getSymValue(i.src) \in Exprs(Width)
    BY <1>1, <1>2, SumFacts, SymValueFacts
  <2>2. QED
    BY <1>1, <1>2, <2>1, SetSymGood
<1>5. setConValue(vm, i.dst, getConValue(i.src, Width)) \in VM
  <2>1. getConValue(i.src, Width) \in Values(Width)
    BY <1>1, <1>2, ConValueFacts
  <2>2. QED
    BY <1>1, <1>2, <2>1, ValueBits, SetConGood
<1>6. QED
  BY <1>3, <1>4, <1>5, WritesKeeps

LEMMA ExtendKeeps ==
    ASSUME IInv, NEW i, Ready(i), process_movsx(i) \/ process_movzx(i)
    PROVE  Kept
<1> DEFINE size == Size(i.dst)
           e == Unevaluable(i, i.dst)
           v == getConValue(i.src, size)
<1>1. vm \in VM /\ i.op \in {"movsx", "movzx"}
  BY InvFacts DEF process_movsx, process_movzx
<1>2. /\ IsTarget(i.dst) /\ Placed(i.dst) /\ size \in 1 .. 2 * Width /\ IsRegister(i.dst)
      /\ IsTarget(i.src) /\ Placed(i.src)
  BY <1>1, FormFacts, ReadyFacts, RegisterIsTarget, TargetFacts, Parameters
<1>3. Writes(IF symb(i, i.src) THEN setSymValue(vm, i.dst, e) ELSE setConValue(vm, i.dst, v))
  BY DEF process_movsx, process_movzx, Extends
<1>4. e \in Exprs(size) /\ v \in Values(size)
  BY <1>2, UnevaluableFacts, ConValueFacts
<1> HIDE DEF e, v
<1>5. setSymValue(vm, i.dst, e) \in VM
  BY <1>1, <1>2, <1>4, SetSymGood
<1>6. setConValue(vm, i.dst, v) \in VM
  BY <1>1, <1>2, <1>4, ValueBits, SetConGood
<1>7. QED
  BY <1>3, <1>5, <1>6, WritesKeeps

LEMMA XchgKeeps ==
    ASSUME IInv, NEW i, Ready(i), process_xchg(i)
    PROVE  Kept
<1> DEFINE size == Size(i.dst)
           a == getSymValue(i.dst)
           b == getSymValue(i.src)
           p == getConValue(i.dst, size)
           q == getConValue(i.src, size)
<1>1. vm \in VM /\ i.op = "xchg"
  BY InvFacts DEF process_xchg
<1>2. /\ IsTarget(i.dst) /\ Placed(i.dst) /\ IsTarget(i.src) /\ Placed(i.src)
      /\ Size(i.src) = size /\ size \in 1 .. 2 * Width
  BY <1>1, FormFacts, ReadyFacts, TargetFacts, Parameters
<1>3. a \in Exprs(size) /\ b \in Exprs(size)
  BY <1>1, <1>2, TargetFacts, SymValueFacts
<1>4. /\ \A j \in DOMAIN p : p[j] \in Bit
      /\ \A j \in DOMAIN q : q[j] \in Bit
  BY <1>2, ConValueFacts, ValueBits
<1>5. \/ Writes(setSymValue(setSymValue(vm, i.dst, b), i.src, a))
      \/ Abort
      \/ Writes(setSymValue(setConValue(vm, i.dst, q), i.src, a))
      \/ Writes(setConValue(setSymValue(vm, i.dst, b), i.src, p))
  BY DEF process_xchg
<1> HIDE DEF a, b, p, q
<1>6. setSymValue(vm, i.dst, b) \in VM /\ setConValue(vm, i.dst, q) \in VM
  BY <1>1, <1>2, <1>3, <1>4, SetSymGood, SetConGood
<1>7. /\ setSymValue(setSymValue(vm, i.dst, b), i.src, a) \in VM
      /\ setSymValue(setConValue(vm, i.dst, q), i.src, a) \in VM
      /\ setConValue(setSymValue(vm, i.dst, b), i.src, p) \in VM
  BY <1>2, <1>3, <1>4, <1>6, SetSymGood, SetConGood
<1>8. QED
  BY <1>5, <1>7, WritesKeeps, AbortKeeps

LEMMA StackMoves ==
    ASSUME vm \in VM, NEW rsp \in 0 .. MemSize
    PROVE  [vm EXCEPT !.rsp = rsp] \in VM
           /\ [vm EXCEPT !.rsp = rsp] = [reg |-> vm.reg, mem |-> vm.mem, rsp |-> rsp]
<1>1. /\ vm = [reg |-> vm.reg, mem |-> vm.mem, rsp |-> vm.rsp]
      /\ vm.reg \in [Regs -> Good(Off)] /\ vm.mem \in Good(Addr)
  BY VMFacts
<1>2. [vm EXCEPT !.rsp = rsp] = [reg |-> vm.reg, mem |-> vm.mem, rsp |-> rsp]
  BY <1>1
<1>3. QED
  BY <1>1, <1>2 DEF VM

LEMMA PopKeeps ==
    ASSUME IInv, NEW i, Ready(i), process_pop(i)
    PROVE  Kept
<1> DEFINE top == Slot(vm.rsp)
           src == parseOperand_RX(top)
           m   == [vm EXCEPT !.rsp = vm.rsp + Width]
<1>1. vm \in VM /\ i.op = "pop" /\ vm.rsp \in Nat /\ vm.rsp + Width <= MemSize
  <2>1. vm \in VM /\ i.op = "pop"
    BY InvFacts DEF process_pop
  <2>2. vm.rsp \in 0 .. MemSize /\ vm.rsp + Width <= MemSize
    BY <2>1, VMFacts, ReadyFacts
  <2>3. QED
    BY <2>1, <2>2
<1>2. IsTarget(i.dst) /\ Placed(i.dst) /\ Size(i.dst) = Width
  BY <1>1, FormFacts, ReadyFacts
<1>3. IsTarget(top) /\ Placed(top) /\ Size(top) = Width /\ IsMem(top)
  BY <1>1, SlotPlaced
<1>4. Writes(IF src.symb THEN setSymList(m, i.dst, src) ELSE setConValue(m, i.dst, src.image))
  BY DEF process_pop
<1>5. m \in VM
  <2>1. vm.rsp + Width \in 0 .. MemSize
    BY <1>1, Parameters
  <2>2. QED
    BY <1>1, <2>1, StackMoves
<1>6. /\ src.cells = CellsOf(Store(top), Where(top), Size(top))
      /\ src.image = ImageOf(Store(top), ConWhere(top), Size(top))
  BY DEF parseOperand_RX
<1> HIDE DEF top, src, m
<1>7. \A j \in DOMAIN src.image : src.image[j] \in Bit
  BY <1>1, <1>3, <1>6, ListFacts
<1>8. setConValue(m, i.dst, src.image) \in VM
  BY <1>2, <1>5, <1>7, SetConGood
<1>9. setSymList(m, i.dst, src) \in VM
  BY <1>1, <1>2, <1>3, <1>5, <1>6, MoveListGood
<1>10. QED
  BY <1>4, <1>8, <1>9, WritesKeeps

LEMMA PushKeeps ==
    ASSUME IInv, NEW i, Ready(i), process_push(i)
    PROVE  Kept
<1> DEFINE src == parseSource(i.src)
           m   == [vm EXCEPT !.rsp = vm.rsp - Width]
           top == Slot(m.rsp)
<1>1. vm \in VM /\ i.op = "push" /\ vm.rsp - Width \in 0 .. MemSize /\ vm.rsp - Width \in Nat
      /\ (vm.rsp - Width) + Width <= MemSize
  <2>1. vm \in VM /\ i.op = "push"
    BY InvFacts DEF process_push
  <2>2. vm.rsp \in 0 .. MemSize /\ vm.rsp >= Width
    BY <2>1, VMFacts, ReadyFacts
  <2>3. QED
    BY <2>1, <2>2, Parameters
<1>2. IsSource(i.src) /\ Size(i.src) = Width /\ Width \in 1 .. 2 * Width
  BY <1>1, FormFacts, ReadyFacts, Parameters
<1>3. m \in VM /\ m.rsp = vm.rsp - Width
  BY <1>1, StackMoves
<1>4. IsTarget(top) /\ Placed(top) /\ Size(top) = Width
  BY <1>1, <1>3, SlotPlaced
<1>5. Writes(IF src.symb THEN setSymList(m, top, src)
             ELSE setConValue(m, top, getConValue(i.src, Width)))
  BY DEF process_push
<1> HIDE DEF m, top
<1>6. setConValue(m, top, getConValue(i.src, Width)) \in VM
  <2>1. getConValue(i.src, Width) \in Values(Width)
    BY <1>2, ReadyFacts, ConValueFacts DEF IsSource
  <2>2. QED
    BY <1>3, <1>4, <2>1, ValueBits, SetConGood
<1>7. ASSUME src.symb PROVE setSymList(m, top, src) \in VM
  <2>1. i.src.k # "imm"
    BY <1>7 DEF parseSource
  <2>2. IsTarget(i.src) /\ Placed(i.src)
    BY <1>2, <2>1, ReadyFacts DEF IsSource
  <2>3. /\ src.cells = CellsOf(Store(i.src), Where(i.src), Size(i.src))
        /\ src.image = ImageOf(Store(i.src), ConWhere(i.src), Size(i.src))
    BY <1>1, <2>2, SourceFacts
  <2> HIDE DEF src
  <2>4. QED
    BY <1>1, <1>2, <1>3, <1>4, <2>2, <2>3, MoveListGood
<1>8. QED
  BY <1>5, <1>6, <1>7, WritesKeeps

(* The two registers that some instructions imply.                         *)
LEMMA AccUsable ==
    ASSUME IInv
    PROVE  /\ IsTarget(Acc) /\ Placed(Acc) /\ Acc.r \in Regs /\ ~IsMem(Acc) /\ Where(Acc) = 0
           /\ Store(Acc) = vm.reg["rax"]
           /\ getSymValue(Acc) \in Exprs(Width) /\ ConWhere(Acc) = 0
           /\ IsTarget(Ext) /\ Placed(Ext) /\ Ext.r \in Regs /\ ~IsMem(Ext) /\ Where(Ext) = 0
           /\ Store(Ext) = vm.reg["rdx"]
           /\ getSymValue(Ext) \in Exprs(Width) /\ ConWhere(Ext) = 0
           /\ Width \in 1 .. Width /\ Width \in 1 .. 2 * Width
<1>1. /\ IsTarget(Acc) /\ Placed(Acc) /\ Acc.r \in Regs /\ ~IsMem(Acc) /\ Where(Acc) = 0
      /\ IsTarget(Ext) /\ Placed(Ext) /\ Ext.r \in Regs /\ ~IsMem(Ext) /\ Where(Ext) = 0
      /\ ConWhere(Acc) = 0 /\ ConWhere(Ext) = 0
  BY AccFacts, RegisterFacts, RegisterIsTarget DEF ConWhere, conOffset
<1>2. Store(Acc) = vm.reg["rax"] /\ Store(Ext) = vm.reg["rdx"]
  BY <1>1, AccFacts DEF Store
<1>3. vm \in VM /\ Width \in 1 .. Width /\ Width \in 1 .. 2 * Width
  BY InvFacts, Parameters
<1>4. getSymValue(Acc) \in Exprs(Width) /\ getSymValue(Ext) \in Exprs(Width)
  BY <1>1, <1>3, AccFacts, SymValueFacts
<1>5. QED
  BY <1>1, <1>2, <1>3, <1>4

LEMMA CbwKeeps ==
    ASSUME IInv, NEW i, Ready(i), process_cbw(i)
    PROVE  Kept
<1> DEFINE low == Half(vm.reg["rax"].con, 0)
<1>1. vm \in VM
  BY InvFacts
<1>2. Writes(IF IsSym(vm.reg["rax"], 0, Width \div 2)
             THEN setSymValue(vm, Acc, Unevaluable(i, Acc))
             ELSE setConValue(vm, Acc, SExt(low, Width)))
  BY DEF process_cbw
<1>3. setSymValue(vm, Acc, Unevaluable(i, Acc)) \in VM
  BY <1>1, AccUsable, AccFacts, UnevaluableFacts, SetSymGood
<1>4. SExt(low, Width) \in Values(Width)
  <2>1. vm.reg["rax"].con \in Values(Width)
    BY <1>1, VMFacts, GoodFacts, Parameters DEF Values, Off
  <2>2. Width \div 2 \in 1 .. Width /\ Width \div 2 \in 1 .. 2 * Width /\ 2 * (Width \div 2) = Width
    BY Parameters
  <2>3. low \in Values(Width \div 2)
    BY <2>1, <2>2, HalfFacts
  <2> HIDE DEF low
  <2>4. QED
    BY <2>2, <2>3, SExtFacts, Parameters
<1>5. setConValue(vm, Acc, SExt(low, Width)) \in VM
  BY <1>1, <1>4, AccUsable, ValueBits, SetConGood
<1>6. QED
  BY <1>2, <1>3, <1>5, WritesKeeps

LEMMA CdqKeeps ==
    ASSUME IInv, NEW i, Ready(i), process_cdq(i)
    PROVE  Kept
<1> DEFINE e == Unevaluable(i, Ext)
           v == Half(SExt(getConValue(Acc, Width), 2 * Width), Width)
<1>1. vm \in VM
  BY InvFacts
<1>2. Writes(IF symb(i, Acc) THEN setSymValue(vm, Ext, e) ELSE setConValue(vm, Ext, v))
  BY DEF process_cdq
<1>3. v \in Values(Width)
  BY AccUsable, AccFacts, ConValueFacts, UpperFacts
<1>4. e \in Exprs(Width)
  BY AccFacts, UnevaluableFacts
<1> HIDE DEF e, v
<1>5. setSymValue(vm, Ext, e) \in VM
  BY <1>1, <1>4, AccUsable, AccFacts, SetSymGood
<1>6. setConValue(vm, Ext, v) \in VM
  BY <1>1, <1>3, AccUsable, ValueBits, SetConGood
<1>7. QED
  BY <1>2, <1>5, <1>6, WritesKeeps

LEMMA ProductFacts ==
    ASSUME NEW i, NEW w
    PROVE  /\ Half(ProductIn(i, w), 0) \in Values(Width)
           /\ Half(ProductIn(i, w), Width) \in Values(Width)
<1>1. ProductIn(i, w) \in Values(2 * Width)
  BY WordFacts DEF ProductIn
<1>2. Width \in 1 .. Width
  BY Parameters
<1>3. QED
  BY <1>1, <1>2, HalfFacts

(* The lower half of a symbolic product, which can be evaluated.           *)
LowProduct(i) == Expr(Width, MixedFails(i), LAMBDA w : Half(ProductIn(i, w), 0))

LEMMA LowProductFacts ==
    ASSUME NEW i
    PROVE  /\ LowProduct(i) \in Exprs(Width)
           /\ \A w \in Worlds : ValueIn(LowProduct(i), w) = Half(ProductIn(i, w), 0)
<1> DEFINE f == [w \in Worlds |-> Half(ProductIn(i, w), 0)]
           b == MixedFails(i)
           e == Built(Width, f, b)
<1>1. f \in [Worlds -> Values(Width)] /\ \A w \in Worlds : f[w] = Half(ProductIn(i, w), 0)
  BY ProductFacts
<1>2. b \in BOOLEAN
  BY DEF MixedFails
<1>3. LowProduct(i) = e
  BY DEF LowProduct, Expr, Built
<1> HIDE DEF f, b
<1>4. e \in Exprs(Width) /\ \A w \in Worlds : ValueIn(e, w) = f[w]
  BY <1>1, <1>2, FromWorlds
<1>5. QED
  BY <1>1, <1>3, <1>4

LEMMA MulKeeps ==
    ASSUME IInv, NEW i, Ready(i), process_mul(i)
    PROVE  Kept
<1> DEFINE lo == LowProduct(i)
           hi == Unevaluable(i, Ext)
           p == Half(ProductIn(i, Seed), 0)
           q == Half(ProductIn(i, Seed), Width)
<1>1. vm \in VM
  BY InvFacts
<1>2. \/ Abort
      \/ Writes(setSymValue(setSymValue(vm, Acc, lo), Ext, hi))
      \/ Writes(setConValue(setConValue(vm, Acc, p), Ext, q))
  BY DEF process_mul, LowProduct
<1>3. /\ p \in Values(Width) /\ q \in Values(Width)
      /\ lo \in Exprs(Width) /\ hi \in Exprs(Width)
  BY ProductFacts, LowProductFacts, UnevaluableFacts, AccFacts
<1> HIDE DEF lo, hi, p, q
<1>4. setSymValue(vm, Acc, lo) \in VM
  BY <1>1, <1>3, AccUsable, AccFacts, SetSymGood
<1>5. setSymValue(setSymValue(vm, Acc, lo), Ext, hi) \in VM
  BY <1>3, <1>4, AccUsable, AccFacts, SetSymGood
<1>6. setConValue(vm, Acc, p) \in VM
  BY <1>1, <1>3, AccUsable, ValueBits, SetConGood
<1>7. setConValue(setConValue(vm, Acc, p), Ext, q) \in VM
  BY <1>3, <1>6, AccUsable, ValueBits, SetConGood
<1>8. QED
  BY <1>2, <1>5, <1>7, WritesKeeps, AbortKeeps

LEMMA IdivKeeps ==
    ASSUME IInv, NEW i, Ready(i), process_idiv(i)
    PROVE  Kept
<1> DEFINE q == Unevaluable(i, Acc)
           m == Unevaluable(i, Ext)
<1>1. vm \in VM
  BY InvFacts
<1>2. Writes(setSymValue(setSymValue(vm, Acc, q), Ext, m))
  BY DEF process_idiv
<1>3. q \in Exprs(Width) /\ m \in Exprs(Width)
  BY UnevaluableFacts, AccFacts
<1> HIDE DEF q, m
<1>4. setSymValue(vm, Acc, q) \in VM
  BY <1>1, <1>3, AccUsable, AccFacts, SetSymGood
<1>5. setSymValue(setSymValue(vm, Acc, q), Ext, m) \in VM
  BY <1>3, <1>4, AccUsable, AccFacts, SetSymGood
<1>6. QED
  BY <1>2, <1>5, WritesKeeps

(* The two handlers that leave the flags to their caller.                  *)
LEMMA ConditionalKeeps ==
    ASSUME IInv, NEW i, Ready(i), process_cmovxx(i) \/ process_set(i)
    PROVE  vm' \in VM /\ status' = status /\ IsConditional(i)
<1>1. vm \in VM
  BY InvFacts
<1>2. CASE process_cmovxx(i)
  <2>1. /\ i.op = "cmov" /\ status' = status
        /\ vm' = IF symb(i, i.src) THEN setSymValue(vm, i.dst, getSymValue(i.src))
                 ELSE setConValue(vm, i.dst, getConValue(i.src, Size(i.dst)))
    BY <1>2 DEF process_cmovxx
  <2>2. /\ IsTarget(i.dst) /\ Placed(i.dst) /\ IsTarget(i.src) /\ Placed(i.src)
        /\ i.src.k # "imm" /\ i.src.k # "sum" /\ (IsMem(i.src) \/ i.src.r \in Regs)
        /\ Size(i.dst) \in 1 .. 2 * Width
    BY <2>1, FormFacts, ReadyFacts, TargetFacts, RegisterIsTarget, Parameters
  <2>3. Size(i.src) = Size(i.dst)
    BY <2>1, <2>2, FormFacts, ReadyFacts
  <2>4. getSymValue(i.src) \in Exprs(Size(i.dst))
    BY <1>1, <2>2, <2>3, SymValueFacts
  <2>5. getConValue(i.src, Size(i.dst)) \in Values(Size(i.dst))
    BY <2>2, ConValueFacts
  <2>6. setSymValue(vm, i.dst, getSymValue(i.src)) \in VM
    BY <1>1, <2>2, <2>4, SetSymGood
  <2>7. setConValue(vm, i.dst, getConValue(i.src, Size(i.dst))) \in VM
    BY <1>1, <2>2, <2>5, ValueBits, SetConGood
  <2>8. QED
    BY <2>1, <2>6, <2>7 DEF IsConditional
<1>3. CASE process_set(i)
  <2>1. /\ i.op = "set" /\ status' = status
        /\ vm' = setConValue(vm, i.dst, Word(1, Size(i.dst)))
    BY <1>3 DEF process_set
  <2>2. IsTarget(i.dst)
    BY <2>1, FormFacts, ReadyFacts
  <2>3. Word(1, Size(i.dst)) \in Values(Size(i.dst))
    BY WordFacts
  <2>4. QED
    BY <1>1, <2>1, <2>2, <2>3, ValueBits, SetConGood DEF IsConditional
<1>4. QED
  BY <1>2, <1>3

LEMMA RunKeeps ==
    ASSUME IInv, NEW i, Ready(i), run(i)
    PROVE  Kept
<1>1. CASE process_mov(i)
  BY <1>1, MovKeeps
<1>2. CASE process_lea(i)
  BY <1>2, LeaKeeps
<1>3. CASE process_movsx(i) \/ process_movzx(i)
  BY <1>3, ExtendKeeps
<1>4. CASE i.op \in Binary \cup Unary /\ (Computes(i) \/ Abort)
  BY <1>4, ComputesKeeps, AbortKeeps
<1>5. CASE process_xchg(i)
  BY <1>5, XchgKeeps
<1>6. CASE process_pop(i)
  BY <1>6, PopKeeps
<1>7. CASE process_push(i)
  BY <1>7, PushKeeps
<1>8. CASE process_cbw(i) \/ process_cdq(i)
  BY <1>8, CbwKeeps, CdqKeeps
<1>9. CASE process_mul(i) \/ process_idiv(i)
  BY <1>9, MulKeeps, IdivKeeps
<1>10. CASE (process_cmovxx(i) \/ process_set(i)) /\ UNCHANGED flags
  <2>1. vm' \in VM /\ status' = status
    BY <1>10, ConditionalKeeps
  <2>2. QED
    BY <1>10, <2>1, InvFacts DEF Kept, FlagsTyped
<1>11. \/ process_mov(i) \/ process_lea(i) \/ process_movsx(i) \/ process_movzx(i)
       \/ (i.op \in Binary \cup Unary /\ (Computes(i) \/ Abort))
       \/ process_xchg(i) \/ process_pop(i) \/ process_push(i)
       \/ process_cbw(i) \/ process_cdq(i) \/ process_mul(i) \/ process_idiv(i)
       \/ ((process_cmovxx(i) \/ process_set(i)) /\ UNCHANGED flags)
  BY DEF run, process_add, process_sub, process_and, process_or, process_xor, process_test,
         process_cmp, process_neg, process_not, process_shl_sal, process_shr, process_sar,
         process_shrd, Binary, Unary
<1>12. QED
  BY <1>1, <1>2, <1>3, <1>4, <1>5, <1>6, <1>7, <1>8, <1>9, <1>10, <1>11

-----------------------------------------------------------------------------
(* One instruction on the processor                                        *)

LEMMA HostFits ==
    ASSUME IInv, NEW i, Ready(i)
    PROVE  HostCpu \in Cpus /\ Fits(HostCpu, i)
<1>1. HostCpu \in Cpus /\ HostCpu.rsp = vm.rsp /\ vm.rsp \in 0 .. MemSize
  BY CpusTyped, InvFacts, VMFacts DEF HostCpu
<1>2. ASSUME NEW o \in {i.dst, i.src}, IsTarget(o)
      PROVE  Usable(HostCpu, o)
  <2>1. Placed(o)
    BY <1>2, ReadyFacts
  <2>2. IsMem(o) => Where(o) = AddrOf(HostCpu, o) /\ Room(o) = MemSize
    BY DEF Where, IsMem, Room
  <2>3. QED
    BY <1>2, <2>1, <2>2 DEF Usable, Placed
<1>3. QED
  BY <1>1, <1>2, ReadyFacts DEF Fits

(* The layers when the host has written the concrete ones.                 *)
HostWrote(t) ==
    [reg |-> [r \in Regs |-> [vm.reg[r] EXCEPT !.con = t.reg[r]]],
     mem |-> [vm.mem EXCEPT !.con = t.mem], rsp |-> t.rsp]

LEMMA LayersUnder ==
    ASSUME NEW D, NEW s \in Good(D), NEW con \in [D -> Bit]
    PROVE  /\ [s EXCEPT !.con = con] = [marked |-> s.marked, content |-> s.content, con |-> con]
           /\ [s EXCEPT !.con = con] \in Good(D)
<1> DEFINE t == [s EXCEPT !.con = con]
<1>1. /\ s = [marked |-> s.marked, content |-> s.content, con |-> s.con]
      /\ s.marked \subseteq D /\ s.content \in [D -> SymBytes \cup {NoSym}]
      /\ \A a \in s.marked : s.content[a] # NoSym
  BY GoodFacts
<1>2. t = [marked |-> s.marked, content |-> s.content, con |-> con]
  BY <1>1
<1> HIDE DEF t
<1>3. t \in Good(D)
  BY <1>1, <1>2, GoodFacts
<1>4. QED
  BY <1>2, <1>3 DEF t

LEMMA HostWroteFacts ==
    ASSUME vm \in VM, NEW t \in Cpus, t.rsp \in 0 .. MemSize
    PROVE  HostWrote(t) \in VM
<1>1. vm.reg \in [Regs -> Good(Off)] /\ vm.mem \in Good(Addr)
  BY VMFacts
<1>2. t.reg \in [Regs -> [Off -> Bit]] /\ t.mem \in [Addr -> Bit]
  BY CpuFacts
<1> DEFINE reg == [r \in Regs |-> [vm.reg[r] EXCEPT !.con = t.reg[r]]]
           mem == [vm.mem EXCEPT !.con = t.mem]
<1>3. \A r \in Regs : [vm.reg[r] EXCEPT !.con = t.reg[r]] \in Good(Off)
  BY <1>1, <1>2, LayersUnder
<1>4. reg \in [Regs -> Good(Off)]
  BY <1>3
<1>5. mem \in Good(Addr)
  BY <1>1, <1>2, LayersUnder
<1>6. HostWrote(t) = [reg |-> reg, mem |-> mem, rsp |-> t.rsp]
  BY DEF HostWrote
<1> HIDE DEF reg, mem
<1>7. QED
  BY <1>4, <1>5, <1>6 DEF VM

LEMMA DispatchKeeps ==
    ASSUME IInv, NEW i, Ready(i), InsnDispatch(i)
    PROVE  Kept \/ (vm' \in VM /\ FlagsTyped' /\ status' = status
                    /\ \A w \in Worlds : flags'.zf[w] = flags'.zf[Seed])
<1> DEFINE t == Exec(HostCpu, i)
<1>1. t \in Cpus /\ t.rsp \in 0 .. MemSize
  BY HostFits, ExecTyped
<1>2. /\ vm' = HostWrote(t) /\ status' = status
      /\ flags' = IF isFlagChangingInstr(i.op)
                  THEN [bsym |-> FALSE, fails |-> FALSE, zf |-> [w \in Worlds |-> t.zf]] ELSE flags
  BY DEF InsnDispatch, HostWrote
<1> HIDE DEF t
<1>3. vm' \in VM
  BY <1>1, <1>2, InvFacts, HostWroteFacts
<1>4. t.zf \in BOOLEAN
  BY <1>1, CpuFacts
<1>5. CASE isFlagChangingInstr(i.op)
  <2>1. flags' = [bsym |-> FALSE, fails |-> FALSE, zf |-> [w \in Worlds |-> t.zf]]
    BY <1>2, <1>5
  <2>2. FlagsTyped'
    BY <1>4, <2>1 DEF FlagsTyped
  <2>3. \A w \in Worlds : flags'.zf[w] = t.zf
    BY <2>1
  <2>4. QED
    BY <1>2, <1>3, <2>2, <2>3, Parameters
<1>6. CASE ~isFlagChangingInstr(i.op)
  BY <1>2, <1>3, <1>6, InvFacts DEF Kept, FlagsTyped
<1>7. QED
  BY <1>5, <1>6

-----------------------------------------------------------------------------
(* The invariant                                                           *)

LEMMA InitInv ==
    ASSUME Init
    PROVE  IInv
<1> DEFINE size == Objects[2]
           at == Objects[1]
           f == [w \in Worlds |-> Word(w, size)]
           e == Built(size, f, FALSE)
<1>1. /\ at \in Int /\ size \in Nat /\ Span(at, size) \subseteq Addr
      /\ MaxInsns \in Nat /\ MemSize \in Nat
  <2>1. Objects \in Addr \X (Nat \ {0}) /\ Addr \subseteq Int
    BY SymExecAssumption DEF Addr
  <2>2. QED
    BY <2>1, SymExecAssumption
<1>2. PICK b, c \in Bit :
        vm = [reg |-> [r \in Regs |-> Concrete([o \in Off |-> b])],
              mem |-> createSYMemObject(Concrete([a \in Addr |-> c]), at, size),
              rsp |-> MemSize]
  BY DEF Init
<1>3. ASSUME NEW D, NEW d \in Bit
      PROVE  Concrete([o \in D |-> d]) \in Good(D)
  <2> DEFINE con == [o \in D |-> d]
             s == Concrete(con)
  <2>1. con \in [D -> Bit]
    OBVIOUS
  <2> HIDE DEF con
  <2>2. s = [marked |-> {}, content |-> [o \in D |-> NoSym], con |-> con]
    BY <2>1 DEF Concrete
  <2>3. s \in Good(D)
    BY <2>1, <2>2, GoodFacts
  <2>4. QED
    BY <2>3 DEF con
<1> DEFINE reg == [r \in Regs |-> Concrete([o \in Off |-> b])]
           mem == createSYMemObject(Concrete([a \in Addr |-> c]), at, size)
<1>4. mem = WriteExpr(Concrete([a \in Addr |-> c]), at, at, size, e)
  BY DEF createSYMemObject, Expr, Built
<1>5. f \in [Worlds -> Values(size)]
  BY WordFacts
<1> HIDE DEF f, size, at
<1>6. e \in Exprs(size)
  BY <1>5, FromWorlds
<1> HIDE DEF e, mem
<1>7. mem \in Good(Addr)
  <2>1. Concrete([a \in Addr |-> c]) \in Good(Addr)
    BY <1>3
  <2> DEFINE s == Concrete([a \in Addr |-> c])
  <2> HIDE DEF s
  <2>2. s \in Good(Addr)
    BY <2>1 DEF s
  <2>3. WriteExpr(s, at, at, size, e) \in Good(Addr)
    BY <1>1, <1>6, <2>2, WriteExprGood
  <2>4. QED
    BY <1>4, <2>3 DEF s
<1>8. reg \in [Regs -> Good(Off)]
  BY <1>3
<1>9. vm = [reg |-> reg, mem |-> mem, rsp |-> MemSize]
  BY <1>2 DEF mem
<1> HIDE DEF reg
<1>10. vm \in VM
  BY <1>1, <1>7, <1>8, <1>9 DEF VM
<1>11. /\ flags = [bsym |-> FALSE, fails |-> FALSE, zf |-> [w \in Worlds |-> FALSE]]
       /\ path = Worlds /\ status = "run" /\ count = 0
  BY DEF Init
<1>12. flags \in [bsym : BOOLEAN, fails : BOOLEAN, zf : [Worlds -> BOOLEAN]]
  BY <1>11
<1>13. FlagsAgree
  BY <1>11, Parameters DEF FlagsAgree
<1>14. QED
  BY <1>1, <1>10, <1>11, <1>12, <1>13, InvFacts, Parameters

(* What each way to execute an instruction leaves behind.                  *)
LEMMA ProcessKeeps ==
    ASSUME IInv, NEW i,
           i \in Insns, Stops(i) \/ \A w \in path : Runs(CpuIn(w), i), processInsn(i)
    PROVE  /\ vm' \in VM /\ FlagsTyped'
           /\ path' \subseteq path /\ Seed \in path'
           /\ status' \in {"run", "abort"} /\ FlagsAgree'
<1>1. /\ vm \in VM /\ FlagsTyped /\ path \subseteq Worlds /\ Seed \in path
      /\ status \in {"run", "abort"} /\ FlagsAgree
  BY InvFacts DEF FlagsTyped
<1>2. \/ AbortRun(i) \/ SkipConditional(i) \/ TakeConditional(i)
      \/ RunSymbolic(i) \/ InsnDispatch(i)
  BY DEF processInsn
<1>3. ~Stops(i) /\ (Decides(i) => flags.zf[Seed]) => Ready(i)
  BY DEF Ready, Stops
<1>4. ASSUME Kept, path' = path
      PROVE  /\ vm' \in VM /\ FlagsTyped' /\ path' \subseteq path /\ Seed \in path'
             /\ status' \in {"run", "abort"} /\ FlagsAgree'
  BY <1>1, <1>4 DEF Kept, FlagsAgree
<1>5. CASE AbortRun(i)
  <2>1. Kept /\ path' = path
    BY <1>5, AbortKeeps DEF AbortRun
  <2>2. QED
    BY <1>4, <2>1
<1>6. CASE SkipConditional(i)
  <2>1. /\ vm' = vm /\ flags' = flags /\ status' = status /\ flags.bsym
        /\ flags.zf[Seed] = FALSE /\ path' = { w \in path : flags.zf[w] = FALSE }
    BY <1>6 DEF SkipConditional, EvalCondition, Decides
  <2>2. QED
    BY <1>1, <2>1 DEF FlagsTyped, FlagsAgree
<1>7. CASE TakeConditional(i)
  <2>1. /\ process_cmovxx(i) \/ process_set(i)
        /\ flags' = [bsym |-> FALSE, fails |-> FALSE, zf |-> [w \in Worlds |-> TRUE]]
        /\ flags.zf[Seed] = TRUE /\ path' = { w \in path : flags.zf[w] = TRUE }
        /\ ~Stops(i)
    BY <1>7 DEF TakeConditional, EvalCondition
  <2>2. vm' \in VM /\ status' = status
    BY <1>3, <2>1, ConditionalKeeps
  <2>3. FlagsTyped' /\ FlagsAgree'
    <3>1. flags'.zf = [w \in Worlds |-> TRUE]
      BY <2>1
    <3>2. \A w \in Worlds : flags'.zf[w] = TRUE
      BY <3>1
    <3>3. path' \subseteq Worlds /\ Seed \in Worlds
      BY <1>1, <2>1
    <3>4. FlagsTyped'
      BY <2>1 DEF FlagsTyped
    <3>5. QED
      BY <3>2, <3>3, <3>4 DEF FlagsAgree
  <2>4. QED
    BY <1>1, <2>1, <2>2, <2>3
<1>8. CASE RunSymbolic(i)
  <2>1. Kept /\ path' = path
    BY <1>3, <1>8, RunKeeps DEF RunSymbolic
  <2>2. QED
    BY <1>4, <2>1
<1>9. CASE InsnDispatch(i)
  <2>1. path' = path /\ ~Stops(i) /\ ~Decides(i)
    BY <1>9 DEF InsnDispatch
  <2>2. CASE Kept
    BY <1>4, <2>1, <2>2
  <2>3. CASE /\ vm' \in VM /\ FlagsTyped' /\ status' = status
             /\ \A w \in Worlds : flags'.zf[w] = flags'.zf[Seed]
    BY <1>1, <2>1, <2>3 DEF FlagsAgree
  <2>4. QED
    BY <1>3, <1>9, <2>1, <2>2, <2>3, DispatchKeeps
<1>10. QED
  BY <1>2, <1>5, <1>6, <1>7, <1>8, <1>9

LEMMA NextInv ==
    ASSUME IInv, [Next]_vars
    PROVE  IInv'
<1>1. CASE UNCHANGED vars
  BY <1>1 DEF vars, IInv, TypeOK, MarkedIsCovered, Stores, SeedStays, FlagsAgree
<1>2. CASE Next
  <2>1. PICK i \in Insns :
            /\ Stops(i) \/ \A w \in path : Runs(CpuIn(w), i)
            /\ processInsn(i)
    BY <1>2 DEF Next
  <2>2. count' \in 0 .. MaxInsns
    <3>1. count < MaxInsns /\ count' = count + 1 /\ count \in 0 .. MaxInsns
      BY <1>2, <2>1, InvFacts DEF Next, processInsn
    <3>2. QED
      BY <3>1, SymExecAssumption
  <2>3. /\ vm' \in VM /\ FlagsTyped'
        /\ path' \subseteq path /\ Seed \in path'
        /\ status' \in {"run", "abort"} /\ FlagsAgree'
    BY <2>1, ProcessKeeps
  <2>4. path \subseteq Worlds
    BY InvFacts
  <2>5. (IInv <=> /\ vm \in VM
                  /\ flags \in [bsym : BOOLEAN, fails : BOOLEAN, zf : [Worlds -> BOOLEAN]]
                  /\ path \subseteq Worlds /\ Seed \in path
                  /\ status \in {"run", "abort"} /\ count \in 0 .. MaxInsns
                  /\ FlagsAgree)'
    BY InvFacts, PTL
  <2>6. QED
    BY <2>2, <2>3, <2>4, <2>5 DEF FlagsTyped
<1>3. QED
  BY <1>1, <1>2

(***************************************************************************)
(* IInv holds in every state: each handler, the host and each skipped      *)
(* instruction keep it, also in the deviating cases.                       *)
(***************************************************************************)
THEOREM InvInductive ==
    Spec => []IInv
<1>1. Init => IInv
  BY InitInv
<1>2. IInv /\ [Next]_vars => IInv'
  BY NextInv
<1>3. QED
  BY <1>1, <1>2, PTL DEF Spec

(***************************************************************************)
(* Whatever instruction a handler, the host or nobody executes, the layers *)
(* hold a byte, and no more than a symbol, for each place, and the worlds  *)
(* that m_Constraint allows are never none.                                *)
(***************************************************************************)
THEOREM TypeCorrect ==
    Spec => []TypeOK
<1>1. IInv => TypeOK
  BY DEF IInv
<1>2. QED
  BY <1>1, InvInductive, PTL

(***************************************************************************)
(* No handler leaves a byte that the bitmap calls symbolic without its     *)
(* symbol in the list, so that GetExpr never asserts on one.               *)
(***************************************************************************)
THEOREM MarkedAlwaysCovered ==
    Spec => []MarkedIsCovered
<1>1. IInv => MarkedIsCovered
  BY DEF IInv
<1>2. QED
  BY <1>1, InvInductive, PTL

-----------------------------------------------------------------------------
(* Machine's words and instructions are those of the layers.               *)

LEMMA NativeWords ==
    /\ \A num, size : Native!Word(num, size) = Word(num, size)
    /\ \A v, size : Native!ZExt(v, size) = ZExt(v, size)
    /\ \A v, size : Native!SExt(v, size) = SExt(v, size)
    /\ \A v, at : Native!Half(v, at) = Half(v, at)
    /\ \A hi, lo : Native!Joined(hi, lo) = Joined(hi, lo)
    /\ \A v : Native!Num(v) = Num(v)
    /\ \A v : Native!Signed(v) = Signed(v)
    /\ \A a, b : Native!Quotient(a, b) = Quotient(a, b)
    /\ \A a, b : Native!Remainder(a, b) = Remainder(a, b)
    /\ \A op, a, b : Native!Alu(op, a, b) = Alu(op, a, b)
<1>1. \A v : Native!Len(v) = Len(v)
  BY DEF Native!Len, Len
<1>2. \A num, size : Native!Word(num, size) = Word(num, size)
  BY DEF Native!Word, Word
<1>3. \A v, size : Native!ZExt(v, size) = ZExt(v, size)
  BY <1>1 DEF Native!ZExt, ZExt
<1>4. \A v, size : Native!SExt(v, size) = SExt(v, size)
  BY <1>1 DEF Native!SExt, SExt
<1>5. \A v, at : Native!Half(v, at) = Half(v, at)
  BY <1>1 DEF Native!Half, Half
<1>6. \A hi, lo : Native!Joined(hi, lo) = Joined(hi, lo)
  BY <1>1 DEF Native!Joined, Joined
<1>7. \A v : Native!Num(v) = Num(v)
  BY <1>1 DEF Native!Num, Num
<1>8. \A v : Native!Signed(v) = Signed(v)
  BY <1>1, <1>7 DEF Native!Signed, Signed, Native!Negative, Negative
<1>9. \A a, b : Native!Quotient(a, b) = Quotient(a, b)
  BY DEF Native!Quotient, Quotient
<1>10. \A a, b : Native!Remainder(a, b) = Remainder(a, b)
  BY <1>9 DEF Native!Remainder, Remainder
<1>11. \A op, a, b : Native!Alu(op, a, b) = Alu(op, a, b)
  <2> SUFFICES ASSUME NEW op, NEW a, NEW b PROVE Native!Alu(op, a, b) = Alu(op, a, b)
    OBVIOUS
  <2>1. QED
    BY <1>1, <1>2, <1>7, <1>8, Zenon DEF Native!Alu, Alu
<1>12. QED
  BY <1>2, <1>3, <1>4, <1>5, <1>6, <1>7, <1>8, <1>9, <1>10, <1>11

LEMMA NativeOperands ==
    /\ Native!Acc = Acc /\ Native!Ext = Ext
    /\ \A o : Native!Size(o) = Size(o)
    /\ \A rsp : Native!Slot(rsp) = Slot(rsp)
    /\ \A s, o : Native!AddrOf(s, o) = AddrOf(s, o)
    /\ \A s, o, size : Native!Get(s, o, size) = Get(s, o, size)
    /\ \A s, o, val : Native!Put(s, o, val) = Put(s, o, val)
    /\ \A s, o : Native!Resolved(s, o) = Resolved(s, o)
<1>1. Native!Acc = Acc /\ Native!Ext = Ext
  BY DEF Native!Acc, Acc, Native!Ext, Ext
<1>2. \A o : Native!Size(o) = Size(o) /\ Native!At(o) = At(o)
  BY DEF Native!Size, Size, Native!At, At, Native!regIdxToAddrSize, regIdxToAddrSize
<1>3. \A rsp : Native!Slot(rsp) = Slot(rsp)
  BY DEF Native!Slot, Slot
<1>4. \A s, o : Native!AddrOf(s, o) = AddrOf(s, o)
  BY NativeWords DEF Native!AddrOf, AddrOf
<1>5. \A s, o, size : Native!Get(s, o, size) = Get(s, o, size)
  BY <1>2, <1>4, NativeWords DEF Native!Get, Get
<1>6. \A con, at, val : Native!Overlay(con, at, val) = Overlay(con, at, val)
  BY DEF Native!Overlay, Overlay
<1>7. \A s, o, val : Native!Put(s, o, val) = Put(s, o, val)
  BY <1>2, <1>4, <1>6 DEF Native!Put, Put, Native!Off, Off
<1>8. \A s, o : Native!Resolved(s, o) = Resolved(s, o)
  BY <1>4 DEF Native!Resolved, Resolved
<1>9. QED
  BY <1>1, <1>2, <1>3, <1>4, <1>5, <1>7, <1>8

LEMMA NativeExec ==
    ASSUME NEW s, NEW i
    PROVE  Native!Exec(s, i) = Exec(s, i) /\ (Native!Runs(s, i) <=> Runs(s, i))
<1>1. Native!Exec(s, i) = Exec(s, i)
  BY NativeWords, NativeOperands
     DEF Native!Exec, Exec, Native!Binary, Binary, Native!Unary, Unary,
         Native!OnlyFlags, OnlyFlags, Native!SetsFlags, SetsFlags
<1>2. Native!Runs(s, i) <=> Runs(s, i)
  BY NativeWords, NativeOperands DEF Native!Runs, Runs
<1>3. QED
  BY <1>1, <1>2

-----------------------------------------------------------------------------
(* What a world sees of a write to the layers.                             *)

LEMMA OffsetFacts ==
    ASSUME NEW at \in Int, NEW size \in Nat, NEW v \in Values(size), NEW o \in Int
    PROVE  /\ o - at \in DOMAIN v <=> o \in Span(at, size)
           /\ DOMAIN v = 0 .. size - 1
<1>1. DOMAIN v = 0 .. size - 1
  BY DEF Values
<1>2. o - at \in 0 .. size - 1 <=> o \in at .. at + size - 1
  OBVIOUS
<1>3. QED
  BY <1>1, <1>2 DEF Span

LEMMA ConSeen ==
    ASSUME NEW D \in SUBSET Int, NEW s \in Good(D), NEW at \in Int, NEW size \in Nat,
           NEW v \in Values(size), NEW w \in Worlds
    PROVE  BytesIn(WriteCon(s, at, at, size, v), w) = Overlay(BytesIn(s, w), at, v)
<1> DEFINE t == WriteCon(s, at, at, size, v)
           f == BytesIn(s, w)
<1>1. /\ s.marked \subseteq D /\ s.content \in [D -> SymBytes \cup {NoSym}] /\ s.con \in [D -> Bit]
  BY GoodFacts
<1>2. f \in [D -> Bit] /\ \A o \in D : f[o] = IF o \in s.marked THEN s.content[o].val[w] ELSE s.con[o]
  BY BytesInFacts
<1>3. /\ t.marked = s.marked \ Span(at, size)
      /\ t.content = [o \in D |-> IF o \in Span(at, size) THEN NoSym ELSE s.content[o]]
      /\ t.con = [o \in D |-> IF o - at \in DOMAIN v THEN v[o - at] ELSE s.con[o]]
  BY <1>1 DEF WriteCon, Overlay
<1>4. BytesIn(t, w) = [o \in D |-> IF o \in t.marked THEN t.content[o].val[w] ELSE t.con[o]]
  BY <1>3 DEF BytesIn
<1>5. Overlay(f, at, v) = [o \in D |-> IF o - at \in DOMAIN v THEN v[o - at] ELSE f[o]]
  BY <1>2 DEF Overlay
<1> HIDE DEF t, f
<1>6. ASSUME NEW o \in D
      PROVE  (IF o \in t.marked THEN t.content[o].val[w] ELSE t.con[o])
               = IF o - at \in DOMAIN v THEN v[o - at] ELSE f[o]
  <2>1. o - at \in DOMAIN v <=> o \in Span(at, size)
    BY OffsetFacts
  <2>2. QED
    BY <1>2, <1>3, <2>1
<1>7. BytesIn(t, w) = Overlay(f, at, v)
  BY <1>4, <1>5, <1>6
<1>8. QED
  BY <1>7 DEF t, f

(* The concrete bytes that are overwritten elsewhere are not looked at.    *)
Unseen(s, at, conAt, size) ==
    conAt = at \/ \A o \in Span(conAt, size) : o \in s.marked /\ o \notin Span(at, size)

LEMMA ExprSeen ==
    ASSUME NEW D \in SUBSET Int, NEW s \in Good(D), NEW at \in Int, NEW size \in Nat,
           NEW conAt \in Int, Unseen(s, at, conAt, size),
           NEW e \in Exprs(size), NEW w \in Worlds
    PROVE  BytesIn(WriteExpr(s, at, conAt, size, e), w) = Overlay(BytesIn(s, w), at, ValueIn(e, w))
<1> DEFINE t == WriteExpr(s, at, conAt, size, e)
           f == BytesIn(s, w)
           v == ValueIn(e, w)
<1>1. /\ s.marked \subseteq D /\ s.content \in [D -> SymBytes \cup {NoSym}] /\ s.con \in [D -> Bit]
  BY GoodFacts
<1>2. f \in [D -> Bit] /\ \A o \in D : f[o] = IF o \in s.marked THEN s.content[o].val[w] ELSE s.con[o]
  BY BytesInFacts
<1>3. /\ t.marked = s.marked \cup Span(at, size)
      /\ t.content = [o \in D |-> IF o \in Span(at, size) THEN e[o - at] ELSE s.content[o]]
      /\ t.con = [o \in D |-> IF o - conAt \in DOMAIN Zeroes(size) THEN Zeroes(size)[o - conAt]
                              ELSE s.con[o]]
  BY <1>1 DEF WriteExpr, Overlay
<1>4. BytesIn(t, w) = [o \in D |-> IF o \in t.marked THEN t.content[o].val[w] ELSE t.con[o]]
  BY <1>3 DEF BytesIn
<1>5. v \in Values(size) /\ \A j \in 0 .. size - 1 : v[j] = e[j].val[w]
  BY ValueInFacts DEF ValueIn, Exprs
<1>6. Overlay(f, at, v) = [o \in D |-> IF o - at \in DOMAIN v THEN v[o - at] ELSE f[o]]
  BY <1>2 DEF Overlay
<1>7. DOMAIN Zeroes(size) = 0 .. size - 1
  BY DEF Zeroes
<1> HIDE DEF t, f, v
<1>8. ASSUME NEW o \in D
      PROVE  (IF o \in t.marked THEN t.content[o].val[w] ELSE t.con[o])
               = IF o - at \in DOMAIN v THEN v[o - at] ELSE f[o]
  <2>1. (o - at \in DOMAIN v <=> o \in Span(at, size)) /\ DOMAIN v = 0 .. size - 1
    BY <1>5, OffsetFacts
  <2>2. o \in Span(at, size) => v[o - at] = e[o - at].val[w]
    BY <1>5, <2>1
  <2>3. o \notin t.marked => t.con[o] = s.con[o]
    <3>1. o \notin t.marked => o \notin Span(conAt, size)
      BY <1>3 DEF Unseen
    <3>2. o - conAt \in 0 .. size - 1 => o \in Span(conAt, size)
      BY DEF Span
    <3>3. QED
      BY <1>3, <1>7, <3>1, <3>2
  <2>4. QED
    BY <1>2, <1>3, <2>1, <2>2, <2>3
<1>9. BytesIn(t, w) = Overlay(f, at, v)
  BY <1>4, <1>6, <1>8
<1>10. QED
  BY <1>9 DEF t, f, v

(* A list of cells: the value has the cells' bytes, else the image's.      *)
ListIn(sym, val, w) ==
    [j \in DOMAIN val |-> IF j \in DOMAIN sym THEN sym[j].val[w] ELSE val[j]]

LEMMA ListSeen ==
    ASSUME NEW D \in SUBSET Int, NEW s \in Good(D), NEW at \in Int, NEW size \in Nat,
           NEW sym, DOMAIN sym \subseteq 0 .. size - 1,
           NEW conAt \in Int, Unseen(s, at, conAt, size),
           conAt # at => DOMAIN sym = 0 .. size - 1,
           NEW val \in Values(size), NEW w \in Worlds
    PROVE  BytesIn(WriteList(s, at, conAt, size, at, sym, val), w)
             = Overlay(BytesIn(s, w), at, ListIn(sym, val, w))
<1> DEFINE t == WriteList(s, at, conAt, size, at, sym, val)
           f == BytesIn(s, w)
           v == ListIn(sym, val, w)
           gap(o) == \E j, k \in DOMAIN sym : at + j <= o /\ o <= at + k
<1>1. /\ s.marked \subseteq D /\ s.content \in [D -> SymBytes \cup {NoSym}] /\ s.con \in [D -> Bit]
  BY GoodFacts
<1>2. f \in [D -> Bit] /\ \A o \in D : f[o] = IF o \in s.marked THEN s.content[o].val[w] ELSE s.con[o]
  BY BytesInFacts
<1>3. /\ t.marked = (s.marked \ Span(at, size)) \cup { o \in D : o - at \in DOMAIN sym }
      /\ t.content = [o \in D |-> IF o - at \in DOMAIN sym THEN sym[o - at]
                                  ELSE IF gap(o) THEN NoSym ELSE s.content[o]]
      /\ t.con = [o \in D |-> IF o - conAt \in DOMAIN val THEN val[o - conAt] ELSE s.con[o]]
  BY <1>1 DEF WriteList, Overlay
<1>4. BytesIn(t, w) = [o \in D |-> IF o \in t.marked THEN t.content[o].val[w] ELSE t.con[o]]
  BY <1>3 DEF BytesIn
<1>5. /\ DOMAIN val = 0 .. size - 1 /\ DOMAIN v = 0 .. size - 1
      /\ \A j \in 0 .. size - 1 : v[j] = IF j \in DOMAIN sym THEN sym[j].val[w] ELSE val[j]
  BY DEF ListIn, Values
<1>6. Overlay(f, at, v) = [o \in D |-> IF o - at \in DOMAIN v THEN v[o - at] ELSE f[o]]
  BY <1>2 DEF Overlay
<1>7. ASSUME NEW o \in D, o \notin Span(at, size)
      PROVE  ~gap(o)
  <2> SUFFICES ASSUME NEW j \in DOMAIN sym, NEW k \in DOMAIN sym, at + j <= o, o <= at + k
               PROVE  FALSE
    OBVIOUS
  <2>1. j \in 0 .. size - 1 /\ k \in 0 .. size - 1 /\ o \in Int
    OBVIOUS
  <2>2. QED
    BY <1>7, <2>1 DEF Span
<1> HIDE DEF t, f, v, gap
<1>8. ASSUME NEW o \in D
      PROVE  (IF o \in t.marked THEN t.content[o].val[w] ELSE t.con[o])
               = IF o - at \in DOMAIN v THEN v[o - at] ELSE f[o]
  <2>1. o - at \in DOMAIN val <=> o \in Span(at, size)
    BY OffsetFacts
  <2>2. CASE o \in Span(at, size)
    <3>1. o - at \in 0 .. size - 1
      BY <1>5, <2>1, <2>2
    <3>2. CASE o - at \in DOMAIN sym
      BY <1>3, <1>5, <3>1, <3>2
    <3>3. CASE o - at \notin DOMAIN sym
      <4>1. conAt = at
        BY <3>1, <3>3
      <4>2. QED
        BY <1>3, <1>5, <2>2, <3>1, <3>3, <4>1
    <3>4. QED
      BY <3>2, <3>3
  <2>3. CASE o \notin Span(at, size)
    <3>1. o - at \notin 0 .. size - 1 /\ o - at \notin DOMAIN sym
      BY <1>5, <2>1, <2>3
    <3>2. o \notin s.marked => t.con[o] = s.con[o]
      <4>1. o \notin s.marked => o \notin Span(conAt, size)
        BY <2>3 DEF Unseen
      <4>2. o - conAt \in 0 .. size - 1 => o \in Span(conAt, size)
        BY DEF Span
      <4>3. QED
        BY <1>3, <1>5, <4>1, <4>2
    <3>3. QED
      BY <1>2, <1>3, <1>5, <1>7, <2>3, <3>1, <3>2
  <2>4. QED
    BY <2>2, <2>3
<1>9. BytesIn(t, w) = Overlay(f, at, v)
  BY <1>4, <1>6, <1>8
<1>10. QED
  BY <1>9 DEF t, f, v

LEMMA ListInTyped ==
    ASSUME NEW size, NEW sym, \A j \in DOMAIN sym : sym[j] \in SymBytes,
           NEW val \in Values(size), NEW w \in Worlds
    PROVE  ListIn(sym, val, w) \in Values(size)
<1>1. \A j \in DOMAIN sym : sym[j].val[w] \in Bit
  BY DEF SymBytes
<1>2. QED
  BY <1>1 DEF ListIn, Values

(* The operand p is for the machine state c what o is for a handler.       *)
SamePlace(c, p, o) == IF IsMem(o) THEN IsMem(p) /\ AddrOf(c, p) = Where(o) ELSE p = o

(* The half of a register that a write of o clears is clear already.       *)
Clean(c, o) ==
    o.k = "reg" /\ o.v = "d" => \A j \in Off : j >= Width \div 2 => c.reg[o.r][j] = 0

LEMMA CleanPut ==
    ASSUME NEW c \in Cpus, NEW o, IsRegister(o), Clean(c, o), NEW v \in Values(Size(o))
    PROVE  Put(c, o, v) = [reg |-> [r \in Regs |-> IF r = o.r THEN Overlay(c.reg[o.r], At(o), v)
                                                   ELSE c.reg[r]],
                           mem |-> c.mem, rsp |-> c.rsp, zf |-> c.zf]
<1> DEFINE old == IF o.v = "d" THEN [j \in Off |-> 0] ELSE c.reg[o.r]
<1>1. c.reg[o.r] \in [Off -> Bit] /\ o.k = "reg" /\ o.r \in Regs
  BY CpuFacts, RegisterFacts
<1>2. \A j \in DOMAIN v : v[j] \in Bit
  BY ValueBits
<1>3. Overlay(old, At(o), v) = Overlay(c.reg[o.r], At(o), v)
  <2>1. CASE o.v # "d"
    BY <2>1
  <2>2. CASE o.v = "d"
    <3>1. At(o) = 0 /\ Size(o) = Width \div 2
      BY <1>1, <2>2 DEF At, Size, regIdxToAddrSize
    <3>2. DOMAIN v = 0 .. (Width \div 2) - 1
      BY <3>1 DEF Values
    <3>3. \A j \in Off : j - 0 \notin DOMAIN v => c.reg[o.r][j] = 0
      BY <1>1, <2>2, <3>2, Parameters DEF Clean, Off
    <3>4. Overlay(old, 0, v) = [j \in Off |-> IF j - 0 \in DOMAIN v THEN v[j - 0] ELSE 0]
      BY <2>2 DEF Overlay
    <3>5. Overlay(c.reg[o.r], 0, v) =
            [j \in Off |-> IF j - 0 \in DOMAIN v THEN v[j - 0] ELSE c.reg[o.r][j]]
      BY <1>1 DEF Overlay
    <3> HIDE DEF old
    <3>6. QED
      BY <3>1, <3>3, <3>4, <3>5
  <2>3. QED
    BY <2>1, <2>2
<1>4. Put(c, o, v) = [reg |-> [r \in Regs |-> IF r = o.r THEN Overlay(old, At(o), v) ELSE c.reg[r]],
                      mem |-> c.mem, rsp |-> c.rsp, zf |-> c.zf]
  BY <1>2, PutFacts
<1> HIDE DEF old
<1>5. QED
  BY <1>3, <1>4

LEMMA Stored ==
    ASSUME NEW m \in VM, NEW o, IsTarget(o), Placed(o),
           NEW zf \in BOOLEAN, NEW w \in Worlds,
           NEW c, c = CpuOf(m, zf, w), Clean(c, o), NEW p, SamePlace(c, p, o),
           NEW s \in Good(Home(o)), NEW v \in Values(Size(o)),
           BytesIn(s, w) = Overlay(BytesIn(StoreIn(m, o), w), Where(o), v)
    PROVE  CpuOf(WithStore(m, o, s), zf, w) = Put(c, p, v)
<1> DEFINE t == WithStore(m, o, s)
<1>1. c \in Cpus
  BY CpuOfFacts
<1>2. /\ c.reg = [r \in Regs |-> BytesIn(m.reg[r], w)] /\ c.mem = BytesIn(m.mem, w)
      /\ c.rsp = m.rsp /\ c.zf = zf
  BY DEF CpuOf
<1>3. IsMem(o) \/ o.r \in Regs
  BY TargetFacts
<1>4. t = IF IsMem(o) THEN [reg |-> m.reg, mem |-> s, rsp |-> m.rsp]
          ELSE [reg |-> [r \in Regs |-> IF r = o.r THEN s ELSE m.reg[r]],
                mem |-> m.mem, rsp |-> m.rsp]
  BY <1>3, WithStoreFacts
<1>5. CpuOf(t, zf, w) = [reg |-> [r \in Regs |-> BytesIn(t.reg[r], w)], mem |-> BytesIn(t.mem, w),
                         rsp |-> t.rsp, zf |-> zf]
  BY DEF CpuOf
<1>6. \A j \in DOMAIN v : v[j] \in Bit
  BY ValueBits
<1> HIDE DEF t
<1>7. CASE IsMem(o)
  <2>1. IsMem(p) /\ AddrOf(c, p) = Where(o)
    BY <1>7 DEF SamePlace
  <2>2. Put(c, p, v) = [reg |-> c.reg, mem |-> Overlay(c.mem, Where(o), v), rsp |-> c.rsp, zf |-> c.zf]
    BY <1>1, <1>6, <2>1, PutFacts
  <2>3. StoreIn(m, o) = m.mem
    BY <1>7 DEF StoreIn
  <2>4. t.reg = m.reg /\ t.mem = s /\ t.rsp = m.rsp
    BY <1>4, <1>7
  <2>5. BytesIn(t.mem, w) = Overlay(c.mem, Where(o), v)
    BY <1>2, <2>3, <2>4
  <2>6. [r \in Regs |-> BytesIn(t.reg[r], w)] = c.reg
    BY <1>2, <2>4
  <2>7. QED
    BY <1>2, <1>5, <2>2, <2>4, <2>5, <2>6 DEF t
<1>8. CASE ~IsMem(o)
  <2>1. p = o /\ IsRegister(o) /\ o.r \in Regs /\ Where(o) = At(o)
    BY <1>8, TargetFacts, RegisterIsTarget DEF SamePlace
  <2>2. Put(c, p, v) = [reg |-> [r \in Regs |-> IF r = o.r THEN Overlay(c.reg[o.r], Where(o), v)
                                                ELSE c.reg[r]],
                        mem |-> c.mem, rsp |-> c.rsp, zf |-> c.zf]
    BY <1>1, <2>1, CleanPut
  <2>3. StoreIn(m, o) = m.reg[o.r]
    BY <1>8 DEF StoreIn
  <2>4. /\ t.reg = [r \in Regs |-> IF r = o.r THEN s ELSE m.reg[r]]
        /\ t.mem = m.mem /\ t.rsp = m.rsp
    BY <1>4, <1>8
  <2>5. \A r \in Regs : BytesIn(t.reg[r], w) =
                IF r = o.r THEN Overlay(c.reg[o.r], Where(o), v) ELSE c.reg[r]
    <3>1. c.reg[o.r] = BytesIn(m.reg[o.r], w)
      BY <1>2, <2>1
    <3>2. BytesIn(s, w) = Overlay(c.reg[o.r], Where(o), v)
      BY <2>3, <3>1
    <3>3. QED
      BY <1>2, <2>4, <3>2
  <2>6. QED
    BY <1>2, <1>5, <2>2, <2>4, <2>5 DEF t
<1>9. QED
  BY <1>7, <1>8

(* A write of o to the layers m leaves no other byte changed.              *)
Settled(m, o) == Unseen(StoreIn(m, o), Where(o), ConWhere(o), Size(o))

LEMMA StoredCon ==
    ASSUME NEW m \in VM, NEW o, IsTarget(o), Placed(o), ConWhere(o) = Where(o),
           NEW zf \in BOOLEAN, NEW w \in Worlds,
           NEW c, c = CpuOf(m, zf, w), Clean(c, o), NEW p, SamePlace(c, p, o),
           NEW v \in Values(Size(o))
    PROVE  CpuOf(setConValue(m, o, v), zf, w) = Put(c, p, v)
<1> DEFINE s == WriteCon(StoreIn(m, o), Where(o), Where(o), Size(o), v)
<1>1. StoreIn(m, o) \in Good(Home(o)) /\ Home(o) \in SUBSET Int /\ Where(o) \in Int /\ Size(o) \in Nat
  BY TargetFacts, StoreFacts, PlacedFacts
<1>2. BytesIn(s, w) = Overlay(BytesIn(StoreIn(m, o), w), Where(o), v)
  BY <1>1, ConSeen
<1>3. s \in Good(Home(o))
  BY <1>1, ValueBits, WriteConGood
<1>4. setConValue(m, o, v) = WithStore(m, o, s)
  BY DEF setConValue
<1> HIDE DEF s
<1>5. QED
  BY <1>2, <1>3, <1>4, Stored

LEMMA StoredSym ==
    ASSUME NEW m \in VM, NEW o, IsTarget(o), Placed(o), Settled(m, o),
           NEW zf \in BOOLEAN, NEW w \in Worlds,
           NEW c, c = CpuOf(m, zf, w), Clean(c, o), NEW p, SamePlace(c, p, o),
           NEW e \in Exprs(Size(o))
    PROVE  CpuOf(setSymValue(m, o, e), zf, w) = Put(c, p, ValueIn(e, w))
<1> DEFINE s == WriteExpr(StoreIn(m, o), Where(o), ConWhere(o), Size(o), e)
<1>1. /\ StoreIn(m, o) \in Good(Home(o)) /\ Home(o) \in SUBSET Int
      /\ Where(o) \in Int /\ ConWhere(o) \in Int /\ Size(o) \in Nat
  BY TargetFacts, StoreFacts, PlacedFacts DEF Placed
<1>2. BytesIn(s, w) = Overlay(BytesIn(StoreIn(m, o), w), Where(o), ValueIn(e, w))
  BY <1>1, ExprSeen DEF Settled
<1>3. s \in Good(Home(o))
  BY <1>1, PlacedFacts, WriteExprGood
<1>4. setSymValue(m, o, e) = WithStore(m, o, s)
  BY DEF setSymValue
<1>5. ValueIn(e, w) \in Values(Size(o))
  BY ValueInFacts
<1> HIDE DEF s
<1>6. QED
  BY <1>2, <1>3, <1>4, <1>5, Stored

LEMMA StoredList ==
    ASSUME NEW m \in VM, NEW o, IsTarget(o), Placed(o), ~IsMem(o) => o.v # "h", Settled(m, o),
           NEW zf \in BOOLEAN, NEW w \in Worlds,
           NEW c, c = CpuOf(m, zf, w), Clean(c, o), NEW p, SamePlace(c, p, o),
           NEW src,
           DOMAIN src.cells \subseteq 0 .. Size(o) - 1,
           \A j \in DOMAIN src.cells : src.cells[j] \in SymBytes,
           ConWhere(o) # Where(o) => DOMAIN src.cells = 0 .. Size(o) - 1,
           src.image \in Values(Size(o))
    PROVE  CpuOf(setSymList(m, o, src), zf, w) = Put(c, p, ListIn(src.cells, src.image, w))
<1> DEFINE s == WriteList(StoreIn(m, o), Where(o), ConWhere(o), Size(o), Where(o),
                          src.cells, src.image)
<1>1. /\ StoreIn(m, o) \in Good(Home(o)) /\ Home(o) \in SUBSET Int
      /\ Where(o) \in Int /\ ConWhere(o) \in Int /\ Size(o) \in Nat
  BY TargetFacts, StoreFacts, PlacedFacts DEF Placed
<1>2. BytesIn(s, w) = Overlay(BytesIn(StoreIn(m, o), w), Where(o), ListIn(src.cells, src.image, w))
  BY <1>1, ListSeen DEF Settled
<1>3. s \in Good(Home(o))
  BY <1>1, ValueBits, WriteListGood
<1>4. setSymList(m, o, src) = WithStore(m, o, s)
  BY ListBase DEF setSymList
<1>5. ListIn(src.cells, src.image, w) \in Values(Size(o))
  BY ListInTyped
<1> HIDE DEF s
<1>6. QED
  BY <1>2, <1>3, <1>4, <1>5, Stored

-----------------------------------------------------------------------------
(* What a handler reads is what the machine reads in a world.              *)

(* No symbol of the operand lies in a byte that is not marked.             *)
Fresh(o) ==
    IsSymOpd(o) =>
        \A a \in Span(Where(o), Size(o)) : a \notin Store(o).marked => Store(o).content[a] = NoSym

LEMMA SeenBytes ==
    ASSUME IInv, NEW o, IsTarget(o), Placed(o), NEW w \in Worlds, SamePlace(CpuIn(w), o, o), NEW size
    PROVE  /\ Get(CpuIn(w), o, size) = [j \in 0 .. Size(o) - 1 |-> BytesIn(Store(o), w)[Where(o) + j]]
           /\ Get(CpuIn(w), o, size) \in Values(Size(o))
<1>1. CpuIn(w) \in Cpus
  BY CpusTyped
<1>2. CASE IsMem(o)
  <2>1. AddrOf(CpuIn(w), o) = Where(o) /\ CpuIn(w).mem = BytesIn(Store(o), w)
    BY <1>2 DEF SamePlace, CpuIn, Store
  <2>2. Where(o) \in Nat /\ Size(o) \in Nat /\ Where(o) + Size(o) <= MemSize
    BY <1>2, Parameters DEF Placed, Room
  <2>3. QED
    BY <1>1, <1>2, <2>1, <2>2, GetFacts
<1>3. CASE ~IsMem(o)
  <2>1. IsRegister(o) /\ o.k = "reg" /\ o.r \in Regs /\ Where(o) = At(o)
    BY <1>3, TargetFacts, RegisterIsTarget
  <2>2. CpuIn(w).reg[o.r] = BytesIn(Store(o), w)
    BY <1>3, <2>1 DEF CpuIn, Store
  <2>3. QED
    BY <1>1, <2>1, <2>2, GetFacts
<1>4. QED
  BY <1>2, <1>3

(* The bytes of an operand, one by one.                                    *)
LEMMA SeenByte ==
    ASSUME IInv, NEW o, Placed(o), IsMem(o) \/ o.r \in Regs, NEW w \in Worlds,
           NEW j \in 0 .. Size(o) - 1
    PROVE  LET a == Where(o) + j
           IN  /\ BytesIn(Store(o), w)[a] =
                    IF a \in Store(o).marked THEN Store(o).content[a].val[w] ELSE Store(o).con[a]
               /\ a \in Store(o).marked => Store(o).content[a] # NoSym
               /\ a \in Span(Where(o), Size(o))
<1>1. vm \in VM
  BY InvFacts
<1>2. Store(o) \in Good(Home(o)) /\ Where(o) + j \in Home(o)
  BY <1>1, ReadFacts
<1>3. QED
  BY <1>2, BytesInFacts, GoodFacts, PlacedFacts

LEMMA SeenCon ==
    ASSUME IInv, NEW o, IsTarget(o), Placed(o), ~IsSymOpd(o), NEW w \in Worlds,
           SamePlace(CpuIn(w), o, o), NEW size
    PROVE  Get(HostCpu, o, size) = Get(CpuIn(w), o, size)
<1>1. IsMem(o) \/ o.r \in Regs
  BY TargetFacts
<1>2. \A j \in 0 .. Size(o) - 1 : BytesIn(Store(o), w)[Where(o) + j] = Store(o).con[Where(o) + j]
  BY <1>1, SeenByte DEF IsSymOpd, IsSym
<1>3. Get(CpuIn(w), o, size) = [j \in 0 .. Size(o) - 1 |-> BytesIn(Store(o), w)[Where(o) + j]]
  BY SeenBytes
<1>4. Get(HostCpu, o, size) = [j \in 0 .. Size(o) - 1 |-> Store(o).con[Where(o) + j]]
  BY HostGet
<1>5. QED
  BY <1>2, <1>3, <1>4

(* A byte register that is symbolic has a symbol in its only byte.         *)
LEMMA SeenFound ==
    ASSUME IInv, NEW o, Placed(o), IsTarget(o) \/ (o.k = "sum" /\ o.r \in Regs),
           IsSymOpd(o), Fresh(o), NEW w \in Worlds
    PROVE  /\ Found(o, w) = [j \in 0 .. Size(o) - 1 |-> BytesIn(Store(o), w)[Where(o) + j]]
           /\ ConWhere(o) # Where(o) => Size(o) = 1
           /\ Size(o) = 1 => Store(o).content[Where(o)] # NoSym
<1>1. vm \in VM /\ (IsMem(o) \/ o.r \in Regs)
  BY InvFacts, TargetFacts
<1>2. ConWhere(o) # Where(o) => Size(o) = 1
  BY ConPlaced, SumFacts
<1>3. ASSUME Size(o) = 1, NEW j \in 0 .. Size(o) - 1
      PROVE  Where(o) + j \in Store(o).marked /\ j = 0
  <2>1. Where(o) \in Nat
    BY DEF Placed
  <2>2. Span(Where(o), Size(o)) = {Where(o)} /\ j = 0
    BY <1>3, <2>1 DEF Span
  <2>3. QED
    BY <2>1, <2>2 DEF IsSymOpd, IsSym
<1>4. ASSUME NEW j \in 0 .. Size(o) - 1
      PROVE  BytesIn(Store(o), w)[Where(o) + j] =
                IF Store(o).content[Where(o) + j] # NoSym THEN Store(o).content[Where(o) + j].val[w]
                ELSE Store(o).con[ConWhere(o) + j]
  <2>1. CASE ConWhere(o) = Where(o)
    BY <1>1, <2>1, SeenByte DEF Fresh
  <2>2. CASE ConWhere(o) # Where(o)
    BY <1>1, <1>2, <1>3, <2>2, SeenByte
  <2>3. QED
    BY <2>1, <2>2
<1>5. Size(o) = 1 => Store(o).content[Where(o)] # NoSym
  <2> SUFFICES ASSUME Size(o) = 1
               PROVE  Store(o).content[Where(o)] # NoSym
    OBVIOUS
  <2>1. 0 \in 0 .. Size(o) - 1 /\ Where(o) + 0 = Where(o)
    BY DEF Placed
  <2>2. QED
    BY <1>1, <1>3, <2>1, SeenByte
<1>6. QED
  BY <1>2, <1>4, <1>5 DEF Found

LEMMA SeenSym ==
    ASSUME IInv, NEW o, IsTarget(o), Placed(o), IsSymOpd(o), Fresh(o), NEW w \in Worlds,
           SamePlace(CpuIn(w), o, o), NEW size
    PROVE  LET cells == CellsOf(Store(o), Where(o), Size(o))
               image == ImageOf(Store(o), ConWhere(o), Size(o))
           IN  /\ ValueIn(getSymValue(o), w) = Get(CpuIn(w), o, size)
               /\ ListIn(cells, image, w) = Get(CpuIn(w), o, size)
               /\ Size(o) = 1 => DOMAIN cells = 0 .. Size(o) - 1
<1> DEFINE cells == CellsOf(Store(o), Where(o), Size(o))
           image == ImageOf(Store(o), ConWhere(o), Size(o))
<1>1. vm \in VM /\ (IsMem(o) \/ o.r \in Regs) /\ o.k # "sum"
  BY InvFacts, TargetFacts
<1>2. Get(CpuIn(w), o, size) = Found(o, w)
  <2>1. Get(CpuIn(w), o, size) = [j \in 0 .. Size(o) - 1 |-> BytesIn(Store(o), w)[Where(o) + j]]
    BY SeenBytes
  <2>2. Found(o, w) = [j \in 0 .. Size(o) - 1 |-> BytesIn(Store(o), w)[Where(o) + j]]
    BY SeenFound
  <2>3. QED
    BY <2>1, <2>2
<1>3. /\ cells = [j \in { k \in 0 .. Size(o) - 1 : Store(o).content[Where(o) + k] # NoSym } |->
                        Store(o).content[Where(o) + j]]
      /\ image = [j \in 0 .. Size(o) - 1 |-> Store(o).con[ConWhere(o) + j]]
  BY <1>1, ListFacts
<1>4. ValueIn(getSymValue(o), w) = Found(o, w)
  BY <1>1, SymValueFacts
<1> HIDE DEF cells, image
<1>5. ListIn(cells, image, w) = Found(o, w)
  BY <1>3 DEF ListIn, Found
<1>6. Size(o) = 1 => DOMAIN cells = 0 .. Size(o) - 1
  <2> SUFFICES ASSUME Size(o) = 1
               PROVE  DOMAIN cells = 0 .. Size(o) - 1
    OBVIOUS
  <2>1. Store(o).content[Where(o)] # NoSym /\ Where(o) + 0 = Where(o)
    BY SeenFound DEF Placed
  <2>2. \A k \in 0 .. Size(o) - 1 : k = 0
    OBVIOUS
  <2>3. QED
    BY <1>3, <2>1, <2>2
<1>7. QED
  BY <1>2, <1>4, <1>5, <1>6 DEF cells, image

(* The register under a lea.                                               *)
LEMMA SumByte ==
    ASSUME IInv, NEW o, o.k = "sum", o.r \in Regs, NEW w \in Worlds
    PROVE  /\ CpuIn(w).reg[o.r] = [j \in Off |-> BytesIn(Store(o), w)[Where(o) + j]]
           /\ Store(o) = vm.reg[o.r] /\ Size(o) = Width /\ Where(o) = 0
<1>1. Store(o) = vm.reg[o.r] /\ Size(o) = Width /\ Where(o) = 0
  BY SumFacts DEF Store
<1>2. CpuIn(w).reg[o.r] = BytesIn(vm.reg[o.r], w) /\ CpuIn(w) \in Cpus
  BY CpusTyped DEF CpuIn
<1>3. CpuIn(w).reg[o.r] \in [Off -> Bit]
  BY <1>2, CpuFacts
<1>4. \A j \in Off : 0 + j = j
  BY DEF Off
<1>5. QED
  BY <1>1, <1>2, <1>3, <1>4

LEMMA SeenSum ==
    ASSUME IInv, NEW o, o.k = "sum", o.r \in Regs, Fresh(o), NEW w \in Worlds
    PROVE  /\ IsSymOpd(o) => ValueIn(getSymValue(o), w) = Get(CpuIn(w), o, Width)
           /\ ~IsSymOpd(o) => Get(HostCpu, o, Width) = Get(CpuIn(w), o, Width)
<1>1. /\ CpuIn(w).reg[o.r] = [j \in Off |-> BytesIn(Store(o), w)[Where(o) + j]]
      /\ Store(o) = vm.reg[o.r] /\ Size(o) = Width /\ Where(o) = 0
      /\ ~IsMem(o) /\ Placed(o) /\ 0 .. Size(o) - 1 = Off /\ vm \in VM
  BY SumByte, SumFacts, InvFacts DEF Off
<1>2. Get(CpuIn(w), o, Width) = Word(Num(CpuIn(w).reg[o.r]) + o.c, Width)
  BY DEF Get
<1>3. ASSUME IsSymOpd(o)
      PROVE  ValueIn(getSymValue(o), w) = Get(CpuIn(w), o, Width)
  <2>1. Found(o, w) = CpuIn(w).reg[o.r]
    <3>1. Found(o, w) = [j \in 0 .. Size(o) - 1 |-> BytesIn(Store(o), w)[Where(o) + j]]
      BY <1>1, <1>3, SeenFound
    <3>2. QED
      BY <1>1, <3>1
  <2>2. ValueIn(getSymValue(o), w) = Word(Num(Found(o, w)) + o.c, Width)
    BY <1>1, SymValueFacts
  <2>3. QED
    BY <1>2, <2>1, <2>2
<1>4. ASSUME ~IsSymOpd(o)
      PROVE  Get(HostCpu, o, Width) = Get(CpuIn(w), o, Width)
  <2>1. Get(HostCpu, o, Width) = Word(Num(HostCpu.reg[o.r]) + o.c, Width)
    BY DEF Get
  <2>2. HostCpu.reg[o.r] = CpuIn(w).reg[o.r]
    <3>1. vm \in VM /\ ~IsSym(vm.reg[o.r], 0, Width)
      BY <1>1, <1>4, InvFacts DEF IsSymOpd
    <3>2. BytesIn(vm.reg[o.r], w) = vm.reg[o.r].con
      BY <3>1, AddressConcrete
    <3>3. QED
      BY <3>2 DEF CpuIn, HostCpu
  <2>3. QED
    BY <1>2, <2>1, <2>2
<1>5. QED
  BY <1>3, <1>4

-----------------------------------------------------------------------------
(* An instruction in a world of the path.                                  *)

LEMMA WorldFacts ==
    ASSUME IInv, NEW i, Ready(i), NEW w \in path
    PROVE  /\ w \in Worlds /\ flags.zf[w] \in BOOLEAN /\ vm \in VM
           /\ CpuIn(w) \in Cpus /\ CpuIn(w) = CpuOf(vm, flags.zf[w], w)
           /\ CpuIn(w)' = CpuOf(vm', flags'.zf[w], w)
           /\ CpuIn(w).rsp = vm.rsp /\ CpuIn(w).zf = flags.zf[w]
           /\ \A o \in {i.dst, i.src} :
                IsTarget(o) => Placed(o) /\ SamePlace(CpuIn(w), o, o)
<1>1. vm \in VM /\ flags.zf \in [Worlds -> BOOLEAN] /\ path \subseteq Worlds
  BY InvFacts
<1>2. CpuIn(w) \in Cpus /\ CpuIn(w) = CpuOf(vm, flags.zf[w], w)
  BY <1>1, CpusTyped
<1>3. CpuIn(w)' = CpuOf(vm', flags'.zf[w], w)
  BY DEF CpuIn, CpuOf
<1>4. CpuIn(w).rsp = vm.rsp /\ CpuIn(w).zf = flags.zf[w]
  BY DEF CpuIn
<1>5. QED
  BY <1>1, <1>2, <1>3, <1>4, ReadyFacts DEF SamePlace

LEMMA CleanFacts ==
    ASSUME IInv, NEW i, ~KeepsUpperHalf(i), NEW w \in path
    PROVE  \A o \in Written(i) : IsTarget(o) => Clean(CpuIn(w), o)
<1>1. ASSUME NEW o \in Written(i), IsTarget(o)
      PROVE  Clean(CpuIn(w), o)
  <2> SUFFICES ASSUME o.k = "reg", o.v = "d", NEW j \in Off, j >= Width \div 2
               PROVE  CpuIn(w).reg[o.r][j] = 0
    BY DEF Clean
  <2>1. o.r \in Regs
    BY <1>1, TargetFacts
  <2>2. CpuIn(w).reg[o.r] = BytesIn(vm.reg[o.r], w)
    BY <2>1 DEF CpuIn
  <2>3. QED
    BY <1>1, <2>2 DEF KeepsUpperHalf
<1>2. QED
  BY <1>1

LEMMA WrittenFacts ==
    ASSUME NEW i, i.op \notin OnlyFlags
    PROVE  i.dst \in Written(i) /\ (i.op = "xchg" => i.src \in Written(i))
BY DEF Written

(* The instruction is emulated.                                            *)
Handled(i) == hasSymOperand(i) \/ Decides(i)

(* The concrete value of the operand, if it has one, is sought in its place. *)
Readable(o) == ~IsSymOpd(o) => ConWhere(o) = Where(o)

LEMMA ByteFacts ==
    ASSUME NEW i, ~SecondByte(i), Handled(i)
    PROVE  /\ \A o \in ReadBy(i) : IsTarget(o) => Readable(o)
           /\ \A o \in Written(i) :
                IsTarget(o) =>
                    /\ Settled(vm, o)
                    /\ \/ ConWhere(o) = Where(o)
                       \/ i.op \in Binary \cup Unary
                       \/ \A p \in ReadBy(i) : symb(i, p)
<1>1. ASSUME NEW o \in ReadBy(i), IsTarget(o)
      PROVE  Readable(o)
  <2>1. o.k # "reg" => ConWhere(o) = Where(o)
    BY <1>1, ConPlaced
  <2>2. QED
    BY <1>1, <2>1 DEF Readable, SecondByte, Handled
<1>2. ASSUME NEW o \in Written(i), IsTarget(o), ConWhere(o) # Where(o)
      PROVE  /\ Settled(vm, o)
             /\ i.op \in Binary \cup Unary \/ \A p \in ReadBy(i) : symb(i, p)
  <2>1. o.k = "reg" /\ ConWhere(o) = 1 /\ Where(o) = 0 /\ Size(o) = 1
    BY <1>2, ConPlaced
  <2>2. /\ ConWhere(o) \in Store(o).marked
        /\ i.op \in Binary \cup Unary \/ \A p \in ReadBy(i) : symb(i, p)
    BY <1>2, <2>1 DEF SecondByte, Handled
  <2>3. Span(1, 1) = {1} /\ 1 \notin Span(0, 1)
    BY DEF Span
  <2>4. Store(o) = StoreIn(vm, o)
    BY DEF Store, StoreIn
  <2>5. QED
    BY <2>1, <2>2, <2>3, <2>4 DEF Settled, Unseen
<1>3. ASSUME NEW o \in Written(i), IsTarget(o), ConWhere(o) = Where(o)
      PROVE  Settled(vm, o)
  BY <1>3 DEF Settled, Unseen
<1>4. QED
  BY <1>1, <1>2, <1>3

(* Only byte registers have their concrete value elsewhere.                *)
LEMMA WideFacts ==
    ASSUME NEW o, IsTarget(o), IsMem(o) \/ Size(o) = Width
    PROVE  ConWhere(o) = Where(o) /\ Readable(o) /\ \A m : Settled(m, o)
<1>1. Width # 1 /\ (IsMem(o) => o.k # "reg")
  BY Parameters DEF IsMem
<1>2. ConWhere(o) = Where(o)
  BY <1>1, ConPlaced
<1>3. QED
  BY <1>2 DEF Readable, Settled, Unseen

LEMMA FreshFacts ==
    ASSUME NEW i, ~ReadsStale(i)
    PROVE  /\ \A o \in Operands(i) : Fresh(o)
           /\ i.op = "pop" => Fresh(Slot(vm.rsp))
BY DEF ReadsStale, Fresh

LEMMA OperandFacts ==
    ASSUME NEW i
    PROVE  /\ \A o \in {i.dst, i.src} : IsTarget(o) \/ o.k = "sum" => o \in Operands(i)
           /\ i.op \in {"cbw", "cdq", "mul", "idiv"} => Acc \in Operands(i)
           /\ i.op \in {"cdq", "mul", "idiv"} => Ext \in Operands(i)
<1>1. \A o \in {i.dst, i.src} : IsTarget(o) \/ o.k = "sum" => o.k \notin {"imm", "none"}
  BY TargetFacts
<1>2. QED
  BY <1>1 DEF Operands, Implied

LEMMA OperandSeen ==
    ASSUME IInv, NEW o, IsTarget(o), Placed(o), Fresh(o),
           NEW w \in Worlds, SamePlace(CpuIn(w), o, o), NEW size
    PROVE  /\ Get(CpuIn(w), o, size) \in Values(Size(o))
           /\ IsSymOpd(o) => ValueIn(getSymValue(o), w) = Get(CpuIn(w), o, size)
           /\ ~IsSymOpd(o) => /\ Get(HostCpu, o, size) = Get(CpuIn(w), o, size)
                              /\ Readable(o) =>
                                    getConValue(o, Size(o)) = Get(CpuIn(w), o, size)
           /\ getSymValue(o) \in Exprs(Size(o))
           /\ getConValue(o, Size(o)) \in Values(Size(o))
<1>1. vm \in VM /\ o.k # "sum" /\ (IsMem(o) \/ o.r \in Regs)
  BY InvFacts, TargetFacts
<1>2. Size(o) \in 1 .. 2 * Width
  BY Parameters DEF Placed
<1>3. /\ getConValue(o, Size(o)) \in Values(Size(o))
      /\ getConValue(o, Size(o)) = [j \in 0 .. Size(o) - 1 |-> Store(o).con[ConWhere(o) + j]]
  BY <1>2, ConValueFacts
<1>4. getSymValue(o) \in Exprs(Size(o))
  BY <1>1, SymValueFacts
<1>5. Get(HostCpu, o, size) = [j \in 0 .. Size(o) - 1 |-> Store(o).con[Where(o) + j]]
  BY HostGet
<1>6. ~IsSymOpd(o) => Get(HostCpu, o, size) = Get(CpuIn(w), o, size)
  BY SeenCon
<1>7. IsSymOpd(o) => ValueIn(getSymValue(o), w) = Get(CpuIn(w), o, size)
  BY SeenSym
<1>8. Get(CpuIn(w), o, size) \in Values(Size(o))
  BY SeenBytes
<1>9. ~IsSymOpd(o) /\ Readable(o) => getConValue(o, Size(o)) = Get(CpuIn(w), o, size)
  BY <1>3, <1>5, <1>6 DEF Readable
<1>10. QED
  BY <1>3, <1>4, <1>6, <1>7, <1>8, <1>9

LEMMA ImmSeen ==
    ASSUME IInv, NEW o, o.k = "imm", NEW size \in 1 .. 2 * Width, NEW w
    PROVE  /\ getConValue(o, size) = Get(CpuIn(w), o, size)
           /\ Get(HostCpu, o, size) = Get(CpuIn(w), o, size)
           /\ getConValue(o, size) \in Values(size)
<1>1. getConValue(o, size) \in Values(size) /\ getConValue(o, size) = Get(HostCpu, o, size)
  BY ConValueFacts
<1>2. Get(HostCpu, o, size) = Get(CpuIn(w), o, size)
  BY DEF Get
<1>3. QED
  BY <1>1, <1>2

(* Every operand that is read is looked at.                                *)
LEMMA SymbIs ==
    ASSUME NEW i, NEW o
    PROVE  /\ o.k = "imm" => symb(i, o) = FALSE
           /\ IsTarget(o) /\ (IsMem(o) /\ WritesOnly(i.op) => o # i.dst) => symb(i, o) = IsSymOpd(o)
           /\ o.k = "sum" => symb(i, o) = IsSymOpd(o)
<1>1. IsTarget(o) => (IsMem(o) <=> o.k # "reg")
  BY TargetFacts
<1>2. IsSymOpd(o) \in BOOLEAN
  BY DEF IsSymOpd, IsSym
<1>3. QED
  BY <1>1, <1>2 DEF symb, IsMem, mayOperandUseSymbol_XX, mayOperandUseSymbol_RX,
                   mayOperandUseSymbol_XW, mayOperandUseSymbol_RW

LEMMA MixedSeen ==
    ASSUME IInv, NEW i, NEW o, NEW size \in 1 .. Width, NEW w \in Worlds,
           \/ o.k = "imm"
           \/ /\ IsTarget(o) /\ Placed(o) /\ Fresh(o) /\ SamePlace(CpuIn(w), o, o)
              /\ Readable(o) /\ Size(o) = size /\ ~WritesOnly(i.op)
    PROVE  Mixed(i, o, size, w) = Get(CpuIn(w), o, size)
<1>1. size \in 1 .. 2 * Width
  BY Parameters
<1>2. CASE o.k = "imm"
  BY <1>1, <1>2, SymbIs, ImmSeen DEF Mixed
<1>3. CASE /\ IsTarget(o) /\ Placed(o) /\ Fresh(o) /\ SamePlace(CpuIn(w), o, o)
           /\ Readable(o) /\ Size(o) = size /\ ~WritesOnly(i.op)
  <2>1. symb(i, o) = IsSymOpd(o)
    BY <1>3, SymbIs
  <2>2. /\ IsSymOpd(o) => ValueIn(getSymValue(o), w) = Get(CpuIn(w), o, size)
        /\ ~IsSymOpd(o) => getConValue(o, size) = Get(CpuIn(w), o, size)
    BY <1>3, OperandSeen
  <2>3. QED
    BY <2>1, <2>2 DEF Mixed
<1>4. QED
  BY <1>2, <1>3

LEMMA ReadSeen ==
    ASSUME IInv, NEW i, Ready(i), ~ReadsStale(i), NEW w \in path,
           NEW o \in {i.dst, i.src}, IsTarget(o), NEW size
    PROVE  /\ Placed(o) /\ SamePlace(CpuIn(w), o, o) /\ Fresh(o)
           /\ Get(CpuIn(w), o, size) \in Values(Size(o))
           /\ IsSymOpd(o) => ValueIn(getSymValue(o), w) = Get(CpuIn(w), o, size)
           /\ ~IsSymOpd(o) /\ Readable(o) => getConValue(o, Size(o)) = Get(CpuIn(w), o, size)
           /\ getSymValue(o) \in Exprs(Size(o))
           /\ getConValue(o, Size(o)) \in Values(Size(o))
<1>1. Placed(o) /\ SamePlace(CpuIn(w), o, o) /\ w \in Worlds
  BY WorldFacts
<1>2. Fresh(o)
  BY FreshFacts, OperandFacts
<1>3. QED
  BY <1>1, <1>2, OperandSeen

(* What an instruction puts into a register is found there.                *)
LEMMA GetPut ==
    ASSUME NEW c \in Cpus, NEW o, IsRegister(o), NEW v \in Values(Size(o)), NEW size
    PROVE  Get(Put(c, o, v), o, size) = v
<1> DEFINE old == IF o.v = "d" THEN [j \in Off |-> 0] ELSE c.reg[o.r]
           n == Overlay(old, At(o), v)
<1>1. /\ o.k = "reg" /\ o.r \in Regs /\ At(o) \in Nat /\ Size(o) \in Nat
      /\ At(o) + Size(o) <= Width /\ Width \in Nat
  BY RegisterFacts, Parameters
<1>2. (\A j \in DOMAIN v : v[j] \in Bit) /\ DOMAIN v = 0 .. Size(o) - 1
  BY ValueBits DEF Values
<1>3. Put(c, o, v) = [reg |-> [r \in Regs |-> IF r = o.r THEN n ELSE c.reg[r]],
                      mem |-> c.mem, rsp |-> c.rsp, zf |-> c.zf]
  BY <1>2, PutFacts
<1>4. DOMAIN old = 0 .. Width - 1
  BY <1>1, CpuFacts DEF Off
<1>5. ASSUME NEW j \in 0 .. Size(o) - 1
      PROVE  n[At(o) + j] = v[j]
  <2>1. At(o) + j \in 0 .. Width - 1 /\ (At(o) + j) - At(o) = j
    BY <1>1
  <2>2. QED
    BY <1>2, <1>4, <2>1 DEF Overlay
<1> HIDE DEF n
<1>6. Get(Put(c, o, v), o, size) = [j \in 0 .. Size(o) - 1 |-> n[At(o) + j]]
  BY <1>1, <1>3 DEF Get
<1>7. v = [j \in 0 .. Size(o) - 1 |-> v[j]]
  BY DEF Values
<1>8. QED
  BY <1>5, <1>6, <1>7

LEMMA MovSame ==
    ASSUME IInv, NEW i, Ready(i), ~Deviates(i), Handled(i), process_mov(i),
           status' # "abort", NEW w \in path
    PROVE  CpuIn(w)' = Exec(CpuIn(w), i)
<1> DEFINE src == parseSource(i.src)
           size == Size(i.dst)
           b == Get(CpuIn(w), i.src, size)
<1>1. /\ i.op = "mov" /\ ~ReadsStale(i) /\ ~KeepsUpperHalf(i) /\ ~SecondByte(i)
      /\ WellFormed(i)
  BY ReadyFacts DEF process_mov, Deviates
<1>2. /\ IsTarget(i.dst) /\ IsSource(i.src)
      /\ i.src.k = "imm" \/ Size(i.src) = size
      /\ ~(IsMem(i.dst) /\ IsMem(i.src))
  BY <1>1, FormFacts
<1>3. /\ w \in Worlds /\ flags.zf[w] \in BOOLEAN /\ vm \in VM
      /\ CpuIn(w) = CpuOf(vm, flags.zf[w], w) /\ CpuIn(w)' = CpuOf(vm', flags'.zf[w], w)
      /\ Placed(i.dst) /\ SamePlace(CpuIn(w), i.dst, i.dst) /\ Clean(CpuIn(w), i.dst)
  BY <1>1, <1>2, WorldFacts, CleanFacts, WrittenFacts DEF OnlyFlags
<1>4. /\ Settled(vm, i.dst) /\ (ConWhere(i.dst) = Where(i.dst) \/ symb(i, i.src))
      /\ IsTarget(i.src) => Readable(i.src)
  <2>1. i.src \in ReadBy(i) /\ i.dst \in Written(i) /\ i.op \notin Binary \cup Unary
    BY <1>1 DEF ReadBy, Written, OnlyFlags, Binary, Unary
  <2>2. QED
    BY <1>1, <1>2, <2>1, ByteFacts
<1>5. Exec(CpuIn(w), i) = Put(CpuIn(w), i.dst, b)
  BY <1>1, ExecIs
<1>6. size \in 1 .. 2 * Width
  BY <1>2, TargetFacts, Parameters
<1>7. IF src.symb THEN Writes(setSymList(vm, i.dst, src))
      ELSE Writes(setConValue(vm, i.dst, getConValue(i.src, size)))
  BY DEF process_mov, Abort
<1> HIDE DEF size
<1>8. CASE src.symb
  <2>1. i.src.k # "imm"
    BY <1>8 DEF parseSource
  <2>2. IsTarget(i.src) /\ Size(i.src) = size
    BY <1>2, <2>1 DEF IsSource
  <2>3. Placed(i.src) /\ SamePlace(CpuIn(w), i.src, i.src) /\ Fresh(i.src)
    BY <1>1, <2>2, ReadSeen
  <2>4. /\ src.symb = IsSymOpd(i.src)
        /\ src.cells = CellsOf(Store(i.src), Where(i.src), Size(i.src))
        /\ src.image = ImageOf(Store(i.src), ConWhere(i.src), Size(i.src))
    BY <1>3, <2>2, <2>3, SourceFacts
  <2>5. /\ DOMAIN src.cells \subseteq 0 .. size - 1
        /\ \A j \in DOMAIN src.cells : src.cells[j] \in SymBytes
        /\ src.image \in Values(size)
    BY <1>3, <2>2, <2>3, <2>4, TargetFacts, ListFacts
  <2>6. ListIn(src.cells, src.image, w) = b
    BY <1>3, <1>8, <2>2, <2>3, <2>4, SeenSym
  <2>7. ~IsMem(i.dst) => i.dst.v # "h"
    <3>1. ~IsMem(i.dst) => i.dst.k = "reg"
      BY <1>2, TargetFacts
    <3>2. QED
      BY <3>1 DEF Ready, NoRegister
  <2>8. ConWhere(i.dst) # Where(i.dst) => DOMAIN src.cells = 0 .. size - 1
    <3>1. ConWhere(i.dst) # Where(i.dst) => size = 1
      BY <1>2, ConPlaced DEF size
    <3>2. size = 1 => DOMAIN src.cells = 0 .. size - 1
      BY <1>3, <1>8, <2>2, <2>3, <2>4, SeenSym
    <3>3. QED
      BY <3>1, <3>2
  <2>9. vm' = setSymList(vm, i.dst, src) /\ flags' = flags
    BY <1>7, <1>8 DEF Writes
  <2> HIDE DEF src, b
  <2>10. CpuOf(setSymList(vm, i.dst, src), flags.zf[w], w)
            = Put(CpuIn(w), i.dst, ListIn(src.cells, src.image, w))
    BY <1>2, <1>3, <1>4, <2>5, <2>7, <2>8, StoredList DEF size
  <2>11. QED
    BY <1>3, <1>5, <2>6, <2>9, <2>10 DEF b
<1>9. CASE ~src.symb
  <2>1. getConValue(i.src, size) = b /\ getConValue(i.src, size) \in Values(size)
    <3>1. CASE i.src.k = "imm"
      BY <1>6, <3>1, ImmSeen
    <3>2. CASE i.src.k # "imm"
      <4>1. IsTarget(i.src) /\ Size(i.src) = size
        BY <1>2, <3>2 DEF IsSource
      <4>2. Placed(i.src)
        BY <1>1, <4>1, ReadSeen
      <4>3. ~IsSymOpd(i.src)
        BY <1>3, <1>9, <4>1, <4>2, SourceFacts
      <4>4. QED
        BY <1>1, <1>4, <4>1, <4>3, ReadSeen
    <3>3. QED
      BY <3>1, <3>2
  <2>2. vm' = setConValue(vm, i.dst, getConValue(i.src, size)) /\ flags' = flags
    BY <1>7, <1>9 DEF Writes
  <2>3. ConWhere(i.dst) = Where(i.dst)
    <3>1. symb(i, i.src) => IsTarget(i.src)
      BY <1>2, SymbIs DEF IsSource
    <3>2. IsTarget(i.src) => symb(i, i.src) = src.symb
      <4>1. ASSUME IsTarget(i.src)
            PROVE  symb(i, i.src) = src.symb
        <5>1. i.src.k # "imm"
          BY <4>1, TargetFacts
        <5>2. Placed(i.src) /\ Size(i.src) = size
          BY <1>1, <1>2, <4>1, <5>1, ReadSeen
        <5>3. src.symb = IsSymOpd(i.src)
          BY <1>3, <4>1, <5>2, SourceFacts
        <5>4. symb(i, i.src) = IsSymOpd(i.src)
          BY <1>2, <4>1, SymbIs
        <5>5. QED
          BY <5>3, <5>4
      <4>2. QED
        BY <4>1
    <3>3. QED
      BY <1>4, <1>9, <3>1, <3>2
  <2> HIDE DEF src, b
  <2>4. CpuOf(setConValue(vm, i.dst, b), flags.zf[w], w) = Put(CpuIn(w), i.dst, b)
    BY <1>2, <1>3, <2>1, <2>3, StoredCon DEF size
  <2>5. QED
    BY <1>3, <1>5, <2>1, <2>2, <2>4
<1>10. QED
  BY <1>8, <1>9

LEMMA LeaSame ==
    ASSUME IInv, NEW i, Ready(i), ~Deviates(i), Handled(i), process_lea(i), NEW w \in path
    PROVE  CpuIn(w)' = Exec(CpuIn(w), i)
<1> DEFINE b == Get(CpuIn(w), i.src, Width)
<1>1. i.op = "lea" /\ ~ReadsStale(i) /\ ~KeepsUpperHalf(i) /\ WellFormed(i)
  BY ReadyFacts DEF process_lea, Deviates
<1>2. /\ IsTarget(i.dst) /\ IsRegister(i.dst) /\ Size(i.dst) = Width
      /\ i.src.k = "sum" /\ i.src.r \in Regs
  BY <1>1, FormFacts, RegisterIsTarget
<1>3. /\ w \in Worlds /\ flags.zf[w] \in BOOLEAN /\ vm \in VM
      /\ CpuIn(w) = CpuOf(vm, flags.zf[w], w) /\ CpuIn(w)' = CpuOf(vm', flags'.zf[w], w)
      /\ Placed(i.dst) /\ SamePlace(CpuIn(w), i.dst, i.dst) /\ Clean(CpuIn(w), i.dst)
  BY <1>1, <1>2, WorldFacts, CleanFacts, WrittenFacts DEF OnlyFlags
<1>4. Settled(vm, i.dst) /\ ConWhere(i.dst) = Where(i.dst)
  <2>1. Width # 1
    BY Parameters
  <2>2. ConWhere(i.dst) = Where(i.dst)
    BY <1>2, <2>1, ConPlaced
  <2>3. QED
    BY <2>2 DEF Settled, Unseen
<1>5. Exec(CpuIn(w), i) = Put(CpuIn(w), i.dst, b)
  BY <1>1, <1>2, ExecIs
<1>6. symb(i, i.src) = IsSymOpd(i.src) /\ Fresh(i.src)
  BY <1>1, <1>2, SymbIs, FreshFacts, OperandFacts
<1>7. Writes(IF symb(i, i.src) THEN setSymValue(vm, i.dst, getSymValue(i.src))
             ELSE setConValue(vm, i.dst, getConValue(i.src, Width)))
  BY DEF process_lea
<1>8. CASE IsSymOpd(i.src)
  <2>1. ValueIn(getSymValue(i.src), w) = b
    BY <1>2, <1>3, <1>6, <1>8, SeenSum
  <2>2. getSymValue(i.src) \in Exprs(Width)
    BY <1>2, <1>3, SumFacts, SymValueFacts
  <2>3. vm' = setSymValue(vm, i.dst, getSymValue(i.src)) /\ flags' = flags
    BY <1>6, <1>7, <1>8 DEF Writes
  <2>4. QED
    BY <1>2, <1>3, <1>5, <2>1, <2>2, <2>3, <1>4, StoredSym
<1>9. CASE ~IsSymOpd(i.src)
  <2>1. getConValue(i.src, Width) = b /\ getConValue(i.src, Width) \in Values(Width)
    <3>1. Width \in 1 .. 2 * Width
      BY Parameters
    <3>2. Get(HostCpu, i.src, Width) = b
      BY <1>2, <1>3, <1>6, <1>9, SeenSum
    <3>3. QED
      BY <1>2, <3>1, <3>2, ConValueFacts
  <2>2. vm' = setConValue(vm, i.dst, getConValue(i.src, Width)) /\ flags' = flags
    BY <1>6, <1>7, <1>9 DEF Writes
  <2> HIDE DEF b
  <2>3. CpuOf(setConValue(vm, i.dst, b), flags.zf[w], w) = Put(CpuIn(w), i.dst, b)
    BY <1>2, <1>3, <1>4, <2>1, StoredCon
  <2>4. QED
    BY <1>3, <1>5, <2>1, <2>2, <2>3
<1>10. QED
  BY <1>8, <1>9

LEMMA ExtendSame ==
    ASSUME IInv, NEW i, Ready(i), ~Deviates(i), Handled(i),
           process_movsx(i) \/ process_movzx(i), NEW w \in path
    PROVE  CpuIn(w)' = Exec(CpuIn(w), i)
<1> DEFINE size == Size(i.dst)
           from == Size(i.src)
           b == Get(CpuIn(w), i.src, size)
           x == IF i.op = "movsx" THEN SExt(b, size) ELSE ZExt(b, size)
           e == Unevaluable(i, i.dst)
<1>1. /\ i.op \in {"movzx", "movsx"} /\ ~ReadsStale(i) /\ ~KeepsUpperHalf(i) /\ ~WrongWidening(i)
      /\ ~SecondByte(i) /\ WellFormed(i)
  BY ReadyFacts DEF process_movsx, process_movzx, Deviates
<1>2. /\ IsTarget(i.dst) /\ IsRegister(i.dst) /\ IsTarget(i.src)
      /\ size \in 1 .. Width /\ size \in 1 .. 2 * Width /\ size \in Nat
      /\ from \in 1 .. Width /\ from \in 1 .. 2 * Width
      /\ i.dst.k = "reg"
  BY <1>1, FormFacts, RegisterIsTarget, RegisterFacts, TargetFacts, Parameters
<1>3. /\ w \in Worlds /\ flags.zf[w] \in BOOLEAN /\ vm \in VM
      /\ CpuIn(w) = CpuOf(vm, flags.zf[w], w) /\ CpuIn(w)' = CpuOf(vm', flags'.zf[w], w)
      /\ Placed(i.dst) /\ SamePlace(CpuIn(w), i.dst, i.dst) /\ Clean(CpuIn(w), i.dst)
  BY <1>1, <1>2, WorldFacts, CleanFacts, WrittenFacts DEF OnlyFlags
<1>4. /\ Settled(vm, i.dst) /\ (ConWhere(i.dst) = Where(i.dst) \/ symb(i, i.src))
      /\ Readable(i.src)
  <2>1. i.src \in ReadBy(i) /\ i.dst \in Written(i) /\ i.op \notin Binary \cup Unary
    BY <1>1 DEF ReadBy, Written, OnlyFlags, Binary, Unary
  <2>2. \A p \in ReadBy(i) : p = i.src
    BY <1>1 DEF ReadBy, Binary, Unary
  <2>3. QED
    BY <1>1, <1>2, <2>1, <2>2, ByteFacts
<1>5. Exec(CpuIn(w), i) = Put(CpuIn(w), i.dst, x)
  BY <1>1, ExecIs
<1>6. Writes(IF symb(i, i.src) THEN setSymValue(vm, i.dst, e)
             ELSE setConValue(vm, i.dst, getConValue(i.src, size)))
  BY DEF process_movsx, process_movzx, Extends
<1>7. symb(i, i.src) = IsSymOpd(i.src)
  BY <1>2, SymbIs DEF IsMem
<1>8. Placed(i.src) /\ SamePlace(CpuIn(w), i.src, i.src) /\ Fresh(i.src) /\ b \in Values(from)
  BY <1>1, <1>2, ReadSeen
<1>9. x \in Values(size)
  BY <1>1, <1>2, <1>8, SExtFacts, ZExtFacts
<1>10. CASE IsSymOpd(i.src)
  <2>1. e \in Exprs(size) /\ ValueIn(e, w) = Get(Exec(CpuIn(w), i), i.dst, size)
    BY <1>2, UnevaluableFacts
  <2> HIDE DEF e, x, b, size
  <2>2. Get(Put(CpuIn(w), i.dst, x), i.dst, size) = x
    BY <1>2, <1>3, <1>9, GetPut, CpusTyped DEF size
  <2>3. ValueIn(e, w) = x
    BY <1>5, <2>1, <2>2
  <2>4. vm' = setSymValue(vm, i.dst, e) /\ flags' = flags
    BY <1>6, <1>7, <1>10 DEF Writes
  <2>5. CpuOf(setSymValue(vm, i.dst, e), flags.zf[w], w) = Put(CpuIn(w), i.dst, ValueIn(e, w))
    BY <1>2, <1>3, <1>4, <2>1, StoredSym DEF size
  <2>6. QED
    BY <1>3, <1>5, <2>3, <2>4, <2>5
<1>11. CASE ~IsSymOpd(i.src)
  <2> DEFINE v == Get(HostCpu, i.src, size)
  <2>1. v = b
    BY <1>2, <1>3, <1>8, <1>11, SeenCon
  <2>2. getConValue(i.src, size) = IF i.src.k = "reg" THEN SExt(b, size) ELSE ZExt(b, size)
    BY <1>2, <1>4, <1>8, <1>11, <2>1, ConValueFacts DEF Readable
  <2>3. (IsMem(i.src) <=> i.op = "movsx") => ~Negative(b)
    <3>1. Get(HostCpu, i.src, 1) = Get(HostCpu, i.src, size)
      <4>1. \A n : Get(HostCpu, i.src, n) = [j \in 0 .. from - 1 |-> Store(i.src).con[Where(i.src) + j]]
        BY <1>2, <1>8, HostGet
      <4>2. QED
        BY <4>1
    <3>2. QED
      BY <1>1, <1>7, <1>11, <2>1, <3>1 DEF WrongWidening
  <2>4. IsMem(i.src) <=> i.src.k # "reg"
    BY <1>2, TargetFacts
  <2>5. getConValue(i.src, size) = x /\ x \in Values(size)
    <3> HIDE DEF b, size, from
    <3>1. /\ SExt(b, size) \in Values(size) /\ ZExt(b, size) \in Values(size)
          /\ ~Negative(b) => SExt(b, size) = ZExt(b, size)
      BY <1>2, <1>8, SExtFacts, ZExtFacts
    <3>2. QED
      BY <1>1, <2>2, <2>3, <2>4, <3>1
  <2>6. vm' = setConValue(vm, i.dst, getConValue(i.src, size)) /\ flags' = flags
    BY <1>6, <1>7, <1>11 DEF Writes
  <2> HIDE DEF x
  <2>7. CpuOf(setConValue(vm, i.dst, x), flags.zf[w], w) = Put(CpuIn(w), i.dst, x)
    BY <1>2, <1>3, <1>4, <1>7, <1>11, <2>5, StoredCon
  <2>8. QED
    BY <1>3, <1>5, <2>5, <2>6, <2>7
<1>12. QED
  BY <1>10, <1>11

(* The stack pointer is not looked at by a write.                          *)
LEMMA MovedPut ==
    ASSUME NEW c \in Cpus, NEW o, IsTarget(o), NEW size, NEW b \in Values(size), NEW rsp \in Int,
           NEW d, d = [reg |-> c.reg, mem |-> c.mem, rsp |-> rsp, zf |-> c.zf]
    PROVE  LET t == Put(c, o, b)
           IN  Put(d, o, b) = [reg |-> t.reg, mem |-> t.mem, rsp |-> rsp, zf |-> t.zf]
<1>1. (\A j \in DOMAIN b : b[j] \in Bit) /\ (IsRegister(o) \/ IsMem(o))
  BY ValueBits, TargetFacts
<1>2. d.reg = c.reg /\ d.mem = c.mem /\ d.rsp = rsp /\ d.zf = c.zf
  OBVIOUS
<1>3. d \in Cpus
  BY CpuFacts
<1>4. AddrOf(d, o) = AddrOf(c, o)
  BY <1>2 DEF AddrOf
<1>5. CASE IsRegister(o)
  <2> DEFINE r == [k \in Regs |->
                      IF k = o.r
                      THEN Overlay(IF o.v = "d" THEN [j \in Off |-> 0] ELSE c.reg[o.r], At(o), b)
                      ELSE c.reg[k]]
  <2>1. Put(c, o, b) = [reg |-> r, mem |-> c.mem, rsp |-> c.rsp, zf |-> c.zf]
    BY <1>1, <1>5, PutFacts
  <2>2. Put(d, o, b) =
            [reg |-> [k \in Regs |->
                        IF k = o.r
                        THEN Overlay(IF o.v = "d" THEN [j \in Off |-> 0] ELSE d.reg[o.r], At(o), b)
                        ELSE d.reg[k]],
             mem |-> d.mem, rsp |-> d.rsp, zf |-> d.zf]
    BY <1>1, <1>3, <1>5, PutFacts
  <2>3. Put(d, o, b) = [reg |-> r, mem |-> c.mem, rsp |-> rsp, zf |-> c.zf]
    BY <1>2, <2>2
  <2> HIDE DEF r
  <2>4. QED
    BY <2>1, <2>3
<1>6. CASE IsMem(o)
  <2> DEFINE n == Overlay(c.mem, AddrOf(c, o), b)
  <2>1. Put(c, o, b) = [reg |-> c.reg, mem |-> n, rsp |-> c.rsp, zf |-> c.zf]
    BY <1>1, <1>6, PutFacts
  <2>2. Put(d, o, b) =
            [reg |-> d.reg, mem |-> Overlay(d.mem, AddrOf(d, o), b), rsp |-> d.rsp, zf |-> d.zf]
    BY <1>1, <1>3, <1>6, PutFacts
  <2>3. Put(d, o, b) = [reg |-> c.reg, mem |-> n, rsp |-> rsp, zf |-> c.zf]
    BY <1>2, <1>4, <2>2
  <2> HIDE DEF n
  <2>4. QED
    BY <2>1, <2>3
<1>7. QED
  BY <1>1, <1>5, <1>6

LEMMA PopSame ==
    ASSUME IInv, NEW i, Ready(i), ~Deviates(i), process_pop(i), NEW w \in path
    PROVE  CpuIn(w)' = Exec(CpuIn(w), i)
<1> DEFINE top == Slot(vm.rsp)
           src == parseOperand_RX(top)
           m   == [vm EXCEPT !.rsp = vm.rsp + Width]
           c   == CpuIn(w)
           d   == CpuOf(m, flags.zf[w], w)
           b   == Get(c, top, Width)
<1>1. /\ i.op = "pop" /\ ~ReadsStale(i) /\ ~KeepsUpperHalf(i) /\ WellFormed(i)
      /\ vm.rsp + Width <= MemSize
  BY ReadyFacts DEF process_pop, Deviates
<1>2. IsTarget(i.dst) /\ Size(i.dst) = Width
  BY <1>1, FormFacts
<1>3. /\ w \in Worlds /\ flags.zf[w] \in BOOLEAN /\ vm \in VM /\ c \in Cpus /\ c.rsp = vm.rsp
      /\ c = CpuOf(vm, flags.zf[w], w) /\ c' = CpuOf(vm', flags'.zf[w], w)
      /\ Placed(i.dst) /\ SamePlace(c, i.dst, i.dst) /\ Clean(c, i.dst)
  BY <1>1, <1>2, WorldFacts, CleanFacts, WrittenFacts DEF OnlyFlags
<1>4. vm.rsp \in Nat /\ vm.rsp + Width \in 0 .. MemSize
  <2>1. vm.rsp \in 0 .. MemSize
    BY <1>3, VMFacts
  <2>2. QED
    BY <1>1, <2>1, Parameters
<1>5. IsTarget(top) /\ Placed(top) /\ Size(top) = Width /\ SamePlace(c, top, top) /\ Fresh(top)
  <2>1. IsTarget(top) /\ Placed(top) /\ Size(top) = Width /\ IsMem(top) /\ Where(top) = vm.rsp
        /\ top.k = "mem" /\ top.at = vm.rsp
    BY <1>1, <1>4, SlotPlaced
  <2>2. QED
    BY <1>1, <2>1, FreshFacts DEF SamePlace, AddrOf
<1>6. m \in VM /\ m = [reg |-> vm.reg, mem |-> vm.mem, rsp |-> vm.rsp + Width]
  BY <1>3, <1>4, StackMoves
<1>7. d = [reg |-> c.reg, mem |-> c.mem, rsp |-> c.rsp + Width, zf |-> c.zf] /\ d.reg = c.reg
  BY <1>3, <1>6 DEF CpuOf
<1>8. Exec(c, i) = [Put(c, i.dst, b) EXCEPT !.rsp = Put(c, i.dst, b).rsp + Width]
  BY <1>1, <1>3, ExecIs
<1>9. b \in Values(Width)
  BY <1>3, <1>5, OperandSeen
<1>10. Exec(c, i) = Put(d, i.dst, b)
  <2> DEFINE t == Put(c, i.dst, b)
  <2>1. t \in Cpus /\ t.rsp = c.rsp
    BY <1>2, <1>3, <1>9, PutTyped, TargetFacts
  <2>2. c.rsp + Width \in Int
    BY <1>3, <1>4
  <2>3. c \in Cpus /\ IsTarget(i.dst) /\ b \in Values(Width)
    BY <1>2, <1>3, <1>9
  <2> HIDE DEF b, c, d
  <2>4. Put(d, i.dst, b) = [reg |-> t.reg, mem |-> t.mem, rsp |-> c.rsp + Width, zf |-> t.zf]
    BY <1>7, <2>2, <2>3, MovedPut
  <2>5. Exec(c, i) = [t EXCEPT !.rsp = c.rsp + Width]
    BY <1>8, <2>1
  <2> HIDE DEF t
  <2>6. [t EXCEPT !.rsp = c.rsp + Width]
            = [reg |-> t.reg, mem |-> t.mem, rsp |-> c.rsp + Width, zf |-> t.zf]
    BY <2>1, CpuFacts
  <2>7. QED
    BY <2>4, <2>5, <2>6
<1>11. /\ ConWhere(i.dst) = Where(i.dst) /\ Settled(m, i.dst)
      /\ ConWhere(top) = Where(top)
  BY <1>2, <1>5, WideFacts
<1>12. SamePlace(d, i.dst, i.dst) /\ Clean(d, i.dst)
  BY <1>3, <1>7 DEF SamePlace, Clean, AddrOf
<1>13. Writes(IF src.symb THEN setSymList(m, i.dst, src) ELSE setConValue(m, i.dst, src.image))
  BY DEF process_pop
<1>14. /\ src.symb = IsSymOpd(top)
       /\ src.cells = CellsOf(Store(top), Where(top), Size(top))
       /\ src.image = ImageOf(Store(top), ConWhere(top), Size(top))
  BY DEF parseOperand_RX
<1> HIDE DEF top, m, d, src
<1>15. CASE IsSymOpd(top)
  <2>1. /\ DOMAIN src.cells \subseteq 0 .. Size(i.dst) - 1
        /\ \A j \in DOMAIN src.cells : src.cells[j] \in SymBytes
        /\ src.image \in Values(Size(i.dst))
    <3>1. IsMem(top) \/ top.r \in Regs
      BY <1>5, TargetFacts
    <3>2. /\ DOMAIN src.cells \subseteq 0 .. Size(top) - 1
          /\ \A j \in DOMAIN src.cells : src.cells[j] \in SymBytes
          /\ src.image \in Values(Size(top))
      BY <1>3, <1>5, <1>14, <3>1, ListFacts
    <3>3. QED
      BY <1>2, <1>5, <3>2
  <2>2. ListIn(src.cells, src.image, w) = b
    BY <1>3, <1>5, <1>14, <1>15, SeenSym
  <2>3. ~IsMem(i.dst) => i.dst.v # "h"
    <3>1. Width # 1
      BY Parameters
    <3>2. QED
      BY <1>2, <3>1, ListBase
  <2>4. vm' = setSymList(m, i.dst, src) /\ flags' = flags
    BY <1>13, <1>14, <1>15 DEF Writes
  <2> HIDE DEF b, c
  <2>5. CpuOf(setSymList(m, i.dst, src), flags.zf[w], w)
            = Put(d, i.dst, ListIn(src.cells, src.image, w))
    BY <1>2, <1>3, <1>6, <1>11, <1>12, <2>1, <2>3, StoredList DEF d
  <2>6. QED
    BY <1>3, <1>10, <2>2, <2>4, <2>5 DEF c
<1>16. CASE ~IsSymOpd(top)
  <2>1. src.image = b
    <3>1. src.image = [j \in 0 .. Width - 1 |-> Store(top).con[Where(top) + j]]
      BY <1>5, <1>11, <1>14 DEF ImageOf
    <3>2. Get(HostCpu, top, Width) = [j \in 0 .. Width - 1 |-> Store(top).con[Where(top) + j]]
      BY <1>5, HostGet
    <3>3. Get(HostCpu, top, Width) = b
      BY <1>3, <1>5, <1>16, SeenCon
    <3>4. QED
      BY <3>1, <3>2, <3>3
  <2>2. vm' = setConValue(m, i.dst, src.image) /\ flags' = flags
    BY <1>13, <1>14, <1>16 DEF Writes
  <2> HIDE DEF b, c
  <2>3. CpuOf(setConValue(m, i.dst, b), flags.zf[w], w) = Put(d, i.dst, b)
    BY <1>2, <1>3, <1>6, <1>9, <1>11, <1>12, StoredCon DEF d
  <2>4. QED
    BY <1>3, <1>10, <2>1, <2>2, <2>3 DEF c
<1>17. QED
  BY <1>15, <1>16

LEMMA PushSame ==
    ASSUME IInv, NEW i, Ready(i), ~Deviates(i), process_push(i), NEW w \in path
    PROVE  CpuIn(w)' = Exec(CpuIn(w), i)
<1> DEFINE src == parseSource(i.src)
           m   == [vm EXCEPT !.rsp = vm.rsp - Width]
           top == Slot(vm.rsp - Width)
           c   == CpuIn(w)
           d   == CpuOf(m, flags.zf[w], w)
           b   == Get(c, i.src, Width)
<1>1. /\ i.op = "push" /\ ~ReadsStale(i) /\ WellFormed(i) /\ vm.rsp >= Width
  BY ReadyFacts DEF process_push, Deviates
<1>2. IsSource(i.src) /\ Size(i.src) = Width
  BY <1>1, FormFacts
<1>3. /\ w \in Worlds /\ flags.zf[w] \in BOOLEAN /\ vm \in VM /\ c \in Cpus /\ c.rsp = vm.rsp
      /\ c = CpuOf(vm, flags.zf[w], w) /\ c' = CpuOf(vm', flags'.zf[w], w)
  BY WorldFacts
<1>4. /\ vm.rsp - Width \in Nat /\ vm.rsp - Width \in 0 .. MemSize
      /\ (vm.rsp - Width) + Width <= MemSize
  <2>1. vm.rsp \in 0 .. MemSize
    BY <1>3, VMFacts
  <2>2. QED
    BY <1>1, <2>1, Parameters
<1>5. /\ IsTarget(top) /\ Placed(top) /\ Size(top) = Width /\ IsMem(top)
      /\ SamePlace(d, top, top) /\ Clean(d, top)
  <2>1. /\ IsTarget(top) /\ Placed(top) /\ Size(top) = Width /\ IsMem(top)
        /\ Where(top) = vm.rsp - Width /\ top.k = "mem" /\ top.at = vm.rsp - Width
    BY <1>4, SlotPlaced
  <2>2. QED
    BY <2>1 DEF SamePlace, AddrOf, Clean
<1>6. m \in VM /\ m = [reg |-> vm.reg, mem |-> vm.mem, rsp |-> vm.rsp - Width]
      /\ m.rsp = vm.rsp - Width
  BY <1>3, <1>4, StackMoves
<1>7. d = [reg |-> c.reg, mem |-> c.mem, rsp |-> c.rsp - Width, zf |-> c.zf]
  BY <1>3, <1>6 DEF CpuOf
<1>8. Exec(c, i) = [Put(c, top, b) EXCEPT !.rsp = Put(c, top, b).rsp - Width]
  BY <1>1, <1>2, <1>3, ExecIs
<1>9. b \in Values(Width)
  <2>1. Width \in 1 .. 2 * Width
    BY Parameters
  <2>2. QED
    BY <1>1, <1>2, <2>1, ReadSeen, ImmSeen DEF IsSource
<1>10. Exec(c, i) = Put(d, top, b)
  <2> DEFINE t == Put(c, top, b)
  <2>1. t \in Cpus /\ t.rsp = c.rsp
    BY <1>3, <1>5, <1>9, PutTyped
  <2>2. c.rsp - Width \in Int
    BY <1>3, <1>4
  <2>3. c \in Cpus /\ IsTarget(top) /\ b \in Values(Width)
    BY <1>3, <1>5, <1>9
  <2> HIDE DEF b, c, d, top
  <2>4. Put(d, top, b) = [reg |-> t.reg, mem |-> t.mem, rsp |-> c.rsp - Width, zf |-> t.zf]
    BY <1>7, <2>2, <2>3, MovedPut
  <2>5. Exec(c, i) = [t EXCEPT !.rsp = c.rsp - Width]
    BY <1>8, <2>1
  <2> HIDE DEF t
  <2>6. [t EXCEPT !.rsp = c.rsp - Width]
            = [reg |-> t.reg, mem |-> t.mem, rsp |-> c.rsp - Width, zf |-> t.zf]
    BY <2>1, CpuFacts
  <2>7. QED
    BY <2>4, <2>5, <2>6
<1>11. ConWhere(top) = Where(top) /\ Settled(m, top)
  BY <1>5, WideFacts
<1>12. Writes(IF src.symb THEN setSymList(m, top, src)
              ELSE setConValue(m, top, getConValue(i.src, Width)))
  BY <1>6 DEF process_push
<1> HIDE DEF top, m, d
<1>13. CASE src.symb
  <2>1. i.src.k # "imm"
    BY <1>13 DEF parseSource
  <2>2. IsTarget(i.src)
    BY <1>2, <2>1 DEF IsSource
  <2>3. Placed(i.src) /\ SamePlace(c, i.src, i.src) /\ Fresh(i.src)
    BY <1>1, <2>2, ReadSeen
  <2>4. /\ src.symb = IsSymOpd(i.src)
        /\ src.cells = CellsOf(Store(i.src), Where(i.src), Size(i.src))
        /\ src.image = ImageOf(Store(i.src), ConWhere(i.src), Size(i.src))
    BY <1>3, <2>2, <2>3, SourceFacts
  <2>5. /\ DOMAIN src.cells \subseteq 0 .. Width - 1
        /\ \A j \in DOMAIN src.cells : src.cells[j] \in SymBytes
        /\ src.image \in Values(Width)
    BY <1>2, <1>3, <2>2, <2>3, <2>4, TargetFacts, ListFacts
  <2>6. ListIn(src.cells, src.image, w) = b
    BY <1>3, <1>13, <2>2, <2>3, <2>4, SeenSym
  <2>7. vm' = setSymList(m, top, src) /\ flags' = flags
    BY <1>12, <1>13 DEF Writes
  <2> HIDE DEF src, b, c
  <2>8. CpuOf(setSymList(m, top, src), flags.zf[w], w)
            = Put(d, top, ListIn(src.cells, src.image, w))
    BY <1>3, <1>5, <1>6, <1>11, <2>5, StoredList DEF d
  <2>9. QED
    BY <1>3, <1>10, <2>6, <2>7, <2>8 DEF c
<1>14. CASE ~src.symb
  <2>1. getConValue(i.src, Width) = b
    <3>1. CASE i.src.k = "imm"
      <4>1. Width \in 1 .. 2 * Width
        BY Parameters
      <4>2. QED
        BY <3>1, <4>1, ImmSeen
    <3>2. CASE i.src.k # "imm"
      <4>1. IsTarget(i.src)
        BY <1>2, <3>2 DEF IsSource
      <4>2. Placed(i.src)
        BY <1>1, <4>1, ReadSeen
      <4>3. ~IsSymOpd(i.src)
        BY <1>3, <1>14, <4>1, <4>2, SourceFacts
      <4>4. QED
        BY <1>1, <1>2, <4>1, <4>3, ReadSeen, WideFacts
    <3>3. QED
      BY <3>1, <3>2
  <2>2. vm' = setConValue(m, top, b) /\ flags' = flags
    BY <1>12, <1>14, <2>1 DEF Writes
  <2> HIDE DEF src, b, c
  <2>3. CpuOf(setConValue(m, top, b), flags.zf[w], w) = Put(d, top, b)
    BY <1>3, <1>5, <1>6, <1>9, <1>11, StoredCon DEF d
  <2>4. QED
    BY <1>3, <1>10, <2>2, <2>3 DEF c
<1>15. QED
  BY <1>13, <1>14

(* The registers that cbw, cdq, mul and idiv imply.                        *)
LEMMA ImpliedSeen ==
    ASSUME IInv, NEW i, Ready(i), NEW w \in path
    PROVE  /\ IsTarget(Acc) /\ Placed(Acc) /\ SamePlace(CpuIn(w), Acc, Acc) /\ Clean(CpuIn(w), Acc)
           /\ IsTarget(Ext) /\ Placed(Ext) /\ SamePlace(CpuIn(w), Ext, Ext) /\ Clean(CpuIn(w), Ext)
           /\ \A c : Clean(c, Acc) /\ SamePlace(c, Acc, Acc) /\ Clean(c, Ext) /\ SamePlace(c, Ext, Ext)
           /\ \A o \in {Acc, Ext} : ConWhere(o) = Where(o) /\ Readable(o) /\ \A m : Settled(m, o)
<1>1. /\ IsTarget(Acc) /\ Placed(Acc) /\ IsTarget(Ext) /\ Placed(Ext)
      /\ Size(Acc) = Width /\ Size(Ext) = Width
  BY AccUsable, AccFacts
<1>2. \A c : Clean(c, Acc) /\ SamePlace(c, Acc, Acc) /\ Clean(c, Ext) /\ SamePlace(c, Ext, Ext)
  BY AccUsable, AccFacts DEF SamePlace, Clean, IsMem, Acc, Ext
<1>3. \A o \in {Acc, Ext} : ConWhere(o) = Where(o) /\ Readable(o) /\ \A m : Settled(m, o)
  BY <1>1, WideFacts
<1>4. QED
  BY <1>1, <1>2, <1>3

(* A store to both of them.                                                *)
LEMMA StoredTwice ==
    ASSUME IInv, NEW i, Ready(i), NEW w \in path,
           NEW e \in Exprs(Width), NEW f \in Exprs(Width)
    PROVE  CpuOf(setSymValue(setSymValue(vm, Acc, e), Ext, f), flags.zf[w], w)
             = Put(Put(CpuIn(w), Acc, ValueIn(e, w)), Ext, ValueIn(f, w))
<1> DEFINE m == setSymValue(vm, Acc, e)
           d == CpuOf(m, flags.zf[w], w)
<1>1. /\ w \in Worlds /\ flags.zf[w] \in BOOLEAN /\ vm \in VM
      /\ CpuIn(w) = CpuOf(vm, flags.zf[w], w)
  BY WorldFacts
<1>2. d = Put(CpuIn(w), Acc, ValueIn(e, w))
  BY <1>1, ImpliedSeen, AccFacts, StoredSym
<1>3. m \in VM
  BY <1>1, AccUsable, AccFacts, SetSymGood
<1>4. Clean(d, Ext) /\ SamePlace(d, Ext, Ext) /\ IsTarget(Ext) /\ Placed(Ext)
      /\ Settled(m, Ext)
  BY ImpliedSeen
<1> HIDE DEF m
<1>5. CpuOf(setSymValue(m, Ext, f), flags.zf[w], w) = Put(d, Ext, ValueIn(f, w))
  BY <1>1, <1>3, <1>4, AccFacts, StoredSym
<1>6. QED
  BY <1>2, <1>5 DEF m

LEMMA CdqSame ==
    ASSUME IInv, NEW i, Ready(i), ~Deviates(i), process_cdq(i), NEW w \in path
    PROVE  CpuIn(w)' = Exec(CpuIn(w), i)
<1> DEFINE e == Unevaluable(i, Ext)
           v == Half(SExt(getConValue(Acc, Width), 2 * Width), Width)
           b == Get(CpuIn(w), Acc, Width)
           x == Half(SExt(b, 2 * Width), Width)
<1>1. i.op = "cdq" /\ ~ReadsStale(i)
  BY DEF process_cdq, Deviates
<1>2. /\ w \in Worlds /\ flags.zf[w] \in BOOLEAN /\ vm \in VM
      /\ CpuIn(w) = CpuOf(vm, flags.zf[w], w) /\ CpuIn(w)' = CpuOf(vm', flags'.zf[w], w)
  BY WorldFacts
<1>3. Exec(CpuIn(w), i) = Put(CpuIn(w), Ext, x)
  BY <1>1, ExecIs
<1>4. Writes(IF symb(i, Acc) THEN setSymValue(vm, Ext, e) ELSE setConValue(vm, Ext, v))
  BY DEF process_cdq
<1>5. Fresh(Acc) /\ symb(i, Acc) = IsSymOpd(Acc)
  BY <1>1, FreshFacts, OperandFacts, SymbIs, AccUsable
<1>6. /\ b \in Values(Width)
      /\ IsSymOpd(Acc) => ValueIn(getSymValue(Acc), w) = b
      /\ ~IsSymOpd(Acc) => getConValue(Acc, Width) = b
  BY <1>2, <1>5, ImpliedSeen, AccFacts, OperandSeen
<1>7. x \in Values(Width)
  BY <1>6, UpperFacts
<1>8. CASE IsSymOpd(Acc)
  <2>1. e \in Exprs(Width) /\ ValueIn(e, w) = Get(Exec(CpuIn(w), i), Ext, Width)
    BY AccFacts, UnevaluableFacts
  <2> HIDE DEF e, x
  <2>2. Get(Put(CpuIn(w), Ext, x), Ext, Width) = x
    BY <1>2, <1>7, AccFacts, GetPut, CpusTyped
  <2>3. ValueIn(e, w) = x
    BY <1>3, <2>1, <2>2
  <2>4. vm' = setSymValue(vm, Ext, e) /\ flags' = flags
    BY <1>4, <1>5, <1>8 DEF Writes
  <2>5. CpuOf(setSymValue(vm, Ext, e), flags.zf[w], w) = Put(CpuIn(w), Ext, x)
    BY <1>2, <2>1, <2>3, ImpliedSeen, AccFacts, StoredSym
  <2>6. QED
    BY <1>2, <1>3, <2>4, <2>5
<1>9. CASE ~IsSymOpd(Acc)
  <2>1. v = x
    BY <1>6, <1>9
  <2>2. vm' = setConValue(vm, Ext, x) /\ flags' = flags
    BY <1>4, <1>5, <1>9, <2>1 DEF Writes
  <2> HIDE DEF x
  <2>3. CpuOf(setConValue(vm, Ext, x), flags.zf[w], w) = Put(CpuIn(w), Ext, x)
    BY <1>2, <1>7, ImpliedSeen, AccFacts, StoredCon
  <2>4. QED
    BY <1>2, <1>3, <2>2, <2>3
<1>10. QED
  BY <1>8, <1>9

(* A register that gets the value it has.                                  *)
LEMMA PutBack ==
    ASSUME NEW c \in Cpus, NEW o, IsRegister(o), Clean(c, o), NEW size
    PROVE  Put(c, o, Get(c, o, size)) = c
<1> DEFINE v == Get(c, o, size)
<1>1. o.r \in Regs /\ Size(o) \in Nat /\ At(o) \in Nat
  BY RegisterFacts, Parameters
<1>2. v = [j \in 0 .. Size(o) - 1 |-> c.reg[o.r][At(o) + j]] /\ v \in Values(Size(o))
  BY GetFacts
<1>3. c.reg[o.r] \in [Off -> Bit] /\ c = [reg |-> c.reg, mem |-> c.mem, rsp |-> c.rsp, zf |-> c.zf]
      /\ c.reg \in [Regs -> [Off -> Bit]]
  BY <1>1, CpuFacts
<1> HIDE DEF v
<1>4. Overlay(c.reg[o.r], At(o), v) = c.reg[o.r]
  <2>1. Overlay(c.reg[o.r], At(o), v) =
            [k \in Off |-> IF k - At(o) \in DOMAIN v THEN v[k - At(o)] ELSE c.reg[o.r][k]]
    BY <1>3 DEF Overlay
  <2>2. ASSUME NEW k \in Off, k - At(o) \in DOMAIN v
        PROVE  v[k - At(o)] = c.reg[o.r][k]
    <3>1. k \in Int /\ k - At(o) \in 0 .. Size(o) - 1
      BY <1>2, <2>2 DEF Off
    <3>2. At(o) + (k - At(o)) = k
      BY <1>1, <3>1
    <3>3. v[k - At(o)] = c.reg[o.r][At(o) + (k - At(o))]
      BY <1>2, <3>1
    <3>4. QED
      BY <3>2, <3>3
  <2>3. QED
    BY <1>3, <2>1, <2>2
<1>5. Put(c, o, v) = [reg |-> [r \in Regs |-> IF r = o.r THEN Overlay(c.reg[o.r], At(o), v)
                                             ELSE c.reg[r]],
                      mem |-> c.mem, rsp |-> c.rsp, zf |-> c.zf]
  BY <1>2, CleanPut
<1>6. [r \in Regs |-> IF r = o.r THEN Overlay(c.reg[o.r], At(o), v) ELSE c.reg[r]] = c.reg
  BY <1>3, <1>4
<1>7. QED
  BY <1>3, <1>5, <1>6 DEF v

LEMMA CbwSame ==
    ASSUME IInv, NEW i, Ready(i), ~Deviates(i), process_cbw(i), NEW w \in path
    PROVE  CpuIn(w)' = Exec(CpuIn(w), i)
<1> DEFINE con == vm.reg["rax"].con
           h == Width \div 2
           c == CpuIn(w)
           b == Get(c, Acc, Width)
           x == SExt(Half(con, 0), Width)
           y == SExt(Half(b, 0), Width)
           e == Unevaluable(i, Acc)
<1>1. i.op = "cbw" /\ ~ReadsStale(i)
  BY DEF process_cbw, Deviates
<1>2. /\ w \in Worlds /\ flags.zf[w] \in BOOLEAN /\ vm \in VM /\ c \in Cpus
      /\ c = CpuOf(vm, flags.zf[w], w) /\ c' = CpuOf(vm', flags'.zf[w], w)
  BY WorldFacts
<1>3. Exec(c, i) = Put(c, Acc, y)
  BY <1>1, ExecIs
<1>4. Writes(IF IsSym(vm.reg["rax"], 0, h) THEN setSymValue(vm, Acc, e)
             ELSE setConValue(vm, Acc, x))
  BY DEF process_cbw
<1>5. Fresh(Acc) /\ Clean(c, Acc) /\ SamePlace(c, Acc, Acc)
  BY <1>1, FreshFacts, OperandFacts, ImpliedSeen
<1>6. h \in 1 .. Width /\ h \in 1 .. 2 * Width /\ h \in Nat /\ 2 * h = Width
  BY Parameters
<1>7. CASE IsSym(vm.reg["rax"], 0, h)
  <2>1. e \in Exprs(Width) /\ ValueIn(e, w) = Get(Exec(c, i), Acc, Width)
    BY AccFacts, UnevaluableFacts
  <2>2. y \in Values(Width)
    <3>1. b \in Values(Width)
      BY <1>2, <1>5, AccUsable, AccFacts, OperandSeen
    <3>2. Half(b, 0) \in Values(h)
      BY <1>6, <3>1, HalfFacts
    <3>3. QED
      BY <1>6, <3>2, SExtFacts, Parameters
  <2>3. vm' = setSymValue(vm, Acc, e) /\ flags' = flags
    BY <1>4, <1>7 DEF Writes
  <2> HIDE DEF c, e, y
  <2>4. Get(Put(c, Acc, y), Acc, Width) = y
    BY <1>2, <2>2, AccFacts, GetPut
  <2>5. ValueIn(e, w) = y
    BY <1>3, <2>1, <2>4
  <2>6. CpuOf(setSymValue(vm, Acc, e), flags.zf[w], w) = Put(c, Acc, ValueIn(e, w))
    BY <1>2, <1>5, <2>1, ImpliedSeen, AccFacts, StoredSym
  <2>7. QED
    BY <1>2, <1>3, <2>3, <2>5, <2>6 DEF c
<1>8. CASE ~IsSym(vm.reg["rax"], 0, h)
  <2>1. con \in Values(Width) /\ b \in Values(Width)
    <3>1. con \in [Off -> Bit]
      BY <1>2, VMFacts, GoodFacts, Parameters
    <3>2. QED
      BY <1>2, <1>5, <3>1, AccUsable, AccFacts, OperandSeen DEF Values, Off
  <2>2. \A j \in 0 .. h - 1 : con[0 + j] = b[0 + j]
    <3> SUFFICES ASSUME NEW j \in 0 .. h - 1 PROVE con[0 + j] = b[0 + j]
      OBVIOUS
    <3>1. j \in 0 .. Width - 1 /\ 0 + j = j /\ j \in Span(0, h)
      BY <1>6, Parameters DEF Span
    <3>2. b = [k \in 0 .. Width - 1 |-> BytesIn(vm.reg["rax"], w)[0 + k]]
      BY <1>2, <1>5, AccUsable, AccFacts, SeenBytes
    <3>3. j \notin vm.reg["rax"].marked
      BY <1>8, <3>1 DEF IsSym
    <3>4. BytesIn(vm.reg["rax"], w)[j] = con[j]
      BY <1>2, <3>1, <3>3, AccUsable, AccFacts, SeenByte
    <3> HIDE DEF b, con, h
    <3>5. QED
      BY <3>1, <3>2, <3>4
  <2>3. Half(con, 0) = Half(b, 0)
    <3>1. Len(con) = Width /\ Len(b) = Width
      BY <2>1, ValueLen, Parameters
    <3>2. QED
      BY <2>2, <3>1 DEF Half
  <2>4. x \in Values(Width)
    <3>1. Half(con, 0) \in Values(h)
      BY <1>6, <2>1, HalfFacts
    <3>2. QED
      BY <1>6, <3>1, SExtFacts, Parameters
  <2>5. Exec(c, i) = Put(c, Acc, x)
    BY <1>3, <2>3
  <2>6. vm' = setConValue(vm, Acc, x) /\ flags' = flags
    BY <1>4, <1>8 DEF Writes
  <2> HIDE DEF x, c
  <2>7. CpuOf(setConValue(vm, Acc, x), flags.zf[w], w) = Put(c, Acc, x)
    BY <1>2, <1>5, <2>4, ImpliedSeen, AccFacts, StoredCon
  <2>8. QED
    BY <1>2, <2>5, <2>6, <2>7 DEF c
<1>9. QED
  BY <1>7, <1>8

LEMMA FactorsSeen ==
    ASSUME IInv, NEW i, Ready(i), ~ReadsStale(i), i.op = "mul", NEW w \in path
    PROVE  /\ Mixed(i, Acc, Width, w) = Get(CpuIn(w), Acc, Width)
           /\ Mixed(i, i.src, Width, w) = Get(CpuIn(w), i.src, Width)
<1>1. IsTarget(i.src) /\ Size(i.src) = Width
  BY ReadyFacts, FormFacts
<1>2. Placed(i.src) /\ SamePlace(CpuIn(w), i.src, i.src) /\ Fresh(i.src) /\ w \in Worlds
  BY <1>1, ReadSeen, WorldFacts
<1>3. Fresh(Acc)
  BY FreshFacts, OperandFacts
<1>4. ~WritesOnly(i.op) /\ Width \in 1 .. Width
  BY Parameters DEF WritesOnly
<1>5. QED
  BY <1>1, <1>2, <1>3, <1>4, ImpliedSeen, AccFacts, WideFacts, MixedSeen

(* A result in both registers.                                             *)
LEMMA GetTwice ==
    ASSUME NEW c \in Cpus, NEW x \in Values(Width), NEW y \in Values(Width)
    PROVE  LET d == Put(Put(c, Acc, x), Ext, y)
           IN  Get(d, Acc, Width) = x /\ Get(d, Ext, Width) = y
<1> DEFINE t == Put(c, Acc, x)
           d == Put(t, Ext, y)
<1>1. /\ IsRegister(Acc) /\ Acc.k = "reg" /\ Acc.r = "rax" /\ Size(Acc) = Width
      /\ IsRegister(Ext) /\ Ext.r = "rdx" /\ Size(Ext) = Width
      /\ "rax" \in Regs /\ "rdx" \in Regs
  BY AccFacts, Parameters
<1>2. \A j \in DOMAIN y : y[j] \in Bit
  BY ValueBits
<1>3. t \in Cpus
  BY <1>1, PutTyped
<1>4. Get(t, Acc, Width) = x /\ Get(d, Ext, Width) = y
  BY <1>1, <1>3, GetPut
<1>5. d.reg["rax"] = t.reg["rax"]
  <2>1. d = [reg |-> [r \in Regs |->
                        IF r = Ext.r
                        THEN Overlay(IF Ext.v = "d" THEN [j \in Off |-> 0] ELSE t.reg[Ext.r],
                                     At(Ext), y)
                        ELSE t.reg[r]],
             mem |-> t.mem, rsp |-> t.rsp, zf |-> t.zf]
    BY <1>1, <1>2, <1>3, PutFacts
  <2> HIDE DEF d, t
  <2>2. QED
    BY <1>1, <2>1
<1> HIDE DEF d, t
<1>6. Get(d, Acc, Width) = Get(t, Acc, Width)
  BY <1>1, <1>5 DEF Get
<1>7. QED
  BY <1>4, <1>6 DEF d, t

LEMMA MulSame ==
    ASSUME IInv, NEW i, Ready(i), ~Deviates(i), process_mul(i), status' # "abort", NEW w \in path
    PROVE  CpuIn(w)' = Exec(CpuIn(w), i)
<1> DEFINE lo == LowProduct(i)
           hi == Unevaluable(i, Ext)
           p == Half(ProductIn(i, Seed), 0)
           q == Half(ProductIn(i, Seed), Width)
           x == Half(ProductIn(i, w), 0)
           y == Half(ProductIn(i, w), Width)
<1>1. i.op = "mul" /\ ~ReadsStale(i)
  BY DEF process_mul, Deviates
<1>2. /\ w \in Worlds /\ flags.zf[w] \in BOOLEAN /\ vm \in VM /\ CpuIn(w) \in Cpus
      /\ CpuIn(w) = CpuOf(vm, flags.zf[w], w) /\ CpuIn(w)' = CpuOf(vm', flags'.zf[w], w)
  BY WorldFacts
<1>3. IF symb(i, Acc) \/ symb(i, i.src)
      THEN Writes(setSymValue(setSymValue(vm, Acc, lo), Ext, hi))
      ELSE Writes(setConValue(setConValue(vm, Acc, p), Ext, q))
  BY DEF process_mul, LowProduct, Abort
<1>4. Exec(CpuIn(w), i) = Put(Put(CpuIn(w), Acc, x), Ext, y)
  <2>1. i.op # "push" /\ i.dst = Acc /\ Size(Acc) = Width
    BY <1>1, ReadyFacts, FormFacts, AccFacts
  <2>2. ProductIn(i, w) = Word(Num(Get(CpuIn(w), Acc, Width)) * Num(Get(CpuIn(w), i.src, Width)), 2 * Width)
    BY <1>1, FactorsSeen DEF ProductIn
  <2>3. QED
    BY <1>1, <2>1, <2>2, ExecIs
<1>5. x \in Values(Width) /\ y \in Values(Width)
  BY ProductFacts
<1>6. CASE symb(i, Acc) \/ symb(i, i.src)
  <2>1. /\ lo \in Exprs(Width) /\ ValueIn(lo, w) = x
        /\ hi \in Exprs(Width) /\ ValueIn(hi, w) = Get(Exec(CpuIn(w), i), Ext, Width)
    BY <1>2, LowProductFacts, UnevaluableFacts, AccFacts
  <2> HIDE DEF x, y, lo, hi
  <2>2. ValueIn(hi, w) = y
    BY <1>2, <1>4, <1>5, <2>1, GetTwice
  <2>3. vm' = setSymValue(setSymValue(vm, Acc, lo), Ext, hi) /\ flags' = flags
    BY <1>3, <1>6 DEF Writes
  <2>4. QED
    BY <1>2, <1>4, <2>1, <2>2, <2>3, StoredTwice
<1>7. CASE ~(symb(i, Acc) \/ symb(i, i.src))
  <2> DEFINE m == setConValue(vm, Acc, x)
             d == CpuOf(m, flags.zf[w], w)
  <2>1. p = x /\ q = y
    <3>1. Mixed(i, Acc, Width, Seed) = Mixed(i, Acc, Width, w)
          /\ Mixed(i, i.src, Width, Seed) = Mixed(i, i.src, Width, w)
      BY <1>7 DEF Mixed
    <3>2. ProductIn(i, Seed) = ProductIn(i, w)
      BY <3>1 DEF ProductIn
    <3>3. QED
      BY <3>2
  <2>2. vm' = setConValue(m, Ext, y) /\ flags' = flags
    BY <1>3, <1>7, <2>1 DEF Writes
  <2> HIDE DEF x, y
  <2>3. d = Put(CpuIn(w), Acc, x)
    BY <1>2, <1>5, ImpliedSeen, AccFacts, StoredCon
  <2>4. m \in VM
    BY <1>2, <1>5, AccUsable, ValueBits, SetConGood
  <2>5. Clean(d, Ext) /\ SamePlace(d, Ext, Ext) /\ IsTarget(Ext) /\ Placed(Ext)
        /\ ConWhere(Ext) = Where(Ext)
    BY ImpliedSeen
  <2> HIDE DEF m
  <2>6. CpuOf(setConValue(m, Ext, y), flags.zf[w], w) = Put(d, Ext, y)
    BY <1>2, <1>5, <2>4, <2>5, AccFacts, StoredCon
  <2>7. QED
    BY <1>2, <1>4, <2>2, <2>3, <2>6
<1>8. QED
  BY <1>6, <1>7

LEMMA IdivSame ==
    ASSUME IInv, NEW i, Ready(i), ~Deviates(i), process_idiv(i), NEW w \in path
    PROVE  CpuIn(w)' = Exec(CpuIn(w), i)
<1> DEFINE lo == Unevaluable(i, Acc)
           hi == Unevaluable(i, Ext)
           c == CpuIn(w)
           n == Signed(Joined(Get(c, Ext, Width), Get(c, Acc, Width)))
           d == Signed(Get(c, i.src, Width))
           x == Word(Quotient(n, d), Width)
           y == Word(Remainder(n, d), Width)
<1>1. i.op = "idiv"
  BY DEF process_idiv
<1>2. /\ w \in Worlds /\ flags.zf[w] \in BOOLEAN /\ vm \in VM /\ c \in Cpus
      /\ c = CpuOf(vm, flags.zf[w], w) /\ c' = CpuOf(vm', flags'.zf[w], w)
  BY WorldFacts
<1>3. vm' = setSymValue(setSymValue(vm, Acc, lo), Ext, hi) /\ flags' = flags
  BY DEF process_idiv, Writes
<1>4. Exec(c, i) = Put(Put(c, Acc, x), Ext, y)
  <2>1. i.op # "push" /\ i.dst = Acc /\ Size(Acc) = Width
    BY <1>1, ReadyFacts, FormFacts, AccFacts
  <2>2. QED
    BY <1>1, <2>1, ExecIs
<1>5. x \in Values(Width) /\ y \in Values(Width)
  BY WordFacts
<1>6. /\ lo \in Exprs(Width) /\ ValueIn(lo, w) = Get(Exec(c, i), Acc, Width)
      /\ hi \in Exprs(Width) /\ ValueIn(hi, w) = Get(Exec(c, i), Ext, Width)
  BY UnevaluableFacts, AccFacts
<1> HIDE DEF lo, hi, x, y, c
<1>7. ValueIn(lo, w) = x /\ ValueIn(hi, w) = y
  BY <1>2, <1>4, <1>5, <1>6, GetTwice
<1>8. QED
  BY <1>2, <1>3, <1>4, <1>6, <1>7, StoredTwice DEF c

LEMMA ComputedSeen ==
    ASSUME IInv, NEW i, Ready(i), ~ReadsStale(i), ~SecondByte(i), Handled(i),
           i.op \in Binary \cup {"neg"}, NEW w \in path
    PROVE  ValueIn(Combined(i), w) =
             Alu(i.op, Get(CpuIn(w), i.dst, Size(i.dst)),
                 IF i.op \in Unary THEN Get(CpuIn(w), i.dst, Size(i.dst))
                 ELSE Get(CpuIn(w), i.src, Size(i.dst)))
<1> DEFINE size == Size(i.dst)
           c == CpuIn(w)
<1>1. /\ WellFormed(i) /\ w \in Worlds /\ i.op \in Binary \cup Unary /\ ~WritesOnly(i.op)
      /\ i.op \in Unary <=> i.op = "neg"
      /\ i.op \in Binary => i.op \notin Unary
  BY ReadyFacts, WorldFacts DEF Binary, Unary, WritesOnly
<1>2. /\ IsTarget(i.dst) /\ size \in 1 .. Width
      /\ Placed(i.dst) /\ SamePlace(c, i.dst, i.dst) /\ Fresh(i.dst)
  BY <1>1, FormFacts, TargetFacts, ReadSeen
<1>3. Readable(i.dst) /\ (IsTarget(i.src) => Readable(i.src))
  <2>1. i.dst \in ReadBy(i) /\ i.src \in ReadBy(i)
    BY <1>1 DEF ReadBy
  <2>2. QED
    BY <1>2, <2>1, ByteFacts
<1>4. ValueIn(Combined(i), w) = Alu(i.op, Mixed(i, i.dst, size, w), SecondOf(i, w))
  BY <1>1, CombinedFacts
<1>5. Mixed(i, i.dst, size, w) = Get(c, i.dst, size)
  BY <1>1, <1>2, <1>3, MixedSeen
<1>6. CASE i.op = "neg"
  <2>1. \A a, b, d : Alu("neg", a, b) = Alu("neg", a, d)
    BY DEF Alu
  <2>2. QED
    BY <1>1, <1>4, <1>5, <1>6, <2>1
<1>7. CASE i.op \in Binary
  <2>1. IsSource(i.src)
    BY <1>1, <1>7, FormFacts
  <2>2. SecondOf(i, w) = Mixed(i, i.src, SrcSize(i), w)
    BY <1>1, <1>7 DEF SecondOf
  <2>3. CASE i.src.k = "imm"
    BY <1>1, <1>2, <1>4, <1>5, <1>7, <2>2, <2>3, MixedSeen DEF SrcSize
  <2>4. CASE i.src.k # "imm"
    <3>1. IsTarget(i.src) /\ SrcSize(i) = Size(i.src) /\ Size(i.src) \in 1 .. Width
      BY <2>1, <2>4, TargetFacts DEF IsSource, SrcSize
    <3>2. Placed(i.src) /\ SamePlace(c, i.src, i.src) /\ Fresh(i.src)
      BY <3>1, ReadSeen
    <3>3. Mixed(i, i.src, Size(i.src), w) = Get(c, i.src, Size(i.src))
      BY <1>1, <1>3, <3>1, <3>2, MixedSeen
    <3>4. Get(c, i.src, Size(i.src)) = Get(c, i.src, size)
      <4>1. \A n : Get(c, i.src, n) =
                    [j \in 0 .. Size(i.src) - 1 |-> BytesIn(Store(i.src), w)[Where(i.src) + j]]
        BY <1>1, <3>1, <3>2, SeenBytes
      <4>2. QED
        BY <4>1
    <3>5. QED
      BY <1>1, <1>4, <1>5, <1>7, <2>2, <3>1, <3>3, <3>4
  <2>5. QED
    BY <2>3, <2>4
<1>8. QED
  BY <1>6, <1>7

(* The zero flag of a machine state is set apart.                          *)
LEMMA FlagSet ==
    ASSUME NEW m, NEW zf, NEW z, NEW w
    PROVE  /\ CpuOf(m, z, w) = [CpuOf(m, zf, w) EXCEPT !.zf = z]
           /\ CpuOf(m, zf, w).zf = zf
<1> DEFINE reg == [r \in Regs |-> BytesIn(m.reg[r], w)]
           mem == BytesIn(m.mem, w)
<1>1. /\ CpuOf(m, z, w) = [reg |-> reg, mem |-> mem, rsp |-> m.rsp, zf |-> z]
      /\ CpuOf(m, zf, w) = [reg |-> reg, mem |-> mem, rsp |-> m.rsp, zf |-> zf]
  BY DEF CpuOf
<1> HIDE DEF reg, mem
<1>2. QED
  BY <1>1

LEMMA ComputesSame ==
    ASSUME IInv, NEW i, Ready(i), ~Deviates(i), Handled(i),
           i.op \in Binary \cup {"neg"}, Computes(i), NEW w \in path
    PROVE  CpuIn(w)' = Exec(CpuIn(w), i)
<1> DEFINE size == Size(i.dst)
           c == CpuIn(w)
           e == Combined(i)
           v == Alu(i.op, Get(c, i.dst, size),
                    IF i.op \in Unary THEN Get(c, i.dst, size) ELSE Get(c, i.src, size))
           z == (Num(v) = 0)
<1>1. /\ ~ReadsStale(i) /\ ~KeepsUpperHalf(i) /\ ~SecondByte(i) /\ WellFormed(i)
      /\ i.op \in Binary \cup Unary /\ i.op # "not" /\ i.op # "push"
  BY ReadyFacts DEF Deviates, Binary, Unary
<1>2. IsTarget(i.dst)
  BY <1>1, FormFacts
<1>3. /\ w \in Worlds /\ flags.zf[w] \in BOOLEAN /\ vm \in VM
      /\ c = CpuOf(vm, flags.zf[w], w) /\ c' = CpuOf(vm', flags'.zf[w], w)
      /\ Placed(i.dst) /\ SamePlace(c, i.dst, i.dst)
  BY <1>1, <1>2, WorldFacts
<1>4. i.op \notin OnlyFlags => Clean(c, i.dst) /\ Settled(vm, i.dst)
  BY <1>1, <1>2, CleanFacts, WrittenFacts, ByteFacts
<1>5. e \in Exprs(size) /\ ValueIn(e, w) = v
  BY <1>1, CombinedFacts, ComputedSeen
<1>6. /\ vm' = IF i.op \in OnlyFlags THEN vm ELSE setSymValue(vm, i.dst, e)
      /\ Saves(e)
  BY DEF Computes
<1>7. Exec(c, i) = [(IF i.op \in OnlyFlags THEN c ELSE Put(c, i.dst, v)) EXCEPT !.zf = z]
  BY <1>1, ExecIs
<1> HIDE DEF v, e
<1>8. flags'.zf[w] = z
  BY <1>3, <1>5, <1>6, SavesFacts
<1> HIDE DEF z, c
<1>9. CASE i.op \in OnlyFlags
  BY <1>3, <1>6, <1>7, <1>8, <1>9, FlagSet DEF c
<1>10. CASE i.op \notin OnlyFlags
  <2>1. CpuOf(setSymValue(vm, i.dst, e), flags.zf[w], w) = Put(c, i.dst, v)
    BY <1>2, <1>3, <1>4, <1>5, <1>10, StoredSym
  <2>2. QED
    BY <1>3, <1>6, <1>7, <1>8, <1>10, <2>1, FlagSet DEF c
<1>11. QED
  BY <1>9, <1>10

(* The second operand after a store to the first one.                      *)
LEMMA AfterStore ==
    ASSUME NEW c \in Cpus, NEW o, IsTarget(o), NEW b \in Values(Size(o)),
           NEW p, IsTarget(p), SamePlace(c, p, p),
           o.k = "reg" /\ p.k = "reg" => (o.v = "d" <=> p.v = "d")
    PROVE  /\ SamePlace(Put(c, o, b), Resolved(c, p), p)
           /\ Clean(c, p) => Clean(Put(c, o, b), p)
<1> DEFINE d == Put(c, o, b)
<1>1. /\ IsMem(p) <=> p.k # "reg"
      /\ p.k \in {"reg", "mem", "ind"}
      /\ \A j \in DOMAIN b : b[j] \in Bit
      /\ IsMem(o) <=> ~IsRegister(o)
  BY TargetFacts, RegisterFacts, RegisterIsTarget, ValueBits
<1>2. SamePlace(d, Resolved(c, p), p)
  <2>1. CASE p.k = "reg"
    BY <1>1, <2>1 DEF SamePlace, Resolved
  <2>2. CASE p.k = "mem"
    <3>1. AddrOf(d, p) = AddrOf(c, p) /\ Resolved(c, p) = p
      BY <2>2 DEF AddrOf, Resolved
    <3>2. QED
      BY <1>1, <2>2, <3>1 DEF SamePlace
  <2>3. CASE p.k = "ind"
    <3> DEFINE q == [k |-> "mem", at |-> AddrOf(c, p), n |-> p.n]
    <3>1. Resolved(c, p) = q /\ IsMem(q) /\ AddrOf(d, q) = AddrOf(c, p)
      BY <2>3 DEF Resolved, IsMem, AddrOf
    <3>2. QED
      BY <1>1, <2>3, <3>1 DEF SamePlace
  <2>4. QED
    BY <1>1, <2>1, <2>2, <2>3
<1>3. ASSUME Clean(c, p), p.k = "reg", p.v = "d", NEW j \in Off, j >= Width \div 2
      PROVE  d.reg[p.r][j] = 0
  <2>1. c.reg[p.r][j] = 0 /\ p.r \in Regs
    BY <1>3, TargetFacts DEF Clean
  <2>2. CASE IsMem(o)
    <3>1. d = [reg |-> c.reg, mem |-> Overlay(c.mem, AddrOf(c, o), b), rsp |-> c.rsp, zf |-> c.zf]
      BY <1>1, <2>2, PutFacts
    <3>2. d.reg = c.reg
      BY <3>1
    <3>3. QED
      BY <2>1, <3>2
  <2>3. CASE IsRegister(o)
    <3>1. o.k = "reg" /\ o.v = "d" /\ At(o) = 0 /\ Size(o) = Width \div 2
      BY <1>3, <2>3, RegisterFacts DEF At, Size, regIdxToAddrSize
    <3> DEFINE r == [k \in Regs |-> IF k = o.r THEN Overlay([n \in Off |-> 0], 0, b) ELSE c.reg[k]]
    <3>2. d = [reg |-> r, mem |-> c.mem, rsp |-> c.rsp, zf |-> c.zf]
      BY <1>1, <2>3, <3>1, PutFacts
    <3>3. d.reg[p.r] = IF p.r = o.r THEN Overlay([n \in Off |-> 0], 0, b) ELSE c.reg[p.r]
      BY <2>1, <3>2
    <3>4. Overlay([n \in Off |-> 0], 0, b)[j] = 0
      <4>1. j - 0 \notin DOMAIN b
        BY <1>3, <3>1, Parameters DEF Values, Off
      <4>2. Overlay([n \in Off |-> 0], 0, b) = [n \in Off |-> IF n - 0 \in DOMAIN b THEN b[n - 0] ELSE 0]
        BY DEF Overlay
      <4>3. QED
        BY <1>3, <4>1, <4>2
    <3> HIDE DEF d
    <3>5. QED
      BY <2>1, <3>3, <3>4
  <2>4. QED
    BY <1>1, <2>2, <2>3
<1>4. QED
  BY <1>2, <1>3 DEF Clean

(* A second write finds no mark less.                                      *)
LEMMA StaysSettled ==
    ASSUME NEW m \in VM, NEW o, IsTarget(o), Placed(o), NEW e \in Exprs(Size(o)),
           NEW p, IsTarget(p), Settled(m, p)
    PROVE  Settled(setSymValue(m, o, e), p)
<1> DEFINE s == WriteExpr(StoreIn(m, o), Where(o), ConWhere(o), Size(o), e)
           t == setSymValue(m, o, e)
<1>1. (IsMem(o) \/ o.r \in Regs) /\ (IsMem(p) \/ p.r \in Regs)
  BY TargetFacts
<1>2. s \in Good(Home(o))
  <2>1. /\ StoreIn(m, o) \in Good(Home(o)) /\ Home(o) \in SUBSET Int
        /\ Where(o) \in Int /\ ConWhere(o) \in Int /\ Size(o) \in Nat
    BY TargetFacts, StoreFacts, PlacedFacts DEF Placed
  <2>2. QED
    BY <2>1, PlacedFacts, WriteExprGood
<1>3. t = WithStore(m, o, s) /\ StoreIn(m, o).marked \subseteq s.marked
  BY DEF setSymValue, WriteExpr
<1>4. t = IF IsMem(o) THEN [reg |-> m.reg, mem |-> s, rsp |-> m.rsp]
          ELSE [reg |-> [r \in Regs |-> IF r = o.r THEN s ELSE m.reg[r]],
                mem |-> m.mem, rsp |-> m.rsp]
  <2> HIDE DEF s, t
  <2>1. QED
    BY <1>1, <1>2, <1>3, WithStoreFacts
<1> HIDE DEF s, t
<1>5. StoreIn(m, p).marked \subseteq StoreIn(t, p).marked
  <2>1. CASE IsMem(o)
    BY <1>3, <1>4, <2>1 DEF StoreIn
  <2>2. CASE ~IsMem(o)
    BY <1>1, <1>3, <1>4, <2>2 DEF StoreIn
  <2>3. QED
    BY <2>1, <2>2
<1>6. Settled(t, p)
  BY <1>5 DEF Settled, Unseen
<1>7. QED
  BY <1>6 DEF t

LEMMA XchgSame ==
    ASSUME IInv, NEW i, Ready(i), ~Deviates(i), Handled(i), hasSymOperand(i),
           process_xchg(i), status' # "abort", NEW w \in path
    PROVE  CpuIn(w)' = Exec(CpuIn(w), i)
<1> DEFINE size == Size(i.dst)
           c == CpuIn(w)
           zf == flags.zf[w]
           a == Get(c, i.dst, size)
           b == Get(c, i.src, size)
           p == Resolved(c, i.src)
           d == Put(c, i.dst, b)
           as == getSymValue(i.dst)
           bs == getSymValue(i.src)
           ac == getConValue(i.dst, size)
           bc == getConValue(i.src, size)
           ms == setSymValue(vm, i.dst, bs)
           mc == setConValue(vm, i.dst, bc)
<1>1. i.op = "xchg" /\ ~ReadsStale(i) /\ ~KeepsUpperHalf(i) /\ ~SecondByte(i) /\ WellFormed(i)
  BY ReadyFacts DEF process_xchg, Deviates
<1>2. /\ IsTarget(i.dst) /\ IsTarget(i.src) /\ Size(i.src) = size
      /\ i.dst.k = "reg" /\ i.src.k = "reg" => (i.dst.v = "d" <=> i.src.v = "d")
  BY <1>1, FormFacts
<1>3. /\ w \in Worlds /\ zf \in BOOLEAN /\ vm \in VM /\ c \in Cpus
      /\ c = CpuOf(vm, zf, w) /\ c' = CpuOf(vm', flags'.zf[w], w)
      /\ Placed(i.dst) /\ SamePlace(c, i.dst, i.dst) /\ Clean(c, i.dst)
      /\ Placed(i.src) /\ SamePlace(c, i.src, i.src) /\ Clean(c, i.src)
  BY <1>1, <1>2, WorldFacts, CleanFacts, WrittenFacts DEF OnlyFlags
<1>4. Exec(c, i) = Put(d, p, a)
  BY <1>1, ExecIs
<1>5. symb(i, i.dst) = IsSymOpd(i.dst) /\ symb(i, i.src) = IsSymOpd(i.src)
  BY <1>1, <1>2, SymbIs DEF WritesOnly
<1>6. /\ Readable(i.dst) /\ Readable(i.src) /\ Settled(vm, i.dst) /\ Settled(vm, i.src)
      /\ ~IsSymOpd(i.src) \/ ~IsSymOpd(i.dst) =>
            ConWhere(i.dst) = Where(i.dst) /\ ConWhere(i.src) = Where(i.src)
  <2>1. /\ i.dst \in ReadBy(i) /\ i.src \in ReadBy(i) /\ i.dst \in Written(i) /\ i.src \in Written(i)
        /\ i.op \notin Binary \cup Unary
    BY <1>1 DEF ReadBy, Written, Binary, Unary
  <2>2. QED
    BY <1>1, <1>2, <1>5, <2>1, ByteFacts
<1>7. /\ a \in Values(size) /\ b \in Values(size)
      /\ as \in Exprs(size) /\ bs \in Exprs(size)
      /\ ac \in Values(size) /\ bc \in Values(size)
      /\ IsSymOpd(i.dst) => ValueIn(as, w) = a
      /\ ~IsSymOpd(i.dst) => ac = a
      /\ IsSymOpd(i.src) => ValueIn(bs, w) = b
      /\ ~IsSymOpd(i.src) => bc = b
  BY <1>1, <1>2, <1>6, ReadSeen
<1>8. IsSymOpd(i.dst) \/ IsSymOpd(i.src)
  BY <1>1 DEF hasSymOperand, Operands, Implied, OpdhasSymReg, OpdhasSymMemCell, checkImplicitMemAccess
<1>9. \/ IsSymOpd(i.src) /\ IsSymOpd(i.dst) /\ Writes(setSymValue(ms, i.src, as))
      \/ ~IsSymOpd(i.src) /\ IsSymOpd(i.dst) /\ Writes(setSymValue(mc, i.src, as))
      \/ IsSymOpd(i.src) /\ ~IsSymOpd(i.dst) /\ Writes(setConValue(ms, i.src, ac))
  BY <1>5, <1>8 DEF process_xchg, Abort
<1> HIDE DEF a, b, as, bs, ac, bc, c, size, zf
<1>10. SamePlace(d, p, i.src) /\ Clean(d, i.src)
  BY <1>2, <1>3, <1>7, AfterStore DEF size
<1>11. ms \in VM /\ mc \in VM
  BY <1>2, <1>3, <1>7, SetSymGood, SetConGood, ValueBits DEF size
<1>12. /\ IsSymOpd(i.src) => CpuOf(ms, zf, w) = d
       /\ ~IsSymOpd(i.src) => CpuOf(mc, zf, w) = d
  BY <1>2, <1>3, <1>6, <1>7, StoredSym, StoredCon DEF size
<1>13. /\ IsSymOpd(i.src) => Settled(ms, i.src)
       /\ ~IsSymOpd(i.src) => Settled(mc, i.src)
  <2>1. Settled(ms, i.src)
    BY <1>2, <1>3, <1>6, <1>7, StaysSettled DEF size
  <2>2. ~IsSymOpd(i.src) => Settled(mc, i.src)
    BY <1>6 DEF Settled, Unseen
  <2>3. QED
    BY <2>1, <2>2
<1> HIDE DEF ms, mc, d, p
<1>14. CASE IsSymOpd(i.src) /\ IsSymOpd(i.dst) /\ Writes(setSymValue(ms, i.src, as))
  <2>1. CpuOf(setSymValue(ms, i.src, as), zf, w) = Put(d, p, a)
    <3>1. as \in Exprs(Size(i.src)) /\ ValueIn(as, w) = a /\ d = CpuOf(ms, zf, w)
      BY <1>2, <1>7, <1>12, <1>14
    <3>2. ms \in VM /\ IsTarget(i.src) /\ Placed(i.src) /\ zf \in BOOLEAN /\ w \in Worlds
      BY <1>2, <1>3, <1>11
    <3>3. CpuOf(setSymValue(ms, i.src, as), zf, w) = Put(d, p, ValueIn(as, w))
      <4>1. \A e \in Exprs(Size(i.src)) :
                CpuOf(setSymValue(ms, i.src, e), zf, w) = Put(d, p, ValueIn(e, w))
        BY <1>10, <1>13, <1>14, <3>1, <3>2, StoredSym
      <4>2. QED
        BY <3>1, <4>1
    <3>4. QED
      BY <3>1, <3>3
  <2>2. QED
    BY <1>3, <1>4, <1>14, <2>1 DEF Writes, c, zf
<1>15. CASE ~IsSymOpd(i.src) /\ IsSymOpd(i.dst) /\ Writes(setSymValue(mc, i.src, as))
  <2>1. CpuOf(setSymValue(mc, i.src, as), zf, w) = Put(d, p, a)
    <3>1. as \in Exprs(Size(i.src)) /\ ValueIn(as, w) = a /\ d = CpuOf(mc, zf, w)
      BY <1>2, <1>7, <1>12, <1>15
    <3>2. mc \in VM /\ IsTarget(i.src) /\ Placed(i.src) /\ zf \in BOOLEAN /\ w \in Worlds
      BY <1>2, <1>3, <1>11
    <3>3. CpuOf(setSymValue(mc, i.src, as), zf, w) = Put(d, p, ValueIn(as, w))
      <4>1. \A e \in Exprs(Size(i.src)) :
                CpuOf(setSymValue(mc, i.src, e), zf, w) = Put(d, p, ValueIn(e, w))
        BY <1>10, <1>13, <1>15, <3>1, <3>2, StoredSym
      <4>2. QED
        BY <3>1, <4>1
    <3>4. QED
      BY <3>1, <3>3
  <2>2. QED
    BY <1>3, <1>4, <1>15, <2>1 DEF Writes, c, zf
<1>16. CASE IsSymOpd(i.src) /\ ~IsSymOpd(i.dst) /\ Writes(setConValue(ms, i.src, ac))
  <2>1. CpuOf(setConValue(ms, i.src, ac), zf, w) = Put(d, p, a)
    BY <1>2, <1>3, <1>6, <1>7, <1>10, <1>11, <1>12, <1>16, StoredCon
  <2>2. QED
    BY <1>3, <1>4, <1>16, <2>1 DEF Writes, c, zf
<1>17. QED
  BY <1>9, <1>14, <1>15, <1>16 DEF c

(* A condition that does not hold: the register keeps its value.           *)
LEMMA SkipSame ==
    ASSUME IInv, NEW i \in Insns, ~Deviates(i), SkipConditional(i), NEW w \in path'
    PROVE  w \in path /\ CpuIn(w)' = Exec(CpuIn(w), i)
<1> DEFINE c == CpuIn(w)
           a == Get(c, i.dst, Size(i.dst))
<1>1. /\ ~KeepsUpperHalf(i) /\ ~WrongConditional(i) /\ WellFormed(i)
      /\ IsConditional(i) /\ flags.bsym /\ flags.zf[Seed] = FALSE
      /\ path' = { u \in path : flags.zf[u] = FALSE }
      /\ vm' = vm /\ flags' = flags
  BY SymExecAssumption DEF Deviates, SkipConditional, EvalCondition, Decides
<1>2. w \in path /\ flags.zf[w] = FALSE
  BY <1>1
<1>3. i.op = "cmov"
  BY <1>1 DEF WrongConditional, IsConditional, Decides
<1>4. IsRegister(i.dst) /\ IsTarget(i.dst)
  BY <1>1, <1>3, FormFacts
<1>5. /\ c \in Cpus /\ c = CpuOf(vm, flags.zf[w], w) /\ c' = CpuOf(vm', flags'.zf[w], w)
      /\ c.zf = FALSE /\ Clean(c, i.dst)
  <2>1. vm \in VM /\ w \in Worlds
    BY <1>2, InvFacts
  <2>2. c \in Cpus /\ c = CpuOf(vm, flags.zf[w], w) /\ c.zf = FALSE
    BY <1>2, <2>1, CpusTyped DEF CpuIn
  <2>3. c' = CpuOf(vm', flags'.zf[w], w)
    BY DEF CpuIn, CpuOf
  <2>4. i.op \notin OnlyFlags
    BY <1>3 DEF OnlyFlags
  <2>5. QED
    BY <1>1, <1>2, <1>4, <2>2, <2>3, <2>4, CleanFacts, WrittenFacts
<1>6. Exec(c, i) = Put(c, i.dst, a)
  BY <1>3, <1>5, ExecIs
<1>7. Put(c, i.dst, a) = c
  BY <1>4, <1>5, PutBack
<1>8. QED
  BY <1>1, <1>2, <1>5, <1>6, <1>7

LEMMA ConditionalSame ==
    ASSUME IInv, NEW i, Ready(i), ~Deviates(i), Handled(i),
           process_cmovxx(i) \/ process_set(i),
           NEW w \in path, flags.zf[w] = TRUE, flags'.zf[w] = TRUE
    PROVE  CpuIn(w)' = Exec(CpuIn(w), i)
<1> DEFINE size == Size(i.dst)
           c == CpuIn(w)
           b == Get(c, i.src, size)
           one == Word(1, size)
<1>1. /\ ~ReadsStale(i) /\ ~KeepsUpperHalf(i) /\ ~SecondByte(i) /\ WellFormed(i) /\ i.op \in {"cmov", "set"}
      /\ IsTarget(i.dst)
  BY ReadyFacts, FormFacts DEF Deviates, process_cmovxx, process_set
<1>2. /\ w \in Worlds /\ flags.zf[w] \in BOOLEAN /\ vm \in VM
      /\ c = CpuOf(vm, flags.zf[w], w) /\ c' = CpuOf(vm', flags.zf[w], w) /\ c.zf = TRUE
      /\ Placed(i.dst) /\ SamePlace(c, i.dst, i.dst) /\ Clean(c, i.dst)
  BY <1>1, WorldFacts, CleanFacts, WrittenFacts DEF OnlyFlags
<1>3. /\ Settled(vm, i.dst) /\ (ConWhere(i.dst) = Where(i.dst) \/ symb(i, i.src))
      /\ IsTarget(i.src) => Readable(i.src)
  <2>1. i.src \in ReadBy(i) /\ i.dst \in Written(i) /\ i.op \notin Binary \cup Unary
    BY <1>1 DEF ReadBy, Written, OnlyFlags, Binary, Unary
  <2>2. QED
    BY <1>1, <2>1, ByteFacts
<1>4. CASE process_cmovxx(i)
  <2>1. /\ i.op = "cmov" /\ IsRegister(i.dst) /\ IsTarget(i.src) /\ Size(i.src) = size
        /\ ~IsMem(i.dst)
    <3>1. i.op = "cmov" /\ IsRegister(i.dst) /\ IsTarget(i.src)
          /\ (i.src.k = "imm" \/ Size(i.src) = size)
      BY <1>1, <1>4, FormFacts DEF process_cmovxx
    <3>2. QED
      BY <3>1, TargetFacts, RegisterIsTarget
  <2>2. vm' = IF IsSymOpd(i.src) THEN setSymValue(vm, i.dst, getSymValue(i.src))
              ELSE setConValue(vm, i.dst, getConValue(i.src, Size(i.src)))
    <3>1. symb(i, i.src) = IsSymOpd(i.src)
      BY <2>1, SymbIs
    <3>2. QED
      BY <1>4, <2>1, <3>1 DEF process_cmovxx
  <2>3. /\ IsSymOpd(i.src) => ValueIn(getSymValue(i.src), w) = b
        /\ ~IsSymOpd(i.src) => getConValue(i.src, Size(i.src)) = b
        /\ getSymValue(i.src) \in Exprs(size) /\ b \in Values(size)
    BY <1>1, <1>3, <2>1, ReadSeen
  <2>4. Exec(c, i) = Put(c, i.dst, b)
    BY <1>2, <2>1, ExecIs
  <2>5. CpuOf(setSymValue(vm, i.dst, getSymValue(i.src)), flags.zf[w], w)
            = Put(c, i.dst, ValueIn(getSymValue(i.src), w))
    BY <1>1, <1>2, <1>3, <2>3, StoredSym
  <2>6. ~IsSymOpd(i.src) => CpuOf(setConValue(vm, i.dst, b), flags.zf[w], w) = Put(c, i.dst, b)
    <3>1. ~IsSymOpd(i.src) => ConWhere(i.dst) = Where(i.dst)
      BY <1>3, <2>1, SymbIs
    <3>2. QED
      BY <1>1, <1>2, <2>3, <3>1, StoredCon
  <2> HIDE DEF b, c
  <2>7. CASE IsSymOpd(i.src)
    BY <1>2, <2>2, <2>3, <2>4, <2>5, <2>7 DEF c
  <2>8. CASE ~IsSymOpd(i.src)
    BY <1>2, <2>2, <2>3, <2>4, <2>6, <2>8 DEF c
  <2>9. QED
    BY <2>7, <2>8
<1>5. CASE process_set(i)
  <2>1. i.op = "set" /\ vm' = setConValue(vm, i.dst, one)
    BY <1>5 DEF process_set
  <2>2. one \in Values(size)
    BY WordFacts
  <2>3. Exec(c, i) = Put(c, i.dst, one)
    BY <1>2, <2>1, ExecIs
  <2> HIDE DEF one
  <2>4. CpuOf(setConValue(vm, i.dst, one), flags.zf[w], w) = Put(c, i.dst, one)
    <3>1. i.src.k = "none"
      BY <1>1, <2>1, FormFacts
    <3>2. ConWhere(i.dst) = Where(i.dst)
      BY <1>3, <3>1 DEF symb, IsMem, mayOperandUseSymbol_XX
    <3>3. QED
      BY <1>1, <1>2, <2>2, <3>2, StoredCon
  <2>5. QED
    BY <1>2, <2>1, <2>3, <2>4
<1>6. QED
  BY <1>4, <1>5

LEMMA TakeSame ==
    ASSUME IInv, NEW i, Ready(i), ~Deviates(i), TakeConditional(i), NEW w \in path'
    PROVE  w \in path /\ CpuIn(w)' = Exec(CpuIn(w), i)
<1>1. /\ process_cmovxx(i) \/ process_set(i)
      /\ flags' = [bsym |-> FALSE, fails |-> FALSE, zf |-> [u \in Worlds |-> TRUE]]
      /\ path' = { u \in path : flags.zf[u] = TRUE }
      /\ Handled(i)
  BY DEF TakeConditional, EvalCondition, Handled
<1>2. w \in path /\ w \in Worlds /\ flags.zf[w] = TRUE
  BY <1>1, InvFacts
<1>3. flags'.zf = [u \in Worlds |-> TRUE]
  BY <1>1
<1>4. flags'.zf[w] = TRUE
  BY <1>2, <1>3
<1>5. QED
  BY <1>1, <1>2, <1>4, ConditionalSame

(* What the handlers do, in each world.                                    *)
LEMMA RunSame ==
    ASSUME IInv, NEW i, Ready(i), ~Deviates(i), RunSymbolic(i), status' # "abort", NEW w \in path
    PROVE  CpuIn(w)' = Exec(CpuIn(w), i)
<1>1. hasSymOperand(i) /\ Handled(i) /\ run(i) /\ ~(IsConditional(i) /\ flags.bsym)
  BY DEF RunSymbolic, Handled, Decides
<1>2. CASE process_mov(i)
  BY <1>1, <1>2, MovSame
<1>3. CASE process_lea(i)
  BY <1>1, <1>3, LeaSame
<1>4. CASE process_movsx(i) \/ process_movzx(i)
  BY <1>1, <1>4, ExtendSame
<1>5. CASE i.op \in Binary \cup {"neg"} /\ Computes(i)
  BY <1>1, <1>5, ComputesSame
<1>6. CASE process_xchg(i)
  BY <1>1, <1>6, XchgSame
<1>7. CASE process_pop(i) \/ process_push(i)
  BY <1>1, <1>7, PopSame, PushSame
<1>8. CASE process_cbw(i) \/ process_cdq(i)
  BY <1>1, <1>8, CbwSame, CdqSame
<1>9. CASE process_mul(i) \/ process_idiv(i)
  BY <1>1, <1>9, MulSame, IdivSame
<1>10. CASE (process_cmovxx(i) \/ process_set(i)) /\ UNCHANGED flags
  <2>1. IsConditional(i) /\ ~flags.bsym /\ ~WrongConditional(i) /\ flags' = flags
    BY <1>1, <1>10 DEF Deviates, IsConditional, process_cmovxx, process_set
  <2>2. flags.zf[Seed]
    BY <1>1, <2>1 DEF WrongConditional
  <2>3. flags.zf[w] = TRUE
    <3>1. flags.zf[w] = flags.zf[Seed] /\ flags.zf[w] \in BOOLEAN
      BY <2>1, InvFacts, WorldFacts DEF FlagsAgree
    <3>2. QED
      BY <2>2, <3>1
  <2>4. QED
    BY <1>1, <1>10, <2>1, <2>3, ConditionalSame
<1>11. \/ process_mov(i) \/ process_lea(i) \/ process_movsx(i) \/ process_movzx(i)
       \/ (i.op \in Binary \cup {"neg"} /\ Computes(i)) \/ Abort
       \/ process_xchg(i) \/ process_pop(i) \/ process_push(i)
       \/ process_cbw(i) \/ process_cdq(i) \/ process_mul(i) \/ process_idiv(i)
       \/ ((process_cmovxx(i) \/ process_set(i)) /\ UNCHANGED flags)
  BY <1>1 DEF run, process_add, process_sub, process_and, process_or, process_xor, process_test,
         process_cmp, process_neg, process_not, process_shl_sal, process_shr, process_sar,
         process_shrd, Binary
<1>12. ~Abort
  BY DEF Abort
<1>13. QED
  BY <1>2, <1>3, <1>4, <1>5, <1>6, <1>7, <1>8, <1>9, <1>10, <1>11, <1>12

-----------------------------------------------------------------------------
(* The processor executes an instruction without symbolic operands.        *)

(* The symbols that a world keeps over what the host wrote.                *)
Under(s, con, w) == [o \in DOMAIN con |-> IF o \in s.marked THEN s.content[o].val[w] ELSE con[o]]

LEMMA UnderFacts ==
    ASSUME NEW D, NEW s \in Good(D), NEW con \in [D -> Bit], NEW w \in Worlds
    PROVE  /\ BytesIn([s EXCEPT !.con = con], w) = Under(s, con, w)
           /\ Under(s, con, w) = [o \in D |-> IF o \in s.marked THEN s.content[o].val[w] ELSE con[o]]
           /\ Under(s, con, w) \in [D -> Bit]
<1> DEFINE t == [s EXCEPT !.con = con]
<1>1. t = [marked |-> s.marked, content |-> s.content, con |-> con] /\ t \in Good(D)
  BY LayersUnder
<1> HIDE DEF t
<1>2. t.marked = s.marked /\ t.content = s.content /\ t.con = con
  BY <1>1
<1>3. BytesIn(t, w) = Under(s, con, w)
  BY <1>2 DEF BytesIn, Under
<1>4. BytesIn(t, w) \in [D -> Bit]
  BY <1>1, BytesInFacts
<1>5. QED
  BY <1>3, <1>4 DEF t, Under

LEMMA HostSeen ==
    ASSUME vm \in VM, NEW t \in Cpus, NEW zf, NEW w \in Worlds
    PROVE  CpuOf(HostWrote(t), zf, w) =
             [reg |-> [r \in Regs |-> Under(vm.reg[r], t.reg[r], w)],
              mem |-> Under(vm.mem, t.mem, w), rsp |-> t.rsp, zf |-> zf]
<1> DEFINE m == HostWrote(t)
<1>1. vm.reg \in [Regs -> Good(Off)] /\ vm.mem \in Good(Addr)
  BY VMFacts
<1>2. t.reg \in [Regs -> [Off -> Bit]] /\ t.mem \in [Addr -> Bit]
  BY CpuFacts
<1>3. /\ m.reg = [r \in Regs |-> [vm.reg[r] EXCEPT !.con = t.reg[r]]]
      /\ m.mem = [vm.mem EXCEPT !.con = t.mem] /\ m.rsp = t.rsp
  BY DEF HostWrote
<1> HIDE DEF m
<1>4. \A r \in Regs : BytesIn(m.reg[r], w) = Under(vm.reg[r], t.reg[r], w)
  <2> SUFFICES ASSUME NEW r \in Regs PROVE BytesIn(m.reg[r], w) = Under(vm.reg[r], t.reg[r], w)
    OBVIOUS
  <2>1. vm.reg[r] \in Good(Off) /\ t.reg[r] \in [Off -> Bit]
    BY <1>1, <1>2
  <2>2. BytesIn([vm.reg[r] EXCEPT !.con = t.reg[r]], w) = Under(vm.reg[r], t.reg[r], w)
    BY <2>1, UnderFacts
  <2>3. QED
    BY <1>3, <2>2
<1>5. BytesIn(m.mem, w) = Under(vm.mem, t.mem, w)
  <2>1. BytesIn([vm.mem EXCEPT !.con = t.mem], w) = Under(vm.mem, t.mem, w)
    BY <1>1, <1>2, UnderFacts
  <2>2. QED
    BY <1>3, <2>1
<1>6. CpuOf(m, zf, w) = [reg |-> [r \in Regs |-> BytesIn(m.reg[r], w)],
                         mem |-> BytesIn(m.mem, w), rsp |-> m.rsp, zf |-> zf]
  BY DEF CpuOf
<1>7. QED
  BY <1>3, <1>4, <1>5, <1>6 DEF m

LEMMA HostStart ==
    ASSUME IInv, NEW zf, NEW w \in Worlds
    PROVE  CpuOf(HostWrote(HostCpu), zf, w) = CpuOf(vm, zf, w)
<1>1. HostCpu \in Cpus /\ vm \in VM
  BY CpusTyped, InvFacts
<1>2. /\ HostCpu.reg = [r \in Regs |-> vm.reg[r].con]
      /\ HostCpu.mem = vm.mem.con /\ HostCpu.rsp = vm.rsp
  BY DEF HostCpu
<1>3. \A r \in Regs : Under(vm.reg[r], HostCpu.reg[r], w) = BytesIn(vm.reg[r], w)
  BY <1>2 DEF Under, BytesIn
<1>4. Under(vm.mem, HostCpu.mem, w) = BytesIn(vm.mem, w)
  BY <1>2 DEF Under, BytesIn
<1>5. CpuOf(HostWrote(HostCpu), zf, w) =
             [reg |-> [r \in Regs |-> Under(vm.reg[r], HostCpu.reg[r], w)],
              mem |-> Under(vm.mem, HostCpu.mem, w), rsp |-> HostCpu.rsp, zf |-> zf]
  BY <1>1, HostSeen
<1>6. CpuOf(vm, zf, w) = [reg |-> [r \in Regs |-> BytesIn(vm.reg[r], w)],
                          mem |-> BytesIn(vm.mem, w), rsp |-> vm.rsp, zf |-> zf]
  BY DEF CpuOf
<1>7. QED
  BY <1>2, <1>3, <1>4, <1>5, <1>6

(* A write to bytes that are not symbolic.                                 *)
LEMMA OverlayUnder ==
    ASSUME NEW D \in SUBSET Int, NEW s \in Good(D), NEW con \in [D -> Bit], NEW old \in [D -> Bit],
           NEW at \in Int, NEW size \in Nat, NEW v \in Values(size), NEW w \in Worlds,
           \A a \in Span(at, size) : a \notin s.marked,
           \A a \in D : a \notin Span(at, size) => Under(s, con, w)[a] = Under(s, old, w)[a]
    PROVE  Under(s, Overlay(con, at, v), w) = Overlay(Under(s, old, w), at, v)
<1> DEFINE f == Under(s, con, w)
           g == Under(s, old, w)
           new == Overlay(con, at, v)
<1>1. /\ f \in [D -> Bit] /\ \A a \in D : f[a] = IF a \in s.marked THEN s.content[a].val[w] ELSE con[a]
      /\ g \in [D -> Bit]
  <2>1. f \in [D -> Bit] /\ g \in [D -> Bit]
    BY UnderFacts
  <2>2. f = [o \in D |-> IF o \in s.marked THEN s.content[o].val[w] ELSE con[o]]
    BY DEF Under
  <2> HIDE DEF f
  <2>3. \A a \in D : f[a] = IF a \in s.marked THEN s.content[a].val[w] ELSE con[a]
    BY <2>2
  <2>4. QED
    BY <2>1, <2>3
<1>2. new = [a \in D |-> IF a - at \in DOMAIN v THEN v[a - at] ELSE con[a]]
  BY DEF Overlay
<1>3. Overlay(g, at, v) = [a \in D |-> IF a - at \in DOMAIN v THEN v[a - at] ELSE g[a]]
  BY <1>1 DEF Overlay
<1>4. Under(s, new, w) = [a \in D |-> IF a \in s.marked THEN s.content[a].val[w] ELSE new[a]]
  BY <1>2 DEF Under
<1> HIDE DEF f, g, new
<1>5. ASSUME NEW a \in D
      PROVE  (IF a \in s.marked THEN s.content[a].val[w] ELSE new[a])
               = IF a - at \in DOMAIN v THEN v[a - at] ELSE g[a]
  <2>1. a - at \in DOMAIN v <=> a \in Span(at, size)
    BY OffsetFacts
  <2>2. CASE a \in Span(at, size)
    BY <1>2, <2>1, <2>2
  <2>3. CASE a \notin Span(at, size)
    <3>1. f[a] = g[a]
      BY <2>3 DEF f, g
    <3>2. QED
      BY <1>1, <1>2, <2>1, <2>3, <3>1
  <2>4. QED
    BY <2>2, <2>3
<1>6. Under(s, new, w) = Overlay(g, at, v)
  BY <1>3, <1>4, <1>5
<1>7. QED
  BY <1>6 DEF g, new

LEMMA ThroughPut ==
    ASSUME IInv, NEW t \in Cpus, NEW o, IsTarget(o), Placed(o), ~IsSymOpd(o),
           NEW w \in Worlds, NEW zf \in BOOLEAN, NEW p, SamePlace(t, p, o),
           NEW d, d = CpuOf(HostWrote(t), zf, w), NEW q, SamePlace(d, q, o), Clean(d, o),
           NEW v \in Values(Size(o))
    PROVE  CpuOf(HostWrote(Put(t, p, v)), zf, w) = Put(d, q, v)
<1>1. vm \in VM /\ vm.reg \in [Regs -> Good(Off)] /\ vm.mem \in Good(Addr)
  BY InvFacts, VMFacts
<1>2. t.reg \in [Regs -> [Off -> Bit]] /\ t.mem \in [Addr -> Bit] /\ t.rsp \in Int
  BY CpuFacts
<1>3. /\ d.reg = [r \in Regs |-> Under(vm.reg[r], t.reg[r], w)]
      /\ d.mem = Under(vm.mem, t.mem, w) /\ d.rsp = t.rsp /\ d.zf = zf
      /\ d = [reg |-> d.reg, mem |-> d.mem, rsp |-> d.rsp, zf |-> d.zf]
  <2> DEFINE reg == [r \in Regs |-> Under(vm.reg[r], t.reg[r], w)]
  <2>1. d = [reg |-> reg, mem |-> Under(vm.mem, t.mem, w), rsp |-> t.rsp, zf |-> zf]
    BY <1>1, HostSeen
  <2> HIDE DEF reg
  <2>2. /\ d.reg = reg /\ d.mem = Under(vm.mem, t.mem, w) /\ d.rsp = t.rsp /\ d.zf = zf
        /\ d = [reg |-> d.reg, mem |-> d.mem, rsp |-> d.rsp, zf |-> d.zf]
    BY <2>1
  <2>3. QED
    BY <2>2 DEF reg
<1>4. d \in Cpus
  <2>1. \A r \in Regs : Under(vm.reg[r], t.reg[r], w) \in [Off -> Bit]
    BY <1>1, <1>2, UnderFacts
  <2>2. Under(vm.mem, t.mem, w) \in [Addr -> Bit]
    BY <1>1, <1>2, UnderFacts
  <2>3. d.reg \in [Regs -> [Off -> Bit]] /\ d.mem \in [Addr -> Bit]
    BY <1>3, <2>1, <2>2
  <2>4. QED
    BY <1>2, <1>3, <2>3, CpuFacts
<1>5. \A j \in DOMAIN v : v[j] \in Bit
  BY ValueBits
<1>6. /\ \A a \in Span(Where(o), Size(o)) : a \notin Store(o).marked
      /\ Where(o) \in Int /\ Size(o) \in Nat /\ Addr \in SUBSET Int /\ Off \in SUBSET Int
  BY PlacedFacts DEF IsSymOpd, IsSym, Addr, Off
<1>7. CASE IsMem(o)
  <2> DEFINE n == Overlay(t.mem, Where(o), v)
             u == Put(t, p, v)
  <2>1. /\ u = [reg |-> t.reg, mem |-> n, rsp |-> t.rsp, zf |-> t.zf]
        /\ u \in Cpus
    BY <1>5, <1>7, PutFacts DEF SamePlace
  <2>2. Put(d, q, v) = [reg |-> d.reg, mem |-> Overlay(d.mem, Where(o), v), rsp |-> d.rsp, zf |-> d.zf]
    BY <1>4, <1>5, <1>7, PutFacts DEF SamePlace
  <2>3. Under(vm.mem, n, w) = Overlay(d.mem, Where(o), v)
    <3> DEFINE s == vm.mem
               old == t.mem
    <3>1. s \in Good(Addr) /\ old \in [Addr -> Bit] /\ s = Store(o)
      BY <1>1, <1>2, <1>7 DEF Store
    <3> HIDE DEF s, old
    <3>2. Under(s, Overlay(old, Where(o), v), w) = Overlay(Under(s, old, w), Where(o), v)
      BY <1>6, <3>1, OverlayUnder
    <3>3. QED
      BY <1>3, <3>2 DEF s, old
  <2> HIDE DEF n, u
  <2>4. CpuOf(HostWrote(u), zf, w) =
             [reg |-> [r \in Regs |-> Under(vm.reg[r], u.reg[r], w)],
              mem |-> Under(vm.mem, u.mem, w), rsp |-> u.rsp, zf |-> zf]
    BY <1>1, <2>1, HostSeen
  <2>5. u.reg = t.reg /\ u.mem = n /\ u.rsp = t.rsp
    BY <2>1
  <2>6. QED
    BY <1>3, <2>2, <2>3, <2>4, <2>5 DEF u
<1>8. CASE ~IsMem(o)
  <2> DEFINE old == t.reg[o.r]
             con == IF o.v = "d" THEN [j \in Off |-> 0] ELSE old
             n == Overlay(con, Where(o), v)
             u == Put(t, o, v)
             s == vm.reg[o.r]
  <2>1. p = o /\ q = o /\ IsRegister(o) /\ o.k = "reg" /\ o.r \in Regs /\ Where(o) = At(o)
    BY <1>8, TargetFacts, RegisterFacts, RegisterIsTarget DEF SamePlace
  <2>2. /\ u = [reg |-> [r \in Regs |-> IF r = o.r THEN n ELSE t.reg[r]],
                mem |-> t.mem, rsp |-> t.rsp, zf |-> t.zf]
        /\ u \in Cpus
    BY <1>5, <2>1, PutFacts
  <2>3. Put(d, o, v) = [reg |-> [r \in Regs |-> IF r = o.r THEN Overlay(d.reg[o.r], Where(o), v)
                                                ELSE d.reg[r]],
                        mem |-> d.mem, rsp |-> d.rsp, zf |-> d.zf]
    BY <1>4, <2>1, CleanPut
  <2>4. /\ s \in Good(Off) /\ old \in [Off -> Bit] /\ con \in [Off -> Bit] /\ s = Store(o)
        /\ d.reg[o.r] = Under(s, old, w)
    BY <1>1, <1>2, <1>3, <1>8, <2>1 DEF Store, Bit
  <2>5. \A a \in Off : a \notin Span(Where(o), Size(o)) => Under(s, con, w)[a] = Under(s, old, w)[a]
    <3>1. CASE o.v # "d"
      BY <3>1
    <3>2. CASE o.v = "d"
      <4>1. Where(o) = 0 /\ Size(o) = Width \div 2
        BY <2>1, <3>2 DEF At, Size, regIdxToAddrSize
      <4> SUFFICES ASSUME NEW a \in Off, a \notin Span(Where(o), Size(o))
                   PROVE  Under(s, con, w)[a] = Under(s, old, w)[a]
        OBVIOUS
      <4>2. a >= Width \div 2
        BY <4>1, Parameters DEF Span, Off
      <4>3. Under(s, old, w)[a] = 0
        BY <2>1, <2>4, <3>2, <4>2 DEF Clean
      <4>4. con[a] = 0
        BY <3>2
      <4> HIDE DEF con, old, s
      <4>5. /\ Under(s, con, w)[a] = IF a \in s.marked THEN s.content[a].val[w] ELSE con[a]
            /\ Under(s, old, w)[a] = IF a \in s.marked THEN s.content[a].val[w] ELSE old[a]
        BY <2>4 DEF Under
      <4>6. QED
        BY <4>3, <4>4, <4>5
    <3>3. QED
      BY <3>1, <3>2
  <2> HIDE DEF con, old, s
  <2>6. Under(s, n, w) = Overlay(d.reg[o.r], Where(o), v)
    BY <1>6, <2>4, <2>5, OverlayUnder
  <2> HIDE DEF n, u
  <2>7. CpuOf(HostWrote(u), zf, w) =
             [reg |-> [r \in Regs |-> Under(vm.reg[r], u.reg[r], w)],
              mem |-> Under(vm.mem, u.mem, w), rsp |-> u.rsp, zf |-> zf]
    BY <1>1, <2>2, HostSeen
  <2>8. /\ u.reg = [r \in Regs |-> IF r = o.r THEN n ELSE t.reg[r]]
        /\ u.mem = t.mem /\ u.rsp = t.rsp
    BY <2>2
  <2>9. \A r \in Regs : Under(vm.reg[r], u.reg[r], w) =
                IF r = o.r THEN Overlay(d.reg[o.r], Where(o), v) ELSE d.reg[r]
    BY <1>3, <2>6, <2>8 DEF s
  <2>10. QED
    BY <1>3, <2>1, <2>3, <2>7, <2>8, <2>9 DEF u
<1>9. QED
  BY <1>7, <1>8

(* The host reads what each world has.                                     *)
LEMMA PlainSeen ==
    ASSUME IInv, NEW i, Ready(i), ~hasSymOperand(i), NEW w \in path
    PROVE  /\ \A o \in {i.dst, i.src} :
                /\ IsTarget(o) =>
                    /\ Placed(o) /\ ~IsSymOpd(o)
                    /\ SamePlace(HostCpu, o, o) /\ SamePlace(CpuIn(w), o, o)
                    /\ \A n : /\ Get(HostCpu, o, n) = Get(CpuIn(w), o, n)
                              /\ Get(CpuIn(w), o, n) \in Values(Size(o))
                /\ o.k = "imm" =>
                    \A n : /\ Get(HostCpu, o, n) = Get(CpuIn(w), o, n)
                           /\ Get(CpuIn(w), o, n) \in Values(n)
                /\ o.k = "sum" /\ o.r \in Regs =>
                    /\ Get(HostCpu, o, Width) = Get(CpuIn(w), o, Width)
                    /\ Get(CpuIn(w), o, Width) \in Values(Width)
           /\ i.op \in {"cbw", "cdq", "mul", "idiv"} =>
                /\ ~IsSymOpd(Acc) /\ Get(HostCpu, Acc, Width) = Get(CpuIn(w), Acc, Width)
                /\ Get(CpuIn(w), Acc, Width) \in Values(Width)
           /\ i.op \in {"cdq", "mul", "idiv"} =>
                /\ ~IsSymOpd(Ext) /\ Get(HostCpu, Ext, Width) = Get(CpuIn(w), Ext, Width)
                /\ Get(CpuIn(w), Ext, Width) \in Values(Width)
           /\ i.op = "pop" => ~IsSymOpd(Slot(vm.rsp))
           /\ i.op = "push" => ~IsSymOpd(Slot(vm.rsp - Width))
<1>1. w \in Worlds /\ CpuIn(w) \in Cpus
  BY WorldFacts
<1>2. /\ \A o \in Operands(i) : ~IsSymOpd(o)
      /\ i.op = "pop" => ~IsSymOpd(Slot(vm.rsp))
      /\ i.op = "push" => ~IsSymOpd(Slot(vm.rsp - Width))
  BY DEF hasSymOperand, OpdhasSymReg, OpdhasSymMemCell, checkImplicitMemAccess
<1>3. \A o : SamePlace(HostCpu, o, o)
  BY DEF SamePlace, Where, IsMem
<1>4. ASSUME NEW o, IsTarget(o), Placed(o), ~IsSymOpd(o), SamePlace(CpuIn(w), o, o)
      PROVE  \A n : /\ Get(HostCpu, o, n) = Get(CpuIn(w), o, n)
                    /\ Get(CpuIn(w), o, n) \in Values(Size(o))
  BY <1>1, <1>4, SeenCon, SeenBytes
<1>5. ASSUME NEW o \in {i.dst, i.src}, IsTarget(o)
      PROVE  Placed(o) /\ ~IsSymOpd(o) /\ SamePlace(CpuIn(w), o, o)
  BY <1>2, <1>5, WorldFacts, OperandFacts
<1>6. ASSUME NEW o, o.k = "imm", NEW n
      PROVE  /\ Get(HostCpu, o, n) = Get(CpuIn(w), o, n)
             /\ Get(CpuIn(w), o, n) \in Values(n)
  BY <1>6, WordFacts DEF Get
<1>7. ASSUME NEW o \in {i.dst, i.src}, o.k = "sum", o.r \in Regs
      PROVE  /\ Get(HostCpu, o, Width) = Get(CpuIn(w), o, Width)
             /\ Get(CpuIn(w), o, Width) \in Values(Width)
  <2>1. ~IsSymOpd(o)
    BY <1>2, <1>7, OperandFacts
  <2>2. Fresh(o)
    BY <2>1 DEF Fresh
  <2>3. Get(HostCpu, o, Width) = Get(CpuIn(w), o, Width)
    BY <1>1, <1>7, <2>1, <2>2, SeenSum
  <2>4. Get(CpuIn(w), o, Width) \in Values(Width)
    BY <1>7, WordFacts DEF Get
  <2>5. QED
    BY <2>3, <2>4
<1>8. /\ i.op \in {"cbw", "cdq", "mul", "idiv"} => ~IsSymOpd(Acc)
      /\ i.op \in {"cdq", "mul", "idiv"} => ~IsSymOpd(Ext)
  BY <1>2, OperandFacts
<1>9. /\ IsTarget(Acc) /\ Placed(Acc) /\ SamePlace(CpuIn(w), Acc, Acc) /\ Size(Acc) = Width
      /\ IsTarget(Ext) /\ Placed(Ext) /\ SamePlace(CpuIn(w), Ext, Ext) /\ Size(Ext) = Width
  BY ImpliedSeen, AccFacts
<1>10. ~IsSymOpd(Acc) =>
            /\ Get(HostCpu, Acc, Width) = Get(CpuIn(w), Acc, Width)
            /\ Get(CpuIn(w), Acc, Width) \in Values(Width)
  BY <1>4, <1>9
<1>11. ~IsSymOpd(Ext) =>
            /\ Get(HostCpu, Ext, Width) = Get(CpuIn(w), Ext, Width)
            /\ Get(CpuIn(w), Ext, Width) \in Values(Width)
  BY <1>4, <1>9
<1>12. QED
  BY <1>2, <1>3, <1>4, <1>5, <1>6, <1>7, <1>8, <1>10, <1>11

LEMMA OneWrite ==
    ASSUME IInv, NEW i, Ready(i), NEW w \in path,
           NEW o, IsTarget(o), Placed(o), ~IsSymOpd(o), SamePlace(HostCpu, o, o),
           NEW c, c = CpuIn(w), SamePlace(c, o, o), Clean(c, o), NEW v \in Values(Size(o))
    PROVE  /\ CpuOf(HostWrote(Put(HostCpu, o, v)), flags.zf[w], w) = Put(c, o, v)
           /\ Put(HostCpu, o, v) \in Cpus
<1>1. w \in Worlds /\ flags.zf[w] \in BOOLEAN /\ c = CpuOf(vm, flags.zf[w], w)
  BY WorldFacts
<1>2. HostCpu \in Cpus
  BY CpusTyped
<1>3. c = CpuOf(HostWrote(HostCpu), flags.zf[w], w)
  BY <1>1, HostStart
<1>4. CpuOf(HostWrote(Put(HostCpu, o, v)), flags.zf[w], w) = Put(c, o, v)
  BY <1>1, <1>2, <1>3, ThroughPut
<1>5. IsRegister(o) \/ IsMem(o)
  BY TargetFacts
<1>6. QED
  BY <1>2, <1>4, <1>5, PutTyped

(* The instructions that write one operand and no flags.                   *)
LEMMA PlainWrite ==
    ASSUME IInv, NEW i, Ready(i), ~Deviates(i), ~hasSymOperand(i), NEW w \in path,
           i.op \in {"mov", "lea", "movzx", "movsx", "cmov", "set", "cbw", "cdq"},
           i.op \in {"cmov", "set"} => HostCpu.zf = CpuIn(w).zf
    PROVE  CpuOf(HostWrote(Exec(HostCpu, i)), flags.zf[w], w) = Exec(CpuIn(w), i)
<1> DEFINE size == Size(i.dst)
           h == HostCpu
           c == CpuIn(w)
           b == Get(c, i.src, size)
<1>1. /\ ~KeepsUpperHalf(i) /\ WellFormed(i) /\ Width \in 1 .. Width /\ Width \in 1 .. 2 * Width
      /\ i.op \notin OnlyFlags
  BY ReadyFacts, Parameters DEF Deviates, OnlyFlags
<1>2. ASSUME NEW o, NEW v, Exec(h, i) = Put(h, o, v), Exec(c, i) = Put(c, o, v),
             v \in Values(Size(o)), IsTarget(o), o = i.dst \/ o \in {Acc, Ext}, ~IsSymOpd(o)
      PROVE  CpuOf(HostWrote(Exec(HostCpu, i)), flags.zf[w], w) = Exec(CpuIn(w), i)
  <2>1. SamePlace(h, o, o)
    BY DEF SamePlace, Where, IsMem
  <2>2. Placed(o) /\ SamePlace(c, o, o) /\ Clean(c, o)
    <3>1. CASE o = i.dst
      BY <1>1, <1>2, <3>1, WorldFacts, CleanFacts, WrittenFacts
    <3>2. CASE o \in {Acc, Ext}
      BY <3>2, ImpliedSeen
    <3>3. QED
      BY <1>2, <3>1, <3>2
  <2> HIDE DEF c
  <2>3. CpuOf(HostWrote(Put(HostCpu, o, v)), flags.zf[w], w) = Put(c, o, v)
    BY <1>2, <2>1, <2>2, OneWrite DEF c
  <2>4. QED
    BY <1>2, <2>3 DEF c
<1>3. CASE i.op \in {"mov", "lea", "movzx", "movsx", "cmov", "set"}
  <2>1. IsTarget(i.dst) /\ size \in 1 .. Width /\ size \in Nat /\ size \in 1 .. 2 * Width
    BY <1>1, <1>3, FormFacts, RegisterIsTarget, TargetFacts, Parameters
  <2>2. ~IsSymOpd(i.dst)
    BY <2>1, PlainSeen
  <2>3. CASE i.op = "mov"
    <3>1. IsSource(i.src) /\ (i.src.k = "imm" \/ Size(i.src) = size)
      BY <1>1, <2>3, FormFacts
    <3>2. Get(h, i.src, size) = b /\ b \in Values(size)
      BY <3>1, PlainSeen DEF IsSource
    <3>3. Exec(h, i) = Put(h, i.dst, b) /\ Exec(c, i) = Put(c, i.dst, b)
      BY <2>3, <3>2, ExecIs
    <3> HIDE DEF b, h, c
    <3>4. QED
      BY <1>2, <2>1, <2>2, <3>2, <3>3
  <2>4. CASE i.op = "lea"
    <3>1. size = Width /\ i.src.k = "sum" /\ i.src.r \in Regs
      BY <1>1, <2>4, FormFacts
    <3>2. Get(h, i.src, size) = b /\ b \in Values(size)
      BY <3>1, PlainSeen
    <3>3. Exec(h, i) = Put(h, i.dst, b) /\ Exec(c, i) = Put(c, i.dst, b)
      BY <2>4, <3>2, ExecIs
    <3> HIDE DEF b, h, c
    <3>4. QED
      BY <1>2, <2>1, <2>2, <3>2, <3>3
  <2>5. CASE i.op \in {"movzx", "movsx"}
    <3> DEFINE x == IF i.op = "movzx" THEN ZExt(b, size) ELSE SExt(b, size)
    <3>1. IsTarget(i.src) /\ Size(i.src) \in 1 .. 2 * Width
      BY <1>1, <2>5, FormFacts, TargetFacts, Parameters
    <3>2. Get(h, i.src, size) = b /\ b \in Values(Size(i.src))
      BY <3>1, PlainSeen
    <3>3. Exec(h, i) = Put(h, i.dst, x) /\ Exec(c, i) = Put(c, i.dst, x)
      BY <2>5, <3>2, ExecIs
    <3> HIDE DEF b, h, c
    <3>4. x \in Values(size)
      BY <2>1, <3>1, <3>2, ZExtFacts, SExtFacts
    <3> HIDE DEF x
    <3>5. QED
      BY <1>2, <2>1, <2>2, <3>3, <3>4
  <2>6. CASE i.op = "cmov"
    <3> DEFINE x == IF c.zf THEN b ELSE Get(c, i.dst, size)
    <3>1. IsTarget(i.src) /\ Size(i.src) = size
      <4>1. IsTarget(i.src) /\ (i.src.k = "imm" \/ Size(i.src) = size)
        BY <1>1, <2>6, FormFacts
      <4>2. QED
        BY <4>1, TargetFacts
    <3>2. /\ Get(h, i.src, size) = b /\ b \in Values(size)
          /\ Get(h, i.dst, size) = Get(c, i.dst, size) /\ Get(c, i.dst, size) \in Values(size)
      BY <2>1, <3>1, PlainSeen
    <3>3. Exec(h, i) = Put(h, i.dst, x) /\ Exec(c, i) = Put(c, i.dst, x)
      BY <2>6, <3>2, ExecIs
    <3> HIDE DEF b, h, c
    <3>4. x \in Values(size)
      BY <3>2
    <3> HIDE DEF x
    <3>5. QED
      BY <1>2, <2>1, <2>2, <3>3, <3>4
  <2>7. CASE i.op = "set"
    <3> DEFINE x == Word(IF c.zf THEN 1 ELSE 0, size)
    <3>1. Exec(h, i) = Put(h, i.dst, x) /\ Exec(c, i) = Put(c, i.dst, x)
      BY <2>7, ExecIs
    <3>2. x \in Values(size)
      BY WordFacts
    <3> HIDE DEF x, h, c
    <3>3. QED
      BY <1>2, <2>1, <2>2, <3>1, <3>2
  <2>8. QED
    BY <1>3, <2>3, <2>4, <2>5, <2>6, <2>7
<1>4. CASE i.op \in {"cbw", "cdq"}
  <2> DEFINE a == Get(c, Acc, Width)
             x == SExt(Half(a, 0), Width)
             y == Half(SExt(a, 2 * Width), Width)
  <2>1. a \in Values(Width) /\ Get(h, Acc, Width) = a /\ ~IsSymOpd(Acc)
    BY <1>4, PlainSeen
  <2>2. IsTarget(Acc) /\ Size(Acc) = Width /\ IsTarget(Ext) /\ Size(Ext) = Width
    BY ImpliedSeen, AccFacts
  <2>3. CASE i.op = "cbw"
    <3>1. Exec(h, i) = Put(h, Acc, x) /\ Exec(c, i) = Put(c, Acc, x)
      BY <2>1, <2>3, ExecIs
    <3> HIDE DEF a, h, c
    <3>2. x \in Values(Width)
      <4>1. Width \div 2 \in 1 .. Width /\ Width \div 2 \in 1 .. 2 * Width /\ 2 * (Width \div 2) = Width
        BY Parameters
      <4>2. Half(a, 0) \in Values(Width \div 2)
        BY <2>1, <4>1, HalfFacts
      <4>3. QED
        BY <4>1, <4>2, SExtFacts, Parameters
    <3> HIDE DEF x
    <3>3. QED
      BY <1>2, <2>1, <2>2, <3>1, <3>2
  <2>4. CASE i.op = "cdq"
    <3>1. Exec(h, i) = Put(h, Ext, y) /\ Exec(c, i) = Put(c, Ext, y)
      BY <2>1, <2>4, ExecIs
    <3>2. ~IsSymOpd(Ext)
      BY <2>4, PlainSeen
    <3> HIDE DEF a, h, c
    <3>3. y \in Values(Width)
      BY <2>1, UpperFacts
    <3> HIDE DEF y
    <3>4. QED
      BY <1>2, <2>2, <3>1, <3>2, <3>3
  <2>5. QED
    BY <1>4, <2>3, <2>4
<1>5. QED
  BY <1>3, <1>4

(* The stack pointer and the zero flag are the same in all worlds.         *)
LEMMA MovedSeen ==
    ASSUME IInv, NEW t \in Cpus, NEW zf, NEW w \in Worlds, NEW d, d = CpuOf(HostWrote(t), zf, w),
           NEW rsp \in Int, NEW y \in BOOLEAN, NEW z,
           NEW u, u = [reg |-> t.reg, mem |-> t.mem, rsp |-> rsp, zf |-> y]
    PROVE  /\ u \in Cpus
           /\ CpuOf(HostWrote(u), z, w) = [reg |-> d.reg, mem |-> d.mem, rsp |-> rsp, zf |-> z]
<1>1. u.reg = t.reg /\ u.mem = t.mem /\ u.rsp = rsp /\ u.zf = y
  OBVIOUS
<1>2. u \in Cpus /\ vm \in VM
  BY <1>1, CpuFacts, InvFacts
<1> DEFINE reg == [r \in Regs |-> Under(vm.reg[r], t.reg[r], w)]
           mem == Under(vm.mem, t.mem, w)
<1>3. d = [reg |-> reg, mem |-> mem, rsp |-> t.rsp, zf |-> zf]
  BY <1>2, HostSeen
<1>4. CpuOf(HostWrote(u), z, w) =
             [reg |-> [r \in Regs |-> Under(vm.reg[r], u.reg[r], w)],
              mem |-> Under(vm.mem, u.mem, w), rsp |-> u.rsp, zf |-> z]
  BY <1>2, HostSeen
<1>5. CpuOf(HostWrote(u), z, w) = [reg |-> reg, mem |-> mem, rsp |-> rsp, zf |-> z]
  BY <1>1, <1>4
<1> HIDE DEF reg, mem
<1>6. d.reg = reg /\ d.mem = mem
  BY <1>3
<1>7. QED
  BY <1>2, <1>5, <1>6

LEMMA PlainPop ==
    ASSUME IInv, NEW i, Ready(i), ~Deviates(i), ~hasSymOperand(i), NEW w \in path, i.op = "pop"
    PROVE  CpuOf(HostWrote(Exec(HostCpu, i)), flags.zf[w], w) = Exec(CpuIn(w), i)
<1> DEFINE h == HostCpu
           c == CpuIn(w)
           top == Slot(vm.rsp)
           b == Get(c, top, Width)
           t == Put(h, i.dst, b)
           d == Put(c, i.dst, b)
           u == [reg |-> t.reg, mem |-> t.mem, rsp |-> vm.rsp + Width, zf |-> t.zf]
<1>1. /\ ~KeepsUpperHalf(i) /\ WellFormed(i) /\ vm.rsp + Width <= MemSize
      /\ IsTarget(i.dst) /\ Size(i.dst) = Width /\ Width \in Int /\ i.op \notin OnlyFlags
  BY ReadyFacts, FormFacts, Parameters DEF Deviates, OnlyFlags
<1>2. /\ w \in Worlds /\ flags.zf[w] \in BOOLEAN /\ vm \in VM /\ c \in Cpus /\ h \in Cpus
      /\ c.rsp = vm.rsp /\ h.rsp = vm.rsp /\ c.zf = flags.zf[w] /\ Clean(c, i.dst)
  BY <1>1, WorldFacts, CleanFacts, WrittenFacts, CpusTyped DEF HostCpu
<1>3. vm.rsp \in Nat /\ vm.rsp \in Int
  BY <1>2, VMFacts
<1>4. IsTarget(top) /\ Placed(top) /\ Size(top) = Width /\ IsMem(top) /\ Where(top) = vm.rsp
      /\ top.k = "mem" /\ top.at = vm.rsp
  BY <1>1, <1>3, SlotPlaced
<1>5. SamePlace(c, top, top)
  BY <1>4 DEF SamePlace, AddrOf
<1>6. Get(h, top, Width) = b /\ b \in Values(Width)
  <2>1. ~IsSymOpd(top)
    BY PlainSeen
  <2>2. QED
    BY <1>2, <1>4, <1>5, <2>1, SeenCon, SeenBytes
<1>7. /\ Exec(h, i) = [t EXCEPT !.rsp = @ + Width]
      /\ Exec(c, i) = [d EXCEPT !.rsp = @ + Width]
  BY <1>2, <1>6, ExecIs
<1> HIDE DEF h, c, b, top
<1>8. CpuOf(HostWrote(t), flags.zf[w], w) = d
  <2>1. Placed(i.dst) /\ ~IsSymOpd(i.dst) /\ SamePlace(h, i.dst, i.dst) /\ SamePlace(c, i.dst, i.dst)
    BY <1>1, PlainSeen DEF h, c
  <2>2. QED
    BY <1>1, <1>2, <1>6, <2>1, OneWrite DEF h, c
<1>9. /\ t \in Cpus /\ t.rsp = vm.rsp /\ t.zf \in BOOLEAN
      /\ d \in Cpus /\ d.rsp = vm.rsp /\ d.zf = flags.zf[w]
  <2>1. IsRegister(i.dst) \/ IsMem(i.dst)
    BY <1>1, TargetFacts
  <2>2. QED
    BY <1>2, <1>6, <2>1, PutTyped, CpuFacts
<1> HIDE DEF t, d
<1>10. Exec(h, i) = u
  BY <1>7, <1>9, CpuFacts
<1>11. Exec(c, i) = [reg |-> d.reg, mem |-> d.mem, rsp |-> vm.rsp + Width, zf |-> flags.zf[w]]
  BY <1>7, <1>9, CpuFacts
<1>12. vm.rsp + Width \in Int
  BY <1>1, <1>3
<1>13. CpuOf(HostWrote(u), flags.zf[w], w)
         = [reg |-> d.reg, mem |-> d.mem, rsp |-> vm.rsp + Width, zf |-> flags.zf[w]]
  <2> HIDE DEF u
  <2>1. u = [reg |-> t.reg, mem |-> t.mem, rsp |-> vm.rsp + Width, zf |-> t.zf]
    BY DEF u
  <2>2. QED
    BY <1>2, <1>8, <1>9, <1>12, <2>1, MovedSeen
<1>14. QED
  BY <1>10, <1>11, <1>13 DEF h, c

LEMMA PlainPush ==
    ASSUME IInv, NEW i, Ready(i), ~Deviates(i), ~hasSymOperand(i), NEW w \in path, i.op = "push"
    PROVE  CpuOf(HostWrote(Exec(HostCpu, i)), flags.zf[w], w) = Exec(CpuIn(w), i)
<1> DEFINE h == HostCpu
           c == CpuIn(w)
           rsp == vm.rsp - Width
           top == Slot(rsp)
           b == Get(c, i.src, Width)
           t == Put(h, top, b)
           d == Put(c, top, b)
           u == [reg |-> t.reg, mem |-> t.mem, rsp |-> rsp, zf |-> t.zf]
<1>1. /\ WellFormed(i) /\ vm.rsp >= Width
      /\ IsSource(i.src) /\ Size(i.src) = Width /\ Width \in Nat
  BY ReadyFacts, FormFacts, Parameters
<1>2. /\ w \in Worlds /\ flags.zf[w] \in BOOLEAN /\ vm \in VM /\ c \in Cpus /\ h \in Cpus
      /\ c.rsp = vm.rsp /\ h.rsp = vm.rsp /\ c.zf = flags.zf[w]
  BY WorldFacts, CpusTyped DEF HostCpu
<1>3. rsp \in Nat /\ rsp \in Int /\ rsp + Width <= MemSize
  <2>1. vm.rsp \in 0 .. MemSize /\ MemSize \in Nat
    BY <1>2, VMFacts, Parameters
  <2>2. QED
    BY <1>1, <2>1
<1>4. Get(h, i.src, Width) = b /\ b \in Values(Width)
  BY <1>1, PlainSeen DEF IsSource
<1>5. /\ Exec(h, i) = [t EXCEPT !.rsp = @ - Width]
      /\ Exec(c, i) = [d EXCEPT !.rsp = @ - Width]
  BY <1>1, <1>2, <1>4, ExecIs
<1>6. ~IsSymOpd(top)
  BY PlainSeen
<1> HIDE DEF rsp
<1>7. IsTarget(top) /\ Placed(top) /\ Size(top) = Width /\ IsMem(top) /\ Where(top) = rsp
      /\ top.k = "mem" /\ top.at = rsp
  BY <1>3, SlotPlaced
<1>8. \A s : SamePlace(s, top, top) /\ Clean(s, top)
  BY <1>7 DEF SamePlace, AddrOf, Clean
<1> HIDE DEF h, c, b, top
<1>9. CpuOf(HostWrote(t), flags.zf[w], w) = d
  BY <1>2, <1>4, <1>6, <1>7, <1>8, OneWrite DEF h, c
<1>10. /\ t \in Cpus /\ t.rsp = vm.rsp /\ t.zf \in BOOLEAN
       /\ d \in Cpus /\ d.rsp = vm.rsp /\ d.zf = flags.zf[w]
  BY <1>2, <1>4, <1>7, PutTyped, CpuFacts
<1> HIDE DEF t, d
<1>11. Exec(h, i) = u
  BY <1>5, <1>10, CpuFacts DEF rsp
<1>12. Exec(c, i) = [reg |-> d.reg, mem |-> d.mem, rsp |-> rsp, zf |-> flags.zf[w]]
  BY <1>5, <1>10, CpuFacts DEF rsp
<1>13. CpuOf(HostWrote(u), flags.zf[w], w)
         = [reg |-> d.reg, mem |-> d.mem, rsp |-> rsp, zf |-> flags.zf[w]]
  <2> HIDE DEF u
  <2>1. u = [reg |-> t.reg, mem |-> t.mem, rsp |-> rsp, zf |-> t.zf]
    BY DEF u
  <2>2. QED
    BY <1>2, <1>3, <1>9, <1>10, <2>1, MovedSeen
<1>14. QED
  BY <1>11, <1>12, <1>13 DEF h, c

LEMMA PlainXchg ==
    ASSUME IInv, NEW i, Ready(i), ~Deviates(i), ~hasSymOperand(i), NEW w \in path, i.op = "xchg"
    PROVE  CpuOf(HostWrote(Exec(HostCpu, i)), flags.zf[w], w) = Exec(CpuIn(w), i)
<1> DEFINE size == Size(i.dst)
           h == HostCpu
           c == CpuIn(w)
           a == Get(c, i.dst, size)
           b == Get(c, i.src, size)
           t == Put(h, i.dst, b)
           d == Put(c, i.dst, b)
<1>1. /\ ~KeepsUpperHalf(i) /\ WellFormed(i) /\ i.op \notin OnlyFlags
      /\ IsTarget(i.dst) /\ IsTarget(i.src) /\ Size(i.src) = size
      /\ i.dst.k = "reg" /\ i.src.k = "reg" => (i.dst.v = "d" <=> i.src.v = "d")
  BY ReadyFacts, FormFacts DEF Deviates, OnlyFlags
<1>2. /\ w \in Worlds /\ flags.zf[w] \in BOOLEAN /\ c \in Cpus /\ h \in Cpus
      /\ Clean(c, i.dst) /\ Clean(c, i.src)
  BY <1>1, WorldFacts, CleanFacts, WrittenFacts, CpusTyped
<1>3. /\ Placed(i.dst) /\ ~IsSymOpd(i.dst) /\ SamePlace(h, i.dst, i.dst) /\ SamePlace(c, i.dst, i.dst)
      /\ Placed(i.src) /\ ~IsSymOpd(i.src) /\ SamePlace(h, i.src, i.src) /\ SamePlace(c, i.src, i.src)
      /\ Get(h, i.dst, size) = a /\ a \in Values(size)
      /\ Get(h, i.src, size) = b /\ b \in Values(size)
  BY <1>1, PlainSeen
<1>4. /\ Exec(h, i) = Put(t, Resolved(h, i.src), a)
      /\ Exec(c, i) = Put(d, Resolved(c, i.src), a)
  BY <1>3, ExecIs
<1> HIDE DEF h, c, a, b, size
<1>5. CpuOf(HostWrote(t), flags.zf[w], w) = d /\ t \in Cpus
  BY <1>1, <1>2, <1>3, OneWrite DEF h, c, size
<1>6. SamePlace(t, Resolved(h, i.src), i.src)
  BY <1>1, <1>2, <1>3, AfterStore DEF size
<1>7. SamePlace(d, Resolved(c, i.src), i.src) /\ Clean(d, i.src)
  BY <1>1, <1>2, <1>3, AfterStore DEF size
<1> HIDE DEF t, d
<1>8. CpuOf(HostWrote(Put(t, Resolved(h, i.src), a)), flags.zf[w], w) = Put(d, Resolved(c, i.src), a)
  BY <1>1, <1>2, <1>3, <1>5, <1>6, <1>7, ThroughPut
<1>9. QED
  BY <1>4, <1>8 DEF h, c

LEMMA TwoWrites ==
    ASSUME IInv, NEW i, Ready(i), NEW w \in path, ~IsSymOpd(Acc), ~IsSymOpd(Ext),
           NEW c, c = CpuIn(w), NEW x \in Values(Width), NEW y \in Values(Width)
    PROVE  CpuOf(HostWrote(Put(Put(HostCpu, Acc, x), Ext, y)), flags.zf[w], w)
             = Put(Put(c, Acc, x), Ext, y)
<1> DEFINE t == Put(HostCpu, Acc, x)
           d == Put(c, Acc, x)
<1>1. w \in Worlds /\ flags.zf[w] \in BOOLEAN
  BY WorldFacts
<1>2. /\ IsTarget(Acc) /\ Placed(Acc) /\ Size(Acc) = Width
      /\ IsTarget(Ext) /\ Placed(Ext) /\ Size(Ext) = Width
      /\ \A s : Clean(s, Acc) /\ SamePlace(s, Acc, Acc) /\ Clean(s, Ext) /\ SamePlace(s, Ext, Ext)
  BY ImpliedSeen, AccFacts
<1>3. CpuOf(HostWrote(t), flags.zf[w], w) = d /\ t \in Cpus
  BY <1>2, OneWrite
<1> HIDE DEF t, d
<1>4. CpuOf(HostWrote(Put(t, Ext, y)), flags.zf[w], w) = Put(d, Ext, y)
  BY <1>1, <1>2, <1>3, ThroughPut
<1>5. QED
  BY <1>4 DEF t, d

LEMMA PlainTwice ==
    ASSUME IInv, NEW i, Ready(i), ~hasSymOperand(i), NEW w \in path, i.op \in {"mul", "idiv"}
    PROVE  CpuOf(HostWrote(Exec(HostCpu, i)), flags.zf[w], w) = Exec(CpuIn(w), i)
<1> DEFINE h == HostCpu
           c == CpuIn(w)
           a == Get(c, Acc, Width)
           e == Get(c, Ext, Width)
           b == Get(c, i.src, Width)
           p == Word(Num(a) * Num(b), 2 * Width)
           n == Signed(Joined(e, a))
           q == Word(Quotient(n, Signed(b)), Width)
           r == Word(Remainder(n, Signed(b)), Width)
<1>1. i.dst = Acc /\ IsTarget(i.src) /\ i.op # "push" /\ Size(Acc) = Width
  BY ReadyFacts, FormFacts, AccFacts
<1>2. /\ Get(h, Acc, Width) = a /\ Get(h, Ext, Width) = e /\ Get(h, i.src, Width) = b
      /\ ~IsSymOpd(Acc) /\ ~IsSymOpd(Ext)
  BY <1>1, PlainSeen
<1>3. CASE i.op = "mul"
  <2>1. /\ Exec(h, i) = Put(Put(h, Acc, Half(p, 0)), Ext, Half(p, Width))
        /\ Exec(c, i) = Put(Put(c, Acc, Half(p, 0)), Ext, Half(p, Width))
    BY <1>1, <1>2, <1>3, ExecIs
  <2>2. Half(p, 0) \in Values(Width) /\ Half(p, Width) \in Values(Width)
    <3>1. p \in Values(2 * Width)
      BY WordFacts
    <3> HIDE DEF p
    <3>2. Width \in 1 .. Width
      BY Parameters
    <3>3. QED
      BY <3>1, <3>2, HalfFacts
  <2> HIDE DEF p, c, h
  <2>3. QED
    BY <1>2, <2>1, <2>2, TwoWrites DEF c, h
<1>4. CASE i.op = "idiv"
  <2>1. /\ Exec(h, i) = Put(Put(h, Acc, q), Ext, r)
        /\ Exec(c, i) = Put(Put(c, Acc, q), Ext, r)
    BY <1>1, <1>2, <1>4, ExecIs
  <2>2. q \in Values(Width) /\ r \in Values(Width)
    BY WordFacts
  <2> HIDE DEF q, r, c, h
  <2>3. QED
    BY <1>2, <2>1, <2>2, TwoWrites DEF c, h
<1>5. QED
  BY <1>3, <1>4

LEMMA PlainComputes ==
    ASSUME IInv, NEW i, Ready(i), ~Deviates(i), ~hasSymOperand(i), NEW w \in path,
           i.op \in Binary \cup Unary,
           NEW zf, zf = IF i.op = "not" THEN flags.zf[w] ELSE Exec(HostCpu, i).zf
    PROVE  CpuOf(HostWrote(Exec(HostCpu, i)), zf, w) = Exec(CpuIn(w), i)
<1> DEFINE size == Size(i.dst)
           h == HostCpu
           c == CpuIn(w)
           a == Get(c, i.dst, size)
           b == Get(c, i.src, size)
           v == Alu(i.op, a, IF i.op \in Unary THEN a ELSE b)
           t == IF i.op \in OnlyFlags THEN h ELSE Put(h, i.dst, v)
           d == IF i.op \in OnlyFlags THEN c ELSE Put(c, i.dst, v)
           y == (Num(v) = 0)
<1>1. /\ ~KeepsUpperHalf(i) /\ WellFormed(i) /\ i.op # "push"
      /\ IsTarget(i.dst) /\ size \in 1 .. Width
      /\ i.op \in Binary => /\ IsSource(i.src)
                            /\ i.src.k = "imm" \/ Size(i.src) = size \/ i.op \in Shifts
  BY ReadyFacts, FormFacts, TargetFacts DEF Deviates, Binary, Unary
<1>2. /\ w \in Worlds /\ flags.zf[w] \in BOOLEAN /\ vm \in VM /\ c \in Cpus /\ h \in Cpus
      /\ c = CpuOf(vm, flags.zf[w], w) /\ c.zf = flags.zf[w] /\ c.rsp = vm.rsp /\ h.rsp = vm.rsp
      /\ i.op \notin OnlyFlags => Clean(c, i.dst)
  BY <1>1, WorldFacts, CleanFacts, WrittenFacts, CpusTyped DEF HostCpu
<1>3. /\ Placed(i.dst) /\ ~IsSymOpd(i.dst) /\ SamePlace(h, i.dst, i.dst) /\ SamePlace(c, i.dst, i.dst)
      /\ Get(h, i.dst, size) = a /\ a \in Values(size)
  BY <1>1, PlainSeen
<1>4. i.op \in Binary => Get(h, i.src, size) = b /\ (i.op \notin Shifts => b \in Values(size))
  BY <1>1, PlainSeen DEF IsSource
<1>5. i.op \in Unary \/ i.op \in Binary
  OBVIOUS
<1>6. /\ Exec(h, i) = IF i.op # "not" THEN [t EXCEPT !.zf = y] ELSE t
      /\ Exec(c, i) = IF i.op # "not" THEN [d EXCEPT !.zf = y] ELSE d
  <2>1. Exec(c, i) = IF i.op # "not" THEN [d EXCEPT !.zf = y] ELSE d
    BY <1>1, ExecIs
  <2>2. v = Alu(i.op, Get(h, i.dst, size),
                IF i.op \in Unary THEN Get(h, i.dst, size) ELSE Get(h, i.src, size))
    BY <1>3, <1>4, <1>5
  <2>3. Exec(h, i) = IF i.op # "not" THEN [t EXCEPT !.zf = y] ELSE t
    BY <1>1, <2>2, ExecIs
  <2>4. QED
    BY <2>1, <2>3
<1> HIDE DEF h, c, a, b
<1>7. v \in Values(size)
  <2>1. i.op \in {"and", "test", "or", "xor"} => i.op \notin Shifts /\ i.op \notin Unary /\ i.op \in Binary
    BY DEF Shifts, Unary, Binary
  <2>2. QED
    BY <1>1, <1>3, <1>4, <2>1, AluFacts
<1> HIDE DEF v
<1>8. y \in BOOLEAN
  OBVIOUS
<1> HIDE DEF y
<1>9. CpuOf(HostWrote(t), flags.zf[w], w) = d /\ t \in Cpus
  <2>1. CASE i.op \in OnlyFlags
    BY <1>2, <2>1, HostStart DEF h
  <2>2. CASE i.op \notin OnlyFlags
    BY <1>1, <1>2, <1>3, <1>7, <2>2, OneWrite DEF h, c
  <2>3. QED
    BY <2>1, <2>2
<1>10. t.rsp = vm.rsp /\ d \in Cpus /\ d.rsp = vm.rsp /\ d.zf = flags.zf[w]
  <2>1. IsRegister(i.dst) \/ IsMem(i.dst)
    BY <1>1, TargetFacts
  <2>2. QED
    BY <1>2, <1>7, <2>1, PutTyped, CpuFacts
<1> HIDE DEF t, d
<1>11. CASE i.op = "not"
  <2>1. zf = flags.zf[w] /\ Exec(h, i) = t /\ Exec(c, i) = d
    BY <1>6, <1>11
  <2>2. QED
    BY <1>9, <2>1 DEF h, c
<1>12. CASE i.op # "not"
  <2> DEFINE u == [reg |-> t.reg, mem |-> t.mem, rsp |-> vm.rsp, zf |-> y]
  <2>1. Exec(h, i) = u
    BY <1>6, <1>9, <1>10, <1>12, CpuFacts
  <2>2. Exec(c, i) = [reg |-> d.reg, mem |-> d.mem, rsp |-> vm.rsp, zf |-> y]
    BY <1>6, <1>10, <1>12, CpuFacts
  <2>3. zf = y
    BY <1>12, <2>1 DEF h
  <2>4. vm.rsp \in Int
    BY <1>2, VMFacts
  <2>5. CpuOf(HostWrote(u), y, w) = [reg |-> d.reg, mem |-> d.mem, rsp |-> vm.rsp, zf |-> y]
    <3> HIDE DEF u
    <3>1. u = [reg |-> t.reg, mem |-> t.mem, rsp |-> vm.rsp, zf |-> y]
      BY DEF u
    <3>2. QED
      BY <1>2, <1>8, <1>9, <2>4, <3>1, MovedSeen
  <2> HIDE DEF u
  <2>6. QED
    BY <2>1, <2>2, <2>3, <2>5 DEF h, c
<1>13. QED
  BY <1>11, <1>12

(* What the processor does, in each world; the flags that idiv leaves      *)
(* undefined are taken from the host.                                      *)
LEMMA DispatchSame ==
    ASSUME IInv, NEW i, Ready(i), ~Deviates(i), InsnDispatch(i), NEW w \in path
    PROVE  /\ i.op # "idiv" => CpuIn(w)' = Exec(CpuIn(w), i)
           /\ i.op = "idiv" => \E z \in BOOLEAN : CpuIn(w)' = [Exec(CpuIn(w), i) EXCEPT !.zf = z]
<1> DEFINE h == HostCpu
           c == CpuIn(w)
           t == Exec(h, i)
<1>1. /\ ~(IsConditional(i) /\ flags.bsym) /\ ~hasSymOperand(i) /\ WellFormed(i)
      /\ vm' = HostWrote(t)
      /\ flags' = IF isFlagChangingInstr(i.op)
                  THEN [bsym |-> FALSE, fails |-> FALSE, zf |-> [u \in Worlds |-> t.zf]] ELSE flags
  BY ReadyFacts DEF InsnDispatch, HostWrote, Decides
<1>2. w \in Worlds /\ c' = CpuOf(vm', flags'.zf[w], w)
  BY WorldFacts
<1>3. flags'.zf[w] = IF isFlagChangingInstr(i.op) THEN t.zf ELSE flags.zf[w]
  <2> HIDE DEF t
  <2>1. CASE isFlagChangingInstr(i.op)
    <3>1. flags'.zf = [u \in Worlds |-> t.zf]
      BY <1>1, <2>1
    <3>2. QED
      BY <1>2, <2>1, <3>1
  <2>2. CASE ~isFlagChangingInstr(i.op)
    BY <1>1, <2>2
  <2>3. QED
    BY <2>1, <2>2
<1>4. i.op \in {"cmov", "set"} => HostCpu.zf = CpuIn(w).zf
  <2> SUFFICES ASSUME i.op \in {"cmov", "set"} PROVE HostCpu.zf = CpuIn(w).zf
    OBVIOUS
  <2>1. flags \in [bsym : BOOLEAN, fails : BOOLEAN, zf : [Worlds -> BOOLEAN]] /\ ~flags.bsym
    BY <1>1, InvFacts DEF IsConditional
  <2>2. flags.zf[w] = flags.zf[Seed]
    BY <2>1, InvFacts DEF FlagsAgree
  <2>3. QED
    BY <2>2 DEF HostCpu, CpuIn
<1>5. CASE i.op \in {"mov", "lea", "movzx", "movsx", "cmov", "set", "cbw", "cdq"}
  <2>1. ~isFlagChangingInstr(i.op) /\ i.op # "idiv"
    BY <1>5 DEF isFlagChangingInstr, Binary
  <2>2. CpuOf(HostWrote(Exec(HostCpu, i)), flags.zf[w], w) = Exec(CpuIn(w), i)
    BY <1>1, <1>4, <1>5, PlainWrite
  <2>3. QED
    BY <1>1, <1>2, <1>3, <2>1, <2>2
<1>6. CASE i.op \in {"pop", "push", "xchg", "mul"}
  <2>1. ~isFlagChangingInstr(i.op) /\ i.op # "idiv"
    BY <1>6 DEF isFlagChangingInstr, Binary
  <2>2. CpuOf(HostWrote(Exec(HostCpu, i)), flags.zf[w], w) = Exec(CpuIn(w), i)
    BY <1>1, <1>6, PlainPop, PlainPush, PlainXchg, PlainTwice
  <2>3. QED
    BY <1>1, <1>2, <1>3, <2>1, <2>2
<1>7. CASE i.op = "idiv"
  <2>1. CpuOf(HostWrote(Exec(HostCpu, i)), flags.zf[w], w) = Exec(CpuIn(w), i)
    BY <1>1, <1>7, PlainTwice
  <2>2. CpuOf(HostWrote(Exec(HostCpu, i)), flags'.zf[w], w) = [Exec(CpuIn(w), i) EXCEPT !.zf = flags'.zf[w]]
    BY <2>1, FlagSet
  <2>3. isFlagChangingInstr(i.op)
    BY <1>7 DEF isFlagChangingInstr
  <2>4. t.zf \in BOOLEAN
    BY HostFits, ExecTyped, CpuFacts
  <2>5. flags'.zf[w] \in BOOLEAN
    BY <1>3, <2>3, <2>4
  <2>6. QED
    BY <1>1, <1>2, <1>7, <2>2, <2>5
<1>8. CASE i.op \in Binary \cup Unary
  <2>1. i.op # "idiv" /\ (isFlagChangingInstr(i.op) <=> i.op # "not")
    BY <1>8 DEF isFlagChangingInstr, Binary, Unary
  <2>2. CpuOf(HostWrote(Exec(HostCpu, i)), flags'.zf[w], w) = Exec(CpuIn(w), i)
    <3>1. flags'.zf[w] = IF i.op = "not" THEN flags.zf[w] ELSE Exec(HostCpu, i).zf
      BY <1>3, <2>1
    <3>2. QED
      BY <1>1, <1>8, <3>1, PlainComputes
  <2>3. QED
    BY <1>1, <1>2, <2>1, <2>2
<1>9. QED
  BY <1>1, <1>5, <1>6, <1>7, <1>8, FormFacts

-----------------------------------------------------------------------------
(* The refinement                                                          *)

(* A handler that ends the run has changed nothing.                        *)
LEMMA AbortIsClean ==
    ASSUME NEW i, run(i), status' # status
    PROVE  UNCHANGED <<vm, flags>>
<1>1. ASSUME NEW m, Writes(m) PROVE FALSE
  BY <1>1 DEF Writes
<1>2. ~Computes(i)
  BY DEF Computes
<1>3. ~process_cmovxx(i) /\ ~process_set(i)
  BY DEF process_cmovxx, process_set
<1>4. ~process_movsx(i) /\ ~process_movzx(i)
  BY <1>1 DEF process_movsx, process_movzx, Extends
<1>5. ~process_lea(i) /\ ~process_pop(i) /\ ~process_push(i)
  BY <1>1 DEF process_lea, process_pop, process_push
<1>6. ~process_cbw(i) /\ ~process_cdq(i) /\ ~process_idiv(i)
  BY <1>1 DEF process_cbw, process_cdq, process_idiv
<1>7. process_mov(i) => Abort
  BY <1>1 DEF process_mov
<1>8. process_xchg(i) => Abort
  BY <1>1 DEF process_xchg
<1>9. process_mul(i) => Abort
  BY <1>1 DEF process_mul
<1>10. Abort
  BY <1>2, <1>3, <1>4, <1>5, <1>6, <1>7, <1>8, <1>9
     DEF run, process_add, process_sub, process_and, process_or, process_xor, process_test,
         process_cmp, process_neg, process_not, process_shl_sal, process_shr, process_sar,
         process_shrd
<1>11. QED
  BY <1>10 DEF Abort

(* An instruction that does not end the run has its effect in every world  *)
(* that is left.                                                           *)
LEMMA StepSame ==
    ASSUME IInv, NEW i \in Insns, Stops(i) \/ \A w \in path : Runs(CpuIn(w), i),
           ~Deviates(i), processInsn(i), status = "run", status' # "abort", NEW w \in path'
    PROVE  /\ w \in path /\ Runs(CpuIn(w), i)
           /\ \E z \in BOOLEAN :
                CpuIn(w)' = IF Native!Undefines(i.op) THEN [Exec(CpuIn(w), i) EXCEPT !.zf = z]
                            ELSE Exec(CpuIn(w), i)
<1>1. SkipConditional(i) \/ TakeConditional(i) \/ RunSymbolic(i) \/ InsnDispatch(i)
  BY DEF processInsn, AbortRun, Abort
<1>2. ~Stops(i) /\ \A u \in path : Runs(CpuIn(u), i)
  BY <1>1 DEF SkipConditional, TakeConditional, RunSymbolic, InsnDispatch
<1>3. ASSUME ~SkipConditional(i)
      PROVE  Ready(i)
  <2>1. Decides(i) => flags.zf[Seed]
    BY <1>1, <1>3 DEF TakeConditional, RunSymbolic, InsnDispatch, EvalCondition
  <2>2. QED
    BY <1>2, <2>1 DEF Ready, Stops
<1>4. /\ w \in path
      /\ \/ CpuIn(w)' = Exec(CpuIn(w), i)
         \/ i.op = "idiv" /\ \E z \in BOOLEAN : CpuIn(w)' = [Exec(CpuIn(w), i) EXCEPT !.zf = z]
  <2>1. CASE SkipConditional(i)
    BY <2>1, SkipSame
  <2>2. CASE TakeConditional(i) /\ ~SkipConditional(i)
    BY <1>3, <2>2, TakeSame
  <2>3. CASE RunSymbolic(i) /\ ~SkipConditional(i)
    <3>1. w \in path
      BY <2>3 DEF RunSymbolic
    <3>2. QED
      BY <1>3, <2>3, <3>1, RunSame
  <2>4. CASE InsnDispatch(i) /\ ~SkipConditional(i)
    <3>1. w \in path
      BY <2>4 DEF InsnDispatch
    <3>2. QED
      BY <1>3, <2>4, <3>1, DispatchSame
  <2>5. QED
    BY <1>1, <2>1, <2>2, <2>3, <2>4
<1>5. Runs(CpuIn(w), i)
  BY <1>2, <1>4
<1>6. CASE i.op = "idiv" /\ \E z \in BOOLEAN : CpuIn(w)' = [Exec(CpuIn(w), i) EXCEPT !.zf = z]
  BY <1>4, <1>5, <1>6 DEF Native!Undefines
<1>7. CASE CpuIn(w)' = Exec(CpuIn(w), i)
  <2> DEFINE t == Exec(CpuIn(w), i)
  <2>1. t \in Cpus
    <3>1. vm' \in VM /\ FlagsTyped' /\ path' \subseteq path
      BY ProcessKeeps
    <3>2. flags'.zf[w] \in BOOLEAN /\ w \in Worlds
      BY <1>4, <3>1, InvFacts DEF FlagsTyped
    <3>3. CpuIn(w)' = CpuOf(vm', flags'.zf[w], w)
      BY DEF CpuIn, CpuOf
    <3>4. CpuOf(vm', flags'.zf[w], w) \in Cpus
      BY <3>1, <3>2, CpuOfFacts
    <3>5. QED
      BY <1>7, <3>3, <3>4
  <2> HIDE DEF t
  <2>2. t = [t EXCEPT !.zf = t.zf] /\ t.zf \in BOOLEAN
    BY <2>1, CpuFacts
  <2>3. CpuIn(w)' = t
    BY <1>7 DEF t
  <2>4. \E z \in BOOLEAN : CpuIn(w)' = IF Native!Undefines(i.op) THEN [t EXCEPT !.zf = z] ELSE t
    BY <2>2, <2>3
  <2>5. QED
    BY <1>4, <1>5, <2>4 DEF t
<1>8. QED
  BY <1>4, <1>6, <1>7

(* The machine states that Native is about.                                *)
cpus == [w \in path |-> CpuIn(w)]

LEMMA RefinesInit ==
    ASSUME Init
    PROVE  Native!Init
<1>1. \A w \in path : cpus[w].rsp = MemSize
  <2>1. vm.rsp = MemSize
    BY DEF Init
  <2>2. QED
    BY <2>1 DEF cpus, CpuIn
<1>2. insn = [op |-> "none"] /\ DOMAIN cpus = path
  BY DEF Init, cpus
<1>3. QED
  BY <1>1, <1>2 DEF Native!Init, cpus

LEMMA RefinesStep ==
    ASSUME Conforming, IInv, [Next]_vars
    PROVE  Native!Next \/ UNCHANGED <<cpus, insn>>
<1>1. cpus' = [w \in path' |-> CpuIn(w)'] /\ DOMAIN cpus = path /\ DOMAIN cpus' = path'
  BY DEF cpus
<1>2. ASSUME UNCHANGED <<vm, flags, path>>
      PROVE  cpus' = cpus
  <2>1. \A w \in path : CpuIn(w)' = CpuIn(w)
    BY <1>2 DEF CpuIn
  <2>2. QED
    BY <1>1, <1>2, <2>1 DEF cpus
<1>3. CASE UNCHANGED vars
  BY <1>2, <1>3 DEF vars
<1>4. CASE Next
  <2>1. PICK i \in Insns :
            /\ Stops(i) \/ \A w \in path : Runs(CpuIn(w), i)
            /\ ~Deviates(i) /\ processInsn(i)
    BY <1>4 DEF Next
  <2>2. status = "run" /\ insn' = IF status' = "abort" THEN insn ELSE i
    BY <1>4, <2>1 DEF Next, processInsn
  <2>3. CASE status' = "abort"
    <3>1. /\ vm' = vm /\ flags' = flags /\ path' = path
      <4>1. status' # status
        BY <2>2, <2>3
      <4>2. CASE AbortRun(i)
        BY <4>2 DEF AbortRun, Abort
      <4>3. CASE RunSymbolic(i)
        BY <4>1, <4>3, AbortIsClean DEF RunSymbolic
      <4>4. ~SkipConditional(i) /\ ~TakeConditional(i) /\ ~InsnDispatch(i)
        BY <4>1 DEF SkipConditional, TakeConditional, InsnDispatch, process_cmovxx, process_set
      <4>5. QED
        BY <2>1, <4>2, <4>3, <4>4 DEF processInsn
    <3>2. QED
      BY <1>2, <2>2, <2>3, <3>1
  <2>4. CASE status' # "abort"
    <3>1. insn' = i
      BY <2>2, <2>4
    <3>2. path' \subseteq path /\ path' # {}
      BY <2>1, ProcessKeeps
    <3>3. ASSUME NEW w \in path'
          PROVE  /\ Native!Runs(cpus[w], insn')
                 /\ \E z \in BOOLEAN :
                        cpus'[w] = IF Native!Undefines(insn'.op)
                                   THEN [Native!Exec(cpus[w], insn') EXCEPT !.zf = z]
                                   ELSE Native!Exec(cpus[w], insn')
      <4>1. /\ w \in path /\ Runs(CpuIn(w), i)
            /\ \E z \in BOOLEAN :
                    CpuIn(w)' = IF Native!Undefines(i.op) THEN [Exec(CpuIn(w), i) EXCEPT !.zf = z]
                                ELSE Exec(CpuIn(w), i)
        BY <2>1, <2>2, <2>4, StepSame
      <4>2. cpus[w] = CpuIn(w) /\ cpus'[w] = CpuIn(w)'
        BY <1>1, <4>1 DEF cpus
      <4>3. Native!Exec(CpuIn(w), i) = Exec(CpuIn(w), i) /\ (Native!Runs(CpuIn(w), i) <=> Runs(CpuIn(w), i))
        BY NativeExec
      <4>4. QED
        BY <3>1, <4>1, <4>2, <4>3
    <3>4. QED
      BY <1>1, <3>1, <3>2, <3>3 DEF Native!Next, cpus
  <2>5. QED
    BY <2>3, <2>4
<1>5. QED
  BY <1>3, <1>4

(***************************************************************************)
(* Registers, memory, stack pointer and zero flag are, in each world that  *)
(* m_Constraint allows, what the machine computes natively, whichever      *)
(* handler, the host or nobody executed an instruction - of every program  *)
(* whose instructions meet none of the cases of Deviates.  It says nothing *)
(* of a byte that Z3Handler cannot evaluate: that one counts as the        *)
(* machine's until its evaluation ends the run (Unevaluable).              *)
(***************************************************************************)
THEOREM SymExecImplementsMachine ==
    ASSUME Conforming
    PROVE  Spec => ImplementsMachine
<1>1. Init => Native!Init
  BY RefinesInit
<1>2. IInv /\ [Next]_vars => [Native!Next]_<<cpus, insn>>
  BY RefinesStep
<1>3. QED
  BY <1>1, <1>2, InvInductive, PTL DEF Spec, ImplementsMachine, Native!Spec, cpus

=============================================================================
