---------------------------- MODULE SymListProofs ---------------------------
(***************************************************************************)
(* The list of symbolic cells: proofs for every address range, every set   *)
(* of lists that callers may merge and every sequence of operations.       *)
(***************************************************************************)
EXTENDS SymList, SequenceTheorems, WellFoundedInduction, TLAPS

(***************************************************************************)
(* Sequences as the proofs see them.  The provers have the built-in        *)
(* operators in a form of their own, in which the facts below would not be *)
(* found; behind these names they use the facts and nothing else.          *)
(***************************************************************************)
Seqs(S) == Seq(S)
Size(s) == Len(s)
At(s, k) == s[k]
Join(s, t) == s \o t
Part(s, a, b) == SubSeq(s, a, b)

(* The length of a sequence is a number.                                   *)
LEMMA SizeFacts ==
    ASSUME NEW S, NEW s \in Seqs(S) PROVE Size(s) \in Nat
  BY LenProperties DEF Seqs, Size

(* Elements belong to the set.                                             *)
LEMMA AtFacts ==
    ASSUME NEW S, NEW s \in Seqs(S), NEW k \in 1 .. Size(s) PROVE At(s, k) \in S
  BY ElementOfSeq DEF Seqs, Size, At

(* What \o gives                                                           *)
LEMMA JoinFacts ==
    ASSUME NEW S, NEW s \in Seqs(S), NEW t \in Seqs(S)
    PROVE  /\ Join(s, t) \in Seqs(S) /\ Size(Join(s, t)) = Size(s) + Size(t)
           /\ \A k \in 1 .. Size(s) : At(Join(s, t), k) = At(s, k)
           /\ \A k \in 1 .. Size(t) : At(Join(s, t), Size(s) + k) = At(t, k)
<1>1. Size(s) \in Nat /\ Size(t) \in Nat
  BY SizeFacts
<1>2. Join(s, t) \in Seqs(S) /\ Size(Join(s, t)) = Size(s) + Size(t)
  BY ConcatProperties DEF Seqs, Size, Join
<1>3. \A k \in 1 .. Size(s) + Size(t) :
        At(Join(s, t), k) = IF k <= Size(s) THEN At(s, k) ELSE At(t, k - Size(s))
  BY ConcatProperties DEF Seqs, Size, Join, At
<1>4. ASSUME NEW k \in 1 .. Size(s) PROVE At(Join(s, t), k) = At(s, k)
  BY <1>1, <1>3
<1>5. ASSUME NEW k \in 1 .. Size(t) PROVE At(Join(s, t), Size(s) + k) = At(t, k)
  <2>1. Size(s) + k \in 1 .. Size(s) + Size(t) /\ ~(Size(s) + k <= Size(s)) /\ (Size(s) + k) - Size(s) = k
    BY <1>1
  <2> QED
    BY <1>3, <2>1
<1> QED
  BY <1>2, <1>4, <1>5

(* What SubSeq gives                                                       *)
LEMMA PartFacts ==
    ASSUME NEW S, NEW s \in Seqs(S), NEW a \in 1 .. Size(s) + 1, NEW b \in a - 1 .. Size(s)
    PROVE  /\ Part(s, a, b) \in Seqs(S) /\ Size(Part(s, a, b)) = b - a + 1
           /\ \A k \in 1 .. b - a + 1 : At(Part(s, a, b), k) = At(s, a + k - 1)
<1>1. Size(s) \in Nat
  BY SizeFacts
<1>2. a \in Int /\ b \in Int /\ (IF a <= b THEN b - a + 1 ELSE 0) = b - a + 1
  BY <1>1
<1>3. \A i \in a .. b : At(s, i) \in S
  BY <1>1, AtFacts
<1>4. \A i \in a .. b : s[i] \in S
  BY <1>3 DEF At
<1>5. /\ SubSeq(s, a, b) \in Seq(S)
      /\ Len(SubSeq(s, a, b)) = IF a <= b THEN b - a + 1 ELSE 0
      /\ \A i \in 1 .. b - a + 1 : SubSeq(s, a, b)[i] = s[a + i - 1]
  BY <1>2, <1>4, SubSeqProperties
<1> QED
  BY <1>2, <1>5 DEF Seqs, Size, Part, At

(* ... from the beginning, and up to the end                               *)
LEMMA PrefixFacts ==
    ASSUME NEW S, NEW s \in Seqs(S), NEW m \in 0 .. Size(s)
    PROVE  /\ Part(s, 1, m) \in Seqs(S) /\ Size(Part(s, 1, m)) = m
           /\ \A k \in 1 .. m : At(Part(s, 1, m), k) = At(s, k)
  BY SizeFacts, PartFacts

LEMMA SuffixFacts ==
    ASSUME NEW S, NEW s \in Seqs(S), NEW m \in 0 .. Size(s)
    PROVE  /\ Part(s, m + 1, Size(s)) \in Seqs(S) /\ Size(Part(s, m + 1, Size(s))) = Size(s) - m
           /\ \A k \in 1 .. Size(s) - m : At(Part(s, m + 1, Size(s)), k) = At(s, m + k)
<1>1. PICK l \in Nat : l = Size(s)
  BY SizeFacts
<1>2. m \in Nat /\ m <= l
  BY <1>1
<1>3. /\ Part(s, m + 1, l) \in Seqs(S) /\ Size(Part(s, m + 1, l)) = l - m
      /\ \A k \in 1 .. l - m : At(Part(s, m + 1, l), k) = At(s, m + k)
  BY <1>1, <1>2, PartFacts
<1> QED
  BY <1>1, <1>3

-----------------------------------------------------------------------------
(* What Splice gives: three stretches of cells, each with its place.       *)
LEMMA SpliceFacts ==
    ASSUME NEW S, NEW l \in Seqs(S), NEW mid \in Seqs(S),
           NEW i \in 0 .. Size(l), NEW j \in i + 1 .. Size(l) + 1
    PROVE  LET r == Splice(l, i, j, mid)
           IN  /\ r \in Seqs(S) /\ Size(r) = (i + Size(mid)) + (Size(l) - j + 1)
               /\ \A k \in 1 .. i : At(r, k) = At(l, k)
               /\ \A k \in 1 .. Size(mid) : At(r, i + k) = At(mid, k)
               /\ \A k \in j .. Size(l) : At(r, (i + Size(mid)) + (k - j + 1)) = At(l, k)
<1> DEFINE low == Part(l, 1, i)
           top == Part(l, j, Size(l))
           lm == Join(low, mid)
           r == Splice(l, i, j, mid)
<1>1. r = Join(lm, top)
  BY DEF Splice, Join, Part, Size
<1>2. Size(l) \in Nat /\ Size(mid) \in Nat /\ i \in Nat /\ j \in Nat
  BY SizeFacts
<1>3. low \in Seqs(S) /\ Size(low) = i /\ \A k \in 1 .. i : At(low, k) = At(l, k)
  BY PrefixFacts
<1>4. /\ top \in Seqs(S) /\ Size(top) = Size(l) - j + 1
      /\ \A k \in 1 .. Size(l) - j + 1 : At(top, k) = At(l, j + k - 1)
  <2>1. j \in 1 .. Size(l) + 1 /\ Size(l) \in j - 1 .. Size(l)
    BY <1>2
  <2> QED
    BY <2>1, PartFacts
<1> HIDE DEF low, top
<1>5. /\ lm \in Seqs(S) /\ Size(lm) = i + Size(mid)
      /\ \A k \in 1 .. i : At(lm, k) = At(l, k)
      /\ \A k \in 1 .. Size(mid) : At(lm, i + k) = At(mid, k)
  BY <1>3, JoinFacts
<1> HIDE DEF lm
<1>6. /\ r \in Seqs(S) /\ Size(r) = Size(lm) + Size(top)
      /\ \A k \in 1 .. Size(lm) : At(r, k) = At(lm, k)
      /\ \A k \in 1 .. Size(top) : At(r, Size(lm) + k) = At(top, k)
  BY <1>1, <1>4, <1>5, JoinFacts
<1> HIDE DEF r
<1>7. ASSUME NEW k \in 1 .. i PROVE At(r, k) = At(l, k)
  <2>1. k \in 1 .. Size(lm)
    BY <1>2, <1>5
  <2> QED
    BY <1>5, <1>6, <2>1
<1>8. ASSUME NEW k \in 1 .. Size(mid) PROVE At(r, i + k) = At(mid, k)
  <2>1. i + k \in 1 .. Size(lm)
    BY <1>2, <1>5
  <2> QED
    BY <1>5, <1>6, <2>1
<1>9. ASSUME NEW k \in j .. Size(l) PROVE At(r, (i + Size(mid)) + (k - j + 1)) = At(l, k)
  <2>1. k - j + 1 \in 1 .. Size(l) - j + 1 /\ j + (k - j + 1) - 1 = k
    BY <1>2
  <2>2. At(top, k - j + 1) = At(l, k)
    BY <1>4, <2>1
  <2>3. At(r, Size(lm) + (k - j + 1)) = At(top, k - j + 1)
    BY <1>4, <1>6, <2>1
  <2> QED
    BY <1>5, <2>2, <2>3
<1> QED
  BY <1>4, <1>5, <1>6, <1>7, <1>8, <1>9 DEF r

(* ... and every place of the result lies in one of them.                  *)
LEMMA SplicePlaces ==
    ASSUME NEW S, NEW l \in Seqs(S), NEW mid \in Seqs(S),
           NEW i \in 0 .. Size(l), NEW j \in i + 1 .. Size(l) + 1,
           NEW q \in 1 .. Size(Splice(l, i, j, mid))
    PROVE  LET r == Splice(l, i, j, mid)
           IN  \/ q \in 1 .. i /\ At(r, q) = At(l, q)
               \/ \E k \in 1 .. Size(mid) : q = i + k /\ At(r, q) = At(mid, k)
               \/ \E k \in j .. Size(l) : q = (i + Size(mid)) + (k - j + 1) /\ At(r, q) = At(l, k)
<1> DEFINE r == Splice(l, i, j, mid)
<1>1. PICK n \in Nat, m \in Nat : n = Size(l) /\ m = Size(mid)
  BY SizeFacts
<1>2. /\ Size(r) = (i + m) + (n - j + 1)
      /\ \A k \in 1 .. i : At(r, k) = At(l, k)
      /\ \A k \in 1 .. m : At(r, i + k) = At(mid, k)
      /\ \A k \in j .. n : At(r, (i + m) + (k - j + 1)) = At(l, k)
  BY <1>1, SpliceFacts
<1> HIDE DEF r
<1>3. q \in 1 .. Size(r)
  BY DEF r
<1>4. CASE q <= i
  BY <1>1, <1>2, <1>3, <1>4 DEF r
<1>5. CASE i < q /\ q <= i + m
  <2>1. q - i \in 1 .. m /\ q = i + (q - i)
    BY <1>1, <1>3, <1>5
  <2>2. At(r, q) = At(mid, q - i)
    BY <1>2, <2>1
  <2> QED
    BY <1>1, <2>1, <2>2 DEF r
<1>6. CASE i + m < q
  <2>1. PICK k \in Int : k = q - (i + m) + j - 1
    BY <1>1, <1>3
  <2>2. k \in j .. n /\ q = (i + m) + (k - j + 1)
    BY <1>1, <1>2, <1>3, <1>6, <2>1
  <2>3. At(r, q) = At(l, k)
    BY <1>2, <2>2
  <2> QED
    BY <1>1, <2>2, <2>3 DEF r
<1> QED
  BY <1>1, <1>3, <1>4, <1>5, <1>6

-----------------------------------------------------------------------------
(* Chains of cells: each ends before the next begins, and each is another. *)
Before(c, d) == EndOf(c) <= d.addr /\ c.id # d.id

Chain(l) == \A p, q \in 1 .. Size(l) : p < q => Before(At(l, p), At(l, q))

(* Splicing a chain into a gap of a chain gives a chain.                   *)
LEMMA SpliceChain ==
    ASSUME NEW S, NEW l \in Seqs(S), NEW mid \in Seqs(S),
           NEW i \in 0 .. Size(l), NEW j \in i + 1 .. Size(l) + 1,
           Chain(l), Chain(mid),
           \A p \in 1 .. i, k \in 1 .. Size(mid) : Before(At(l, p), At(mid, k)),
           \A k \in 1 .. Size(mid), p \in j .. Size(l) : Before(At(mid, k), At(l, p))
    PROVE  Chain(Splice(l, i, j, mid))
<1> DEFINE r == Splice(l, i, j, mid)
<1> SUFFICES ASSUME NEW p \in 1 .. Size(r), NEW q \in 1 .. Size(r), p < q
             PROVE  Before(At(r, p), At(r, q))
  BY DEF Chain
<1>1. PICK n \in Nat, m \in Nat : n = Size(l) /\ m = Size(mid)
  BY SizeFacts
<1>2. r \in Seqs(S)
  BY SpliceFacts
<1>3. ASSUME NEW x \in 1 .. Size(r)
      PROVE  \/ x \in 1 .. i /\ At(r, x) = At(l, x)
             \/ \E k \in 1 .. m : x = i + k /\ At(r, x) = At(mid, k)
             \/ \E k \in j .. n : x = (i + m) + (k - j + 1) /\ At(r, x) = At(l, k)
  BY <1>1, SplicePlaces
<1>4. Size(r) \in Nat
  BY <1>2, SizeFacts
<1> HIDE DEF r
<1>5. \A x, y \in 1 .. n : x < y => Before(At(l, x), At(l, y))
  BY <1>1 DEF Chain
<1>6. \A x, y \in 1 .. m : x < y => Before(At(mid, x), At(mid, y))
  BY <1>1 DEF Chain
<1>7. i \in 0 .. n /\ j \in i + 1 .. n + 1 /\ p \in Nat /\ q \in Nat
  BY <1>1, <1>4
<1>8. CASE q \in 1 .. i /\ At(r, q) = At(l, q)
  <2>1. At(r, p) = At(l, p) /\ p \in 1 .. n /\ q \in 1 .. n
    BY <1>3, <1>7, <1>8
  <2> QED
    BY <1>5, <1>8, <2>1
<1>9. CASE \E k \in 1 .. m : q = i + k /\ At(r, q) = At(mid, k)
  <2>1. PICK k \in 1 .. m : q = i + k /\ At(r, q) = At(mid, k)
    BY <1>9
  <2>2. \/ p \in 1 .. i /\ At(r, p) = At(l, p)
        \/ \E x \in 1 .. m : p = i + x /\ At(r, p) = At(mid, x)
    BY <1>3, <1>7, <2>1
  <2>3. CASE p \in 1 .. i /\ At(r, p) = At(l, p)
    BY <1>1, <2>1, <2>3
  <2>4. CASE \E x \in 1 .. m : p = i + x /\ At(r, p) = At(mid, x)
    BY <1>6, <1>7, <2>1, <2>4
  <2> QED
    BY <2>2, <2>3, <2>4
<1>10. CASE \E k \in j .. n : q = (i + m) + (k - j + 1) /\ At(r, q) = At(l, k)
  <2>1. PICK k \in j .. n : q = (i + m) + (k - j + 1) /\ At(r, q) = At(l, k)
    BY <1>10
  <2>2. CASE p \in 1 .. i /\ At(r, p) = At(l, p)
    <3>1. p \in 1 .. n /\ k \in 1 .. n /\ p < k
      BY <1>7, <2>1, <2>2
    <3> QED
      BY <1>5, <2>1, <2>2, <3>1
  <2>3. CASE \E x \in 1 .. m : p = i + x /\ At(r, p) = At(mid, x)
    BY <1>1, <2>1, <2>3
  <2>4. CASE \E x \in j .. n : p = (i + m) + (x - j + 1) /\ At(r, p) = At(l, x)
    <3>1. PICK x \in j .. n : p = (i + m) + (x - j + 1) /\ At(r, p) = At(l, x)
      BY <2>4
    <3>2. x \in 1 .. n /\ k \in 1 .. n /\ x < k
      BY <1>7, <2>1, <3>1
    <3> QED
      BY <1>5, <2>1, <3>1, <3>2
  <2> QED
    BY <1>3, <2>2, <2>3, <2>4
<1> QED
  BY <1>3, <1>8, <1>9, <1>10

-----------------------------------------------------------------------------
(* Cells                                                                   *)
Cells == { c \in [id : Ids, addr : Int, size : Nat, expr : Seq(SymByte)] : Len(c.expr) = c.size }

(* The cells between the sentinels                                         *)
Inner ==
    { c \in Cells : /\ c.addr \in Addr /\ c.size > 0 /\ EndOf(c) <= Hi + 1
                    /\ c.id \notin {HeadId, TailId} }

HeadCell == SymCell(HeadId, HeadAddr, 0, <<>>)
TailCell == SymCell(TailId, TailAddr, 0, <<>>)

Sound == Inner \cup {HeadCell, TailCell}

(* The constants in the form that the arithmetic steps need                *)
LEMMA Constants ==
    /\ Lo \in Int /\ Hi \in Int /\ HeadAddr \in Int /\ TailAddr \in Int
    /\ HeadAddr < Lo /\ Lo <= Hi /\ Hi + 1 < TailAddr /\ KeySpace \in Nat /\ KeySpace > 0
    /\ \A a \in Addr : a \in Int /\ HeadAddr < a /\ a < TailAddr
  BY AddrAssumption DEF HeadAddr, TailAddr, Addr

(* Fields of sentinels and inner cells                                     *)
LEMMA SentinelFacts ==
    /\ HeadCell.id = HeadId /\ HeadCell.addr = HeadAddr /\ HeadCell.size = 0 /\ EndOf(HeadCell) = HeadAddr
    /\ TailCell.id = TailId /\ TailCell.addr = TailAddr /\ TailCell.size = 0 /\ EndOf(TailCell) = TailAddr
    /\ HeadId # TailId /\ HeadId \in Ids /\ TailId \in Ids
<1>1. /\ HeadCell.id = HeadId /\ HeadCell.addr = HeadAddr /\ HeadCell.size = 0
      /\ TailCell.id = TailId /\ TailCell.addr = TailAddr /\ TailCell.size = 0
  BY DEF HeadCell, TailCell, SymCell
<1>2. EndOf(HeadCell) = HeadAddr /\ EndOf(TailCell) = TailAddr
  BY <1>1, Constants DEF EndOf
<1>3. HeadId # TailId
  BY Constants DEF HeadId, TailId
<1>4. HeadId \in Ids /\ TailId \in Ids
  BY AddrAssumption DEF HeadId, TailId, Ids
<1> QED
  BY <1>1, <1>2, <1>3, <1>4

LEMMA InnerFacts ==
    ASSUME NEW c \in Inner
    PROVE  /\ c.addr \in Int /\ c.size \in Nat /\ c.size > 0 /\ EndOf(c) \in Int
           /\ EndOf(c) = c.addr + c.size /\ c.addr \in Addr /\ EndOf(c) <= Hi + 1
           /\ c.addr < EndOf(c) /\ Lo <= c.addr
           /\ c.id \in Ids /\ c.id # HeadId /\ c.id # TailId
<1>1. c \in Cells /\ c.addr \in Addr /\ c.size > 0 /\ EndOf(c) <= Hi + 1 /\ c.id \notin {HeadId, TailId}
  BY DEF Inner
<1>2. c.addr \in Int /\ c.size \in Nat /\ c.id \in Ids
  BY <1>1 DEF Cells
<1>3. Lo <= c.addr
  BY <1>1, Constants DEF Addr
<1>4. EndOf(c) = c.addr + c.size
  BY DEF EndOf
<1> QED
  BY <1>1, <1>2, <1>3, <1>4

LEMMA SoundFacts ==
    ASSUME NEW c \in Sound
    PROVE  /\ c.addr \in Int /\ EndOf(c) \in Int /\ c.addr <= EndOf(c) /\ c.id \in Ids
           /\ EndOf(c) = c.addr + c.size
  <1>1. CASE c \in Inner
    BY <1>1, InnerFacts
  <1>2. CASE c \in {HeadCell, TailCell}
    BY <1>2, SentinelFacts, Constants DEF EndOf
  <1> QED
    BY <1>1, <1>2 DEF Sound

(***************************************************************************)
(* The list: a chain between the sentinels.                                *)
(***************************************************************************)
Wf(l) ==
    /\ l \in Seqs(Sound) /\ Size(l) >= 2
    /\ At(l, 1) = HeadCell /\ At(l, Size(l)) = TailCell
    /\ Chain(l)

(* What lies between the sentinels is an inner cell.                       *)
LEMMA WfInner ==
    ASSUME NEW l, Wf(l), NEW i \in 2 .. Size(l) - 1
    PROVE  At(l, i) \in Inner
<1>1. PICK n \in Nat : n = Size(l)
  BY SizeFacts DEF Wf
<1>2. 1 \in 1 .. n /\ n \in 1 .. n /\ i \in 1 .. n /\ 1 < i /\ i < n
  BY <1>1
<1>3. At(l, i) \in Sound
  BY <1>1, <1>2, AtFacts DEF Wf
<1>4. At(l, 1).id # At(l, i).id /\ At(l, i).id # At(l, n).id
  BY <1>1, <1>2 DEF Wf, Chain, Before
<1>5. At(l, i) # HeadCell /\ At(l, i) # TailCell
  BY <1>1, <1>4 DEF Wf
<1> QED
  BY <1>3, <1>5 DEF Sound

(* Splicing inner cells into a gap keeps the list well formed.             *)
LEMMA SpliceWf ==
    ASSUME NEW l, Wf(l), NEW mid \in Seqs(Inner), Chain(mid),
           NEW i \in 1 .. Size(l) - 1, NEW j \in i + 1 .. Size(l),
           \A p \in 1 .. i, k \in 1 .. Size(mid) : Before(At(l, p), At(mid, k)),
           \A k \in 1 .. Size(mid), p \in j .. Size(l) : Before(At(mid, k), At(l, p))
    PROVE  Wf(Splice(l, i, j, mid))
<1> DEFINE r == Splice(l, i, j, mid)
<1>1. l \in Seqs(Sound) /\ Chain(l) /\ At(l, 1) = HeadCell /\ At(l, Size(l)) = TailCell
  BY DEF Wf
<1>2. mid \in Seqs(Sound)
  BY SeqMonotonic DEF Seqs, Sound
<1>3. PICK n \in Nat, m \in Nat : n = Size(l) /\ m = Size(mid)
  BY <1>1, SizeFacts
<1>4. i \in 0 .. Size(l) /\ j \in i + 1 .. Size(l) + 1
  BY <1>3
<1>5. Chain(r)
  BY <1>1, <1>2, <1>4, SpliceChain
<1>6. /\ r \in Seqs(Sound) /\ Size(r) = (i + m) + (n - j + 1)
      /\ \A k \in 1 .. i : At(r, k) = At(l, k)
      /\ \A k \in j .. n : At(r, (i + m) + (k - j + 1)) = At(l, k)
  BY <1>1, <1>2, <1>3, <1>4, SpliceFacts
<1> HIDE DEF r
<1>7. 1 \in 1 .. i /\ n \in j .. n
  BY <1>3
<1>8. At(r, 1) = HeadCell
  BY <1>1, <1>6, <1>7
<1>9. At(r, Size(r)) = TailCell
  BY <1>1, <1>3, <1>6, <1>7
<1>10. Size(r) >= 2
  BY <1>3, <1>6
<1> QED
  BY <1>5, <1>6, <1>8, <1>9, <1>10 DEF Wf, r

-----------------------------------------------------------------------------
(* Bytes                                                                   *)
Covers(c, a) == c.addr <= a /\ a < EndOf(c)
Byte(c, a) == At(c.expr, a - c.addr + 1)

(* A part of a cell holds the bytes that the cell has there.               *)
Cut(p, c, id, x, y) ==
    /\ p = [id |-> id, addr |-> x, size |-> y - x, expr |-> p.expr]
    /\ p.expr \in Seq(SymByte) /\ Len(p.expr) = y - x /\ y - x \in Nat /\ y - x > 0
    /\ p.id = id /\ p.addr = x /\ p.size = y - x /\ EndOf(p) = y
    /\ \A a \in Addr : Covers(p, a) => Byte(p, a) = Byte(c, a)

LEMMA CutBytes ==
    ASSUME NEW c \in Inner, NEW id, NEW x \in Int, NEW y \in Int, c.addr <= x, x < y, y <= EndOf(c)
    PROVE  Cut(CutCell(c, id, x, y), c, id, x, y)
<1> DEFINE from == (x - c.addr) + 1
           to == y - c.addr
           e == Part(c.expr, from, to)
           p == CutCell(c, id, x, y)
<1>1. c.addr \in Int /\ c.size \in Nat /\ EndOf(c) = c.addr + c.size /\ EndOf(c) \in Int
  BY InnerFacts
<1>2. c.expr \in Seqs(SymByte) /\ Size(c.expr) = c.size
  BY DEF Inner, Cells, Seqs, Size
<1>3. from \in 1 .. Size(c.expr) + 1 /\ to \in from - 1 .. Size(c.expr)
  BY <1>1, <1>2
<1>4. /\ e \in Seqs(SymByte) /\ Size(e) = to - from + 1
      /\ \A k \in 1 .. to - from + 1 : At(e, k) = At(c.expr, from + k - 1)
  BY <1>2, <1>3, PartFacts
<1>5. to - from + 1 = y - x /\ y - x \in Nat /\ y - x > 0 /\ x + (y - x) = y
  BY <1>1
<1>6. p = [id |-> id, addr |-> x, size |-> y - x, expr |-> e]
  BY DEF CutCell, SymCell, ExtractExpr, Part
<1> HIDE DEF e, from, to
<1>7. p.id = id /\ p.addr = x /\ p.size = y - x /\ p.expr = e
  BY <1>6
<1>8. e \in Seq(SymByte) /\ Len(e) = y - x
  BY <1>4, <1>5 DEF Seqs, Size
<1>9. EndOf(p) = y
  BY <1>5, <1>7 DEF EndOf
<1> HIDE DEF p
<1>10. ASSUME NEW a \in Addr, Covers(p, a) PROVE Byte(p, a) = Byte(c, a)
  <2>1. a \in Int /\ x <= a /\ a < y
    BY <1>7, <1>9, <1>10, Constants DEF Covers
  <2>2. a - x + 1 \in 1 .. to - from + 1 /\ from + (a - x + 1) - 1 = a - c.addr + 1
    BY <1>1, <1>5, <2>1 DEF from
  <2>3. At(e, a - x + 1) = At(c.expr, a - c.addr + 1)
    BY <1>4, <2>2
  <2> QED
    BY <1>7, <2>3 DEF Byte
<1> QED
  BY <1>5, <1>6, <1>7, <1>8, <1>9, <1>10 DEF Cut, p

LEMMA CutFacts ==
    ASSUME NEW c \in Inner, NEW id \in Ids, id # HeadId, id # TailId,
           NEW x \in Int, NEW y \in Int, c.addr <= x, x < y, y <= EndOf(c)
    PROVE  LET p == CutCell(c, id, x, y)
           IN  /\ p \in Inner /\ p.id = id /\ p.addr = x /\ EndOf(p) = y
               /\ \A a \in Addr : Covers(p, a) => Byte(p, a) = Byte(c, a)
<1>1. PICK p : p = CutCell(c, id, x, y)
  OBVIOUS
<1>2. Cut(p, c, id, x, y)
  BY <1>1, CutBytes
<1>3. p \in [id : Ids, addr : Int, size : Nat, expr : Seq(SymByte)]
  BY <1>2 DEF Cut
<1>4. x \in Addr /\ y <= Hi + 1
  <2>1. c.addr \in Int /\ Lo <= c.addr /\ EndOf(c) \in Int /\ EndOf(c) <= Hi + 1
    BY InnerFacts
  <2> QED
    BY <2>1, Constants DEF Addr
<1>5. p \in Inner
  BY <1>2, <1>3, <1>4 DEF Cut, Inner, Cells
<1> QED
  BY <1>1, <1>2, <1>5 DEF Cut

(***************************************************************************)
(* The list stands for a store: where a cell lies the store has the cell's *)
(* byte, and elsewhere nothing.                                            *)
(***************************************************************************)
Rep(l, c) ==
    /\ \A i \in 1 .. Size(l), a \in Addr : Covers(At(l, i), a) => c[a] = Byte(At(l, i), a)
    /\ \A a \in Addr : (\A i \in 1 .. Size(l) : ~Covers(At(l, i), a)) => c[a] = NoSym

(* What splicing does to the store                                         *)
LEMMA SpliceRep ==
    ASSUME NEW S, NEW l \in Seqs(S), NEW mid \in Seqs(S),
           NEW i \in 0 .. Size(l), NEW j \in i + 1 .. Size(l) + 1,
           NEW c, NEW d, Rep(l, c),
           \A k \in 1 .. Size(l), a \in Addr : (k <= i \/ j <= k) /\ Covers(At(l, k), a) => d[a] = c[a],
           \A k \in 1 .. Size(mid), a \in Addr : Covers(At(mid, k), a) => d[a] = Byte(At(mid, k), a),
           \A a \in Addr :
              (\A k \in 1 .. Size(mid) : ~Covers(At(mid, k), a)) =>
                 \/ d[a] = NoSym
                 \/ d[a] = c[a] /\ \A k \in i + 1 .. j - 1 : ~Covers(At(l, k), a)
    PROVE  Rep(Splice(l, i, j, mid), d)
<1> DEFINE r == Splice(l, i, j, mid)
<1>1. PICK n \in Nat, m \in Nat : n = Size(l) /\ m = Size(mid)
  BY SizeFacts
<1>2. /\ Size(r) = (i + m) + (n - j + 1)
      /\ \A k \in 1 .. i : At(r, k) = At(l, k)
      /\ \A k \in 1 .. m : At(r, i + k) = At(mid, k)
      /\ \A k \in j .. n : At(r, (i + m) + (k - j + 1)) = At(l, k)
  BY <1>1, SpliceFacts
<1>3. ASSUME NEW x \in 1 .. Size(r)
      PROVE  \/ x \in 1 .. i /\ At(r, x) = At(l, x)
             \/ \E k \in 1 .. m : x = i + k /\ At(r, x) = At(mid, k)
             \/ \E k \in j .. n : x = (i + m) + (k - j + 1) /\ At(r, x) = At(l, k)
  BY <1>1, SplicePlaces
<1> HIDE DEF r
<1>4. i \in 0 .. n /\ j \in i + 1 .. n + 1
  BY <1>1
<1>5. ASSUME NEW x \in 1 .. Size(r), NEW a \in Addr, Covers(At(r, x), a)
      PROVE  d[a] = Byte(At(r, x), a)
  <2>1. CASE \E k \in 1 .. n : (k <= i \/ j <= k) /\ At(r, x) = At(l, k)
    <3>1. PICK k \in 1 .. n : (k <= i \/ j <= k) /\ At(r, x) = At(l, k)
      BY <2>1
    <3>2. d[a] = c[a] /\ c[a] = Byte(At(l, k), a)
      BY <1>1, <1>5, <3>1 DEF Rep
    <3> QED
      BY <3>1, <3>2
  <2>2. CASE \E k \in 1 .. m : At(r, x) = At(mid, k)
    BY <1>1, <1>5, <2>2
  <2>3. x \in 1 .. i => x \in 1 .. n /\ x <= i
    BY <1>4
  <2>4. \A k \in j .. n : k \in 1 .. n /\ j <= k
    BY <1>4
  <2> QED
    BY <1>3, <2>1, <2>2, <2>3, <2>4
<1>6. ASSUME NEW a \in Addr, \A x \in 1 .. Size(r) : ~Covers(At(r, x), a)
      PROVE  d[a] = NoSym
  <2>1. ASSUME NEW k \in 1 .. m PROVE ~Covers(At(mid, k), a)
    <3>1. i + k \in 1 .. Size(r)
      BY <1>2, <1>4
    <3> QED
      BY <1>2, <1>6, <3>1
  <2>2. ASSUME NEW k \in 1 .. n, k <= i PROVE ~Covers(At(l, k), a)
    <3>1. k \in 1 .. Size(r) /\ k \in 1 .. i
      BY <1>2, <1>4, <2>2
    <3> QED
      BY <1>2, <1>6, <3>1
  <2>3. ASSUME NEW k \in 1 .. n, j <= k PROVE ~Covers(At(l, k), a)
    <3>1. (i + m) + (k - j + 1) \in 1 .. Size(r) /\ k \in j .. n
      BY <1>2, <1>4, <2>3
    <3> QED
      BY <1>2, <1>6, <3>1
  <2>4. CASE d[a] = c[a] /\ \A k \in i + 1 .. j - 1 : ~Covers(At(l, k), a)
    <3>1. ASSUME NEW k \in 1 .. n PROVE ~Covers(At(l, k), a)
      <4>1. k <= i \/ j <= k \/ k \in i + 1 .. j - 1
        BY <1>4
      <4> QED
        BY <2>2, <2>3, <2>4, <4>1
    <3>2. c[a] = NoSym
      BY <1>1, <3>1 DEF Rep
    <3> QED
      BY <2>4, <3>2
  <2> QED
    BY <1>1, <2>1, <2>4
<1> QED
  BY <1>5, <1>6 DEF Rep, r

-----------------------------------------------------------------------------
(* The index                                                               *)
CellKey(c) == IF c.id = HeadId THEN HeadKey ELSE ADDR_TO_KEY(c.addr)

Index(l, m) ==
    /\ DOMAIN m = { CellKey(At(l, i)) : i \in 1 .. Size(l) }
    /\ \A i \in 1 .. Size(l) : m[CellKey(At(l, i))] = At(l, i).id

(* The header's key is no address's key.                                   *)
LEMMA KeyRange ==
    ASSUME NEW a \in Int PROVE ADDR_TO_KEY(a) # HeadKey
  BY Constants DEF ADDR_TO_KEY, HeadKey

(* Two cells of a chain have different keys.                               *)
LEMMA KeysApart ==
    ASSUME NEW c \in Sound, NEW d \in Sound, Before(c, d)
    PROVE  CellKey(c) # CellKey(d)
<1>1. EndOf(c) <= d.addr /\ c.id # d.id
  BY DEF Before
<1>2. d # HeadCell
  <2>1. CASE c \in Inner
    BY <1>1, <2>1, InnerFacts, SentinelFacts, Constants
  <2>2. CASE c \in {HeadCell, TailCell}
    BY <1>1, <2>2, SentinelFacts, Constants
  <2> QED
    BY <2>1, <2>2 DEF Sound
<1>3. c # TailCell
  <2>1. CASE d \in Inner
    BY <1>1, <2>1, InnerFacts, SentinelFacts, Constants
  <2>2. CASE d \in {HeadCell, TailCell}
    BY <1>1, <2>2, SentinelFacts, Constants
  <2> QED
    BY <2>1, <2>2 DEF Sound
<1>4. d.id # HeadId /\ d.addr \in Int
  BY <1>2, InnerFacts, SentinelFacts, Constants DEF Sound
<1>5. CASE c = HeadCell
  BY <1>4, <1>5, SentinelFacts, KeyRange DEF CellKey
<1>6. CASE c \in Inner
  <2>1. c.id # HeadId /\ c.addr \in Addr /\ c.addr # d.addr
    BY <1>1, <1>4, <1>6, InnerFacts
  <2>2. CASE d \in Inner
    <3>1. d.addr \in Addr
      BY <2>2, InnerFacts
    <3>2. ADDR_TO_KEY(c.addr) # ADDR_TO_KEY(d.addr)
      BY <2>1, <3>1, AddrAssumption
    <3> QED
      BY <1>4, <2>1, <3>2 DEF CellKey
  <2>3. CASE d = TailCell
    <3>1. ADDR_TO_KEY(c.addr) # ADDR_TO_KEY(TailAddr)
      BY <2>1, AddrAssumption
    <3> QED
      BY <1>4, <2>1, <2>3, <3>1, SentinelFacts DEF CellKey
  <2> QED
    BY <1>2, <2>2, <2>3 DEF Sound
<1> QED
  BY <1>3, <1>5, <1>6 DEF Sound

LEMMA KeysDistinct ==
    ASSUME NEW l, Wf(l), NEW p \in 1 .. Size(l), NEW q \in 1 .. Size(l), p # q
    PROVE  CellKey(At(l, p)) # CellKey(At(l, q))
<1>1. l \in Seqs(Sound) /\ Chain(l)
  BY DEF Wf
<1>2. At(l, p) \in Sound /\ At(l, q) \in Sound /\ Size(l) \in Nat
  BY <1>1, AtFacts, SizeFacts
<1>3. p < q \/ q < p
  BY <1>2
<1>4. Before(At(l, p), At(l, q)) \/ Before(At(l, q), At(l, p))
  BY <1>1, <1>3 DEF Chain
<1> QED
  BY <1>2, <1>4, KeysApart

(* What splicing does to the index                                         *)
LEMMA SpliceIndex ==
    ASSUME NEW l, Wf(l), NEW mid \in Seqs(Inner),
           NEW i \in 0 .. Size(l), NEW j \in i + 1 .. Size(l) + 1,
           Wf(Splice(l, i, j, mid)), NEW m, NEW m2, Index(l, m),
           DOMAIN m2 = (DOMAIN m \ { CellKey(At(l, k)) : k \in i + 1 .. j - 1 })
                       \cup { CellKey(At(mid, k)) : k \in 1 .. Size(mid) },
           \A k \in 1 .. Size(mid) : m2[CellKey(At(mid, k))] = At(mid, k).id,
           \A x \in DOMAIN m2 : (\A k \in 1 .. Size(mid) : x # CellKey(At(mid, k))) => m2[x] = m[x]
    PROVE  Index(Splice(l, i, j, mid), m2)
<1> DEFINE r == Splice(l, i, j, mid)
<1>1. l \in Seqs(Sound)
  BY DEF Wf
<1>2. mid \in Seqs(Sound)
  BY SeqMonotonic DEF Seqs, Sound
<1>3. PICK n \in Nat, z \in Nat : n = Size(l) /\ z = Size(mid)
  BY <1>1, SizeFacts
<1>4. /\ Size(r) = (i + z) + (n - j + 1)
      /\ \A k \in 1 .. i : At(r, k) = At(l, k)
      /\ \A k \in 1 .. z : At(r, i + k) = At(mid, k)
      /\ \A k \in j .. n : At(r, (i + z) + (k - j + 1)) = At(l, k)
  BY <1>1, <1>2, <1>3, SpliceFacts
<1>5. ASSUME NEW x \in 1 .. Size(r)
      PROVE  \/ x \in 1 .. i /\ At(r, x) = At(l, x)
             \/ \E k \in 1 .. z : x = i + k /\ At(r, x) = At(mid, k)
             \/ \E k \in j .. n : x = (i + z) + (k - j + 1) /\ At(r, x) = At(l, k)
  BY <1>1, <1>2, <1>3, SplicePlaces
<1>6. \A p, q \in 1 .. Size(r) : p # q => CellKey(At(r, p)) # CellKey(At(r, q))
  BY KeysDistinct
<1>7. \A p, q \in 1 .. n : p # q => CellKey(At(l, p)) # CellKey(At(l, q))
  BY <1>3, KeysDistinct
<1> HIDE DEF r
<1>8. i \in 0 .. n /\ j \in i + 1 .. n + 1
  BY <1>3
(* A kept cell keeps its entry. *)
<1>9. ASSUME NEW x \in 1 .. Size(r), NEW k \in 1 .. n, k <= i \/ j <= k, At(r, x) = At(l, k),
             x <= i \/ i + z < x
      PROVE  CellKey(At(r, x)) \in DOMAIN m2 /\ m2[CellKey(At(r, x))] = At(r, x).id
  <2>1. ASSUME NEW y \in 1 .. z PROVE CellKey(At(r, x)) # CellKey(At(mid, y))
    <3>1. i + y \in 1 .. Size(r) /\ x # i + y
      BY <1>4, <1>8, <1>9
    <3> QED
      BY <1>4, <1>6, <3>1
  <2>2. ASSUME NEW y \in i + 1 .. j - 1 PROVE CellKey(At(l, k)) # CellKey(At(l, y))
    <3>1. y \in 1 .. n /\ y # k
      BY <1>8, <1>9
    <3> QED
      BY <1>7, <3>1
  <2>3. CellKey(At(l, k)) \in DOMAIN m /\ m[CellKey(At(l, k))] = At(l, k).id
    BY <1>3 DEF Index
  <2>4. CellKey(At(r, x)) \in DOMAIN m2
    BY <1>9, <2>2, <2>3
  <2> QED
    BY <1>3, <1>9, <2>1, <2>3, <2>4
<1>10. ASSUME NEW x \in 1 .. Size(r)
       PROVE  CellKey(At(r, x)) \in DOMAIN m2 /\ m2[CellKey(At(r, x))] = At(r, x).id
  <2>1. CASE x \in 1 .. i /\ At(r, x) = At(l, x)
    <3>1. x \in 1 .. n /\ x <= i
      BY <1>8, <2>1
    <3> QED
      BY <1>9, <2>1, <3>1
  <2>2. CASE \E k \in 1 .. z : x = i + k /\ At(r, x) = At(mid, k)
    BY <1>3, <2>2
  <2>3. CASE \E k \in j .. n : x = (i + z) + (k - j + 1) /\ At(r, x) = At(l, k)
    <3>1. PICK k \in j .. n : x = (i + z) + (k - j + 1) /\ At(r, x) = At(l, k)
      BY <2>3
    <3>2. k \in 1 .. n /\ j <= k /\ i + z < x
      BY <1>8, <3>1
    <3> QED
      BY <1>9, <3>1, <3>2
  <2> QED
    BY <1>5, <2>1, <2>2, <2>3
<1>11. ASSUME NEW y \in DOMAIN m2 PROVE \E x \in 1 .. Size(r) : y = CellKey(At(r, x))
  <2>1. CASE \E k \in 1 .. z : y = CellKey(At(mid, k))
    <3>1. PICK k \in 1 .. z : y = CellKey(At(mid, k))
      BY <2>1
    <3>2. i + k \in 1 .. Size(r)
      BY <1>4, <1>8
    <3> QED
      BY <1>4, <3>1, <3>2
  <2>2. CASE y \in DOMAIN m /\ \A k \in i + 1 .. j - 1 : y # CellKey(At(l, k))
    <3>1. PICK k \in 1 .. n : y = CellKey(At(l, k))
      BY <1>3, <2>2 DEF Index
    <3>2. k \notin i + 1 .. j - 1
      BY <2>2, <3>1
    <3>3. k \in 1 .. i \/ k \in j .. n
      BY <1>8, <3>2
    <3>4. CASE k \in 1 .. i
      <4>1. k \in 1 .. Size(r)
        BY <1>4, <1>8, <3>4
      <4> QED
        BY <1>4, <3>1, <3>4, <4>1
    <3>5. CASE k \in j .. n
      <4>1. (i + z) + (k - j + 1) \in 1 .. Size(r)
        BY <1>4, <1>8, <3>5
      <4> QED
        BY <1>4, <3>1, <3>5, <4>1
    <3> QED
      BY <3>3, <3>4, <3>5
  <2> QED
    BY <1>3, <2>1, <2>2
<1>12. DOMAIN m2 = { CellKey(At(r, x)) : x \in 1 .. Size(r) }
  BY <1>10, <1>11
<1> QED
  BY <1>10, <1>12 DEF Index, r

(* The domain of a sequence                                                *)
LEMMA DomFacts ==
    ASSUME NEW S, NEW s \in Seqs(S) PROVE DOMAIN s = 1 .. Size(s)
  BY LenProperties DEF Seqs, Size

(* What Enter does                                                         *)
LEMMA EnterFacts ==
    ASSUME NEW cells \in Seqs(Inner), Chain(cells), NEW m
    PROVE  /\ DOMAIN Enter(m, cells) = DOMAIN m \cup { CellKey(At(cells, k)) : k \in 1 .. Size(cells) }
           /\ \A k \in 1 .. Size(cells) : Enter(m, cells)[CellKey(At(cells, k))] = At(cells, k).id
           /\ \A x \in DOMAIN m : (\A k \in 1 .. Size(cells) : x # CellKey(At(cells, k)))
                                     => Enter(m, cells)[x] = m[x]
<1> DEFINE n == Size(cells)
           keys == { CellKey(At(cells, k)) : k \in 1 .. n }
<1>1. DOMAIN cells = 1 .. n /\ n \in Nat
  BY DomFacts, SizeFacts
<1> HIDE DEF n
<1>2. \A k \in 1 .. n : At(cells, k) \in Inner
  BY AtFacts DEF n
<1>3. \A k \in 1 .. n : CellKey(At(cells, k)) = ADDR_TO_KEY(cells[k].addr)
  <2> SUFFICES ASSUME NEW k \in 1 .. n PROVE CellKey(At(cells, k)) = ADDR_TO_KEY(cells[k].addr)
    OBVIOUS
  <2>1. At(cells, k).id # HeadId
    BY <1>2, InnerFacts
  <2> QED
    BY <2>1 DEF CellKey, At
<1>4. \A p, q \in 1 .. n : p # q => CellKey(At(cells, p)) # CellKey(At(cells, q))
  <2> SUFFICES ASSUME NEW p \in 1 .. n, NEW q \in 1 .. n, p # q
               PROVE CellKey(At(cells, p)) # CellKey(At(cells, q))
    OBVIOUS
  <2>1. p < q \/ q < p
    BY <1>1
  <2>2. Before(At(cells, p), At(cells, q)) \/ Before(At(cells, q), At(cells, p))
    BY <2>1 DEF Chain, n
  <2>3. At(cells, p) \in Sound /\ At(cells, q) \in Sound
    BY <1>2 DEF Sound
  <2> QED
    BY <2>2, <2>3, KeysApart
<1>5. keys = { ADDR_TO_KEY(cells[i].addr) : i \in DOMAIN cells }
  BY <1>1, <1>3
<1> HIDE DEF keys
<1>6. Enter(m, cells) =
        [k \in DOMAIN m \cup keys |->
            IF k \in keys
            THEN cells[CHOOSE i \in DOMAIN cells : ADDR_TO_KEY(cells[i].addr) = k].id
            ELSE m[k]]
  BY <1>5 DEF Enter
<1>7. DOMAIN Enter(m, cells) = DOMAIN m \cup keys
  BY <1>6
<1>8. ASSUME NEW k \in 1 .. n PROVE Enter(m, cells)[CellKey(At(cells, k))] = At(cells, k).id
  <2> DEFINE key == CellKey(At(cells, k))
             i == CHOOSE x \in DOMAIN cells : ADDR_TO_KEY(cells[x].addr) = key
  <2>1. key \in keys
    BY DEF keys
  <2>2. k \in DOMAIN cells /\ ADDR_TO_KEY(cells[k].addr) = key
    BY <1>1, <1>3
  <2>3. i \in DOMAIN cells /\ ADDR_TO_KEY(cells[i].addr) = key
    BY <2>2
  <2> HIDE DEF i
  <2>4. i = k
    BY <1>1, <1>3, <1>4, <2>2, <2>3
  <2> HIDE DEF key
  <2>5. Enter(m, cells)[key] = cells[i].id
    BY <1>6, <2>1 DEF i
  <2> QED
    BY <2>4, <2>5 DEF key, At
<1>9. ASSUME NEW x \in DOMAIN m, \A k \in 1 .. n : x # CellKey(At(cells, k))
      PROVE  Enter(m, cells)[x] = m[x]
  <2>1. x \notin keys
    BY <1>9 DEF keys
  <2> QED
    BY <1>6, <2>1
<1> QED
  BY <1>7, <1>8, <1>9 DEF n, keys

-----------------------------------------------------------------------------
(***************************************************************************)
(* Splitting: cells that together hold what a cell held.                   *)
(***************************************************************************)
PartsOf(c, parts) ==
    /\ parts \in Seqs(Inner) /\ Chain(parts)
    /\ \E k \in 1 .. Size(parts) : At(parts, k).addr = c.addr
    /\ \A k \in 1 .. Size(parts) :
         /\ c.addr <= At(parts, k).addr /\ EndOf(At(parts, k)) <= EndOf(c)
         /\ \A a \in Addr : Covers(At(parts, k), a) => Byte(At(parts, k), a) = Byte(c, a)
    /\ \A a \in Addr : Covers(c, a) => \E k \in 1 .. Size(parts) : Covers(At(parts, k), a)

IdsOf(l) == { At(l, k).id : k \in 1 .. Size(l) }

(* The list, its index and the store                                       *)
Good(l, m, c) == Wf(l) /\ Index(l, m) /\ Rep(l, c)

(* Replacing a cell by its parts keeps all three.                          *)
LEMMA PartedKeeps ==
    ASSUME NEW l, NEW m, NEW c, Good(l, m, c), NEW i \in 2 .. Size(l) - 1,
           NEW parts, PartsOf(At(l, i), parts),
           \A k \in 1 .. Size(parts) : At(parts, k).id = At(l, i).id \/ At(parts, k).id \notin IdsOf(l)
    PROVE  Good(Splice(l, i - 1, i + 1, parts), Enter(m, parts), c)
<1> DEFINE r == Splice(l, i - 1, i + 1, parts)
           old == At(l, i)
<1>1. Wf(l) /\ Index(l, m) /\ Rep(l, c) /\ l \in Seqs(Sound) /\ Chain(l)
  BY DEF Good, Wf
<1>2. PICK n \in Nat, z \in Nat : n = Size(l) /\ z = Size(parts)
  BY <1>1, SizeFacts DEF PartsOf
<1>3. i \in 1 .. n /\ i - 1 \in 1 .. n - 1 /\ i + 1 \in (i - 1) + 1 .. n /\ i \in Int
  BY <1>2
<1>4. old \in Inner /\ parts \in Seqs(Inner) /\ Chain(parts)
  BY <1>1, WfInner DEF PartsOf
<1>5. \A k \in 1 .. z : At(parts, k) \in Inner
  BY <1>2, <1>4, AtFacts
<1>6. \A p \in 1 .. n : At(l, p) \in Sound
  BY <1>1, <1>2, AtFacts
<1>7. ASSUME NEW k \in 1 .. z, NEW p \in 1 .. n, p # i PROVE At(parts, k).id # At(l, p).id
  <2>1. At(l, p).id \in IdsOf(l)
    BY <1>2 DEF IdsOf
  <2>2. Before(At(l, p), old) \/ Before(old, At(l, p))
    <3>1. p < i \/ i < p
      BY <1>3, <1>7
    <3> QED
      BY <1>1, <1>2, <1>3, <3>1 DEF Chain
  <2>3. At(l, p).id # old.id
    BY <2>2 DEF Before
  <2> QED
    BY <1>2, <2>1, <2>3
<1>8. ASSUME NEW k \in 1 .. z
      PROVE  old.addr <= At(parts, k).addr /\ EndOf(At(parts, k)) <= EndOf(old)
  BY <1>2 DEF PartsOf
<1> HIDE DEF old
<1>9. ASSUME NEW p \in 1 .. i - 1, NEW k \in 1 .. z PROVE Before(At(l, p), At(parts, k))
  <2>1. p \in 1 .. n /\ p # i /\ p < i
    BY <1>2, <1>3
  <2>2. EndOf(At(l, p)) <= old.addr
    BY <1>1, <1>2, <1>3, <2>1 DEF Chain, Before, old
  <2>3. EndOf(At(l, p)) \in Int /\ old.addr \in Int /\ At(parts, k).addr \in Int
    BY <1>4, <1>5, <1>6, <2>1, SoundFacts, InnerFacts
  <2>4. EndOf(At(l, p)) <= At(parts, k).addr
    BY <1>8, <2>2, <2>3
  <2> QED
    BY <1>7, <2>1, <2>4 DEF Before
<1>10. ASSUME NEW k \in 1 .. z, NEW p \in i + 1 .. n PROVE Before(At(parts, k), At(l, p))
  <2>1. p \in 1 .. n /\ p # i /\ i < p
    BY <1>2, <1>3
  <2>2. EndOf(old) <= At(l, p).addr
    BY <1>1, <1>2, <1>3, <2>1 DEF Chain, Before, old
  <2>3. EndOf(At(parts, k)) \in Int /\ EndOf(old) \in Int /\ At(l, p).addr \in Int
    BY <1>4, <1>5, <1>6, <2>1, SoundFacts, InnerFacts
  <2>4. EndOf(At(parts, k)) <= At(l, p).addr
    BY <1>8, <2>2, <2>3
  <2> QED
    BY <1>7, <2>1, <2>4 DEF Before
<1>11. Wf(r)
  BY <1>1, <1>2, <1>3, <1>4, <1>9, <1>10, SpliceWf
<1>12. Index(r, Enter(m, parts))
  <2> DEFINE m2 == Enter(m, parts)
  <2>1. /\ DOMAIN m2 = DOMAIN m \cup { CellKey(At(parts, k)) : k \in 1 .. z }
        /\ \A k \in 1 .. z : m2[CellKey(At(parts, k))] = At(parts, k).id
        /\ \A x \in DOMAIN m : (\A k \in 1 .. z : x # CellKey(At(parts, k))) => m2[x] = m[x]
    BY <1>2, <1>4, EnterFacts
  <2> HIDE DEF m2
  <2>2. PICK k \in 1 .. z : At(parts, k).addr = old.addr
    BY <1>2 DEF PartsOf, old
  <2>3. CellKey(At(parts, k)) = CellKey(old)
    <3>1. At(parts, k).id # HeadId /\ old.id # HeadId
      BY <1>4, <1>5, InnerFacts
    <3> QED
      BY <2>2, <3>1 DEF CellKey
  <2>4. { CellKey(At(l, x)) : x \in (i - 1) + 1 .. (i + 1) - 1 } = { CellKey(old) }
    <3>1. (i - 1) + 1 .. (i + 1) - 1 = {i}
      BY <1>3
    <3> QED
      BY <3>1 DEF old
  <2>5. DOMAIN m2 = (DOMAIN m \ { CellKey(At(l, x)) : x \in (i - 1) + 1 .. (i + 1) - 1 })
                    \cup { CellKey(At(parts, x)) : x \in 1 .. z }
    BY <2>1, <2>3, <2>4
  <2>6. \A x \in DOMAIN m2 : (\A y \in 1 .. z : x # CellKey(At(parts, y))) => m2[x] = m[x]
    BY <2>1
  <2>7. i - 1 \in 0 .. Size(l) /\ i + 1 \in (i - 1) + 1 .. Size(l) + 1
    BY <1>2, <1>3
  <2> HIDE DEF r
  <2>8. Wf(Splice(l, i - 1, i + 1, parts))
    BY <1>11 DEF r
  <2>9. Index(Splice(l, i - 1, i + 1, parts), m2)
    <3>1. DOMAIN m2 = (DOMAIN m \ { CellKey(At(l, x)) : x \in (i - 1) + 1 .. (i + 1) - 1 })
                      \cup { CellKey(At(parts, x)) : x \in 1 .. Size(parts) }
      BY <1>2, <2>5
    <3>2. \A x \in DOMAIN m2 : (\A y \in 1 .. Size(parts) : x # CellKey(At(parts, y))) => m2[x] = m[x]
      BY <1>2, <2>6
    <3>3. \A x \in 1 .. Size(parts) : m2[CellKey(At(parts, x))] = At(parts, x).id
      BY <1>2, <2>1
    <3> QED
      BY <1>1, <1>4, <2>7, <2>8, <3>1, <3>2, <3>3, SpliceIndex
  <2> QED
    BY <2>9 DEF r, m2
<1>13. Rep(r, c)
  <2>1. parts \in Seqs(Sound)
    BY <1>4, SeqMonotonic DEF Seqs, Sound
  <2>2. i - 1 \in 0 .. Size(l) /\ i + 1 \in (i - 1) + 1 .. Size(l) + 1
    BY <1>2, <1>3
  <2>3. ASSUME NEW k \in 1 .. Size(parts), NEW a \in Addr, Covers(At(parts, k), a)
        PROVE  c[a] = Byte(At(parts, k), a)
    <3>1. Byte(At(parts, k), a) = Byte(old, a)
      BY <2>3 DEF PartsOf, old
    <3>2. Covers(old, a)
      <4>1. a \in Int /\ old.addr \in Int /\ EndOf(old) \in Int /\ At(parts, k).addr \in Int /\ EndOf(At(parts, k)) \in Int
        BY <1>2, <1>4, <1>5, InnerFacts, Constants
      <4> QED
        BY <1>2, <1>8, <2>3, <4>1 DEF Covers
    <3>3. c[a] = Byte(old, a)
      BY <1>1, <1>2, <1>3, <3>2 DEF Rep, old
    <3> QED
      BY <3>1, <3>3
  <2>4. ASSUME NEW a \in Addr, \A k \in 1 .. Size(parts) : ~Covers(At(parts, k), a)
        PROVE  \A k \in (i - 1) + 1 .. (i + 1) - 1 : ~Covers(At(l, k), a)
    <3>1. ~Covers(old, a)
      BY <2>4 DEF PartsOf, old
    <3>2. \A k \in (i - 1) + 1 .. (i + 1) - 1 : k = i
      BY <1>3
    <3> QED
      BY <3>1, <3>2 DEF old
  <2> QED
    BY <1>1, <2>1, <2>2, <2>3, <2>4, SpliceRep
<1> QED
  BY <1>11, <1>12, <1>13 DEF Good

(* Sequences of two and of three                                           *)
LEMMA TwoFacts ==
    ASSUME NEW S, NEW x \in S, NEW y \in S
    PROVE  <<x, y>> \in Seqs(S) /\ Size(<<x, y>>) = 2 /\ At(<<x, y>>, 1) = x /\ At(<<x, y>>, 2) = y
  BY DEF Seqs, Size, At

LEMMA ThreeFacts ==
    ASSUME NEW S, NEW x \in S, NEW y \in S, NEW z \in S
    PROVE  /\ <<x, y, z>> \in Seqs(S) /\ Size(<<x, y, z>>) = 3
           /\ At(<<x, y, z>>, 1) = x /\ At(<<x, y, z>>, 2) = y /\ At(<<x, y, z>>, 3) = z
  BY DEF Seqs, Size, At

(* Parts that meet are parts of the cell: two ...                          *)
LEMMA TwoParts ==
    ASSUME NEW c \in Inner, NEW u \in Ids, NEW v \in Ids, u # v,
           u # HeadId, u # TailId, v # HeadId, v # TailId,
           NEW x \in Int, c.addr < x, x < EndOf(c)
    PROVE  LET parts == <<CutCell(c, u, c.addr, x), CutCell(c, v, x, EndOf(c))>>
           IN  /\ PartsOf(c, parts) /\ Size(parts) = 2
               /\ At(parts, 1).id = u /\ At(parts, 1).addr = c.addr /\ EndOf(At(parts, 1)) = x
               /\ At(parts, 2).id = v /\ At(parts, 2).addr = x /\ EndOf(At(parts, 2)) = EndOf(c)
<1> DEFINE p == CutCell(c, u, c.addr, x)
           q == CutCell(c, v, x, EndOf(c))
           parts == <<p, q>>
<1>1. c.addr \in Int /\ EndOf(c) \in Int
  BY InnerFacts
<1>2. /\ p \in Inner /\ p.id = u /\ p.addr = c.addr /\ EndOf(p) = x
      /\ \A a \in Addr : Covers(p, a) => Byte(p, a) = Byte(c, a)
  <2>1. c.addr <= c.addr /\ c.addr < x /\ x <= EndOf(c) /\ u # HeadId /\ u # TailId
    BY <1>1
  <2> QED
    BY <1>1, <2>1, CutFacts
<1>3. /\ q \in Inner /\ q.id = v /\ q.addr = x /\ EndOf(q) = EndOf(c)
      /\ \A a \in Addr : Covers(q, a) => Byte(q, a) = Byte(c, a)
  <2>1. c.addr <= x /\ x < EndOf(c) /\ EndOf(c) <= EndOf(c) /\ v # HeadId /\ v # TailId
    BY <1>1
  <2> QED
    BY <1>1, <2>1, CutFacts
<1> HIDE DEF p, q
<1>4. parts \in Seqs(Inner) /\ Size(parts) = 2 /\ At(parts, 1) = p /\ At(parts, 2) = q
  BY <1>2, <1>3, TwoFacts
<1> HIDE DEF parts
<1>5. \A k \in 1 .. 2 : k = 1 \/ k = 2
  OBVIOUS
<1>6. Chain(parts)
  <2>1. Before(p, q)
    BY <1>2, <1>3 DEF Before
  <2>2. \A k, n \in 1 .. 2 : k < n => k = 1 /\ n = 2
    OBVIOUS
  <2> QED
    BY <1>4, <2>1, <2>2 DEF Chain
<1>7. ASSUME NEW k \in 1 .. Size(parts)
      PROVE  /\ c.addr <= At(parts, k).addr /\ EndOf(At(parts, k)) <= EndOf(c)
             /\ \A a \in Addr : Covers(At(parts, k), a) => Byte(At(parts, k), a) = Byte(c, a)
  <2>1. CASE k = 1
    BY <1>1, <1>2, <1>4, <2>1
  <2>2. CASE k = 2
    BY <1>1, <1>3, <1>4, <2>2
  <2> QED
    BY <1>4, <1>5, <2>1, <2>2
<1>8. ASSUME NEW a \in Addr, Covers(c, a) PROVE \E k \in 1 .. Size(parts) : Covers(At(parts, k), a)
  <2>1. Covers(p, a) \/ Covers(q, a)
    BY <1>1, <1>2, <1>3, <1>8, Constants DEF Covers
  <2>2. 1 \in 1 .. 2 /\ 2 \in 1 .. 2
    OBVIOUS
  <2> QED
    BY <1>4, <2>1, <2>2
<1>9. \E k \in 1 .. Size(parts) : At(parts, k).addr = c.addr
  <2>1. 1 \in 1 .. 2
    OBVIOUS
  <2> QED
    BY <1>2, <1>4, <2>1
<1>10. PartsOf(c, parts)
  BY <1>4, <1>6, <1>7, <1>8, <1>9 DEF PartsOf
<1> QED
  BY <1>2, <1>3, <1>4, <1>10 DEF parts, p, q

(* ... or three                                                            *)
LEMMA ThreeParts ==
    ASSUME NEW c \in Inner, NEW u \in Ids, NEW v \in Ids, NEW w \in Ids, u # v, v # w, u # w,
           u # HeadId, u # TailId, v # HeadId, v # TailId, w # HeadId, w # TailId,
           NEW x \in Int, NEW y \in Int, c.addr < x, x < y, y < EndOf(c)
    PROVE  LET parts == <<CutCell(c, u, c.addr, x), CutCell(c, v, x, y), CutCell(c, w, y, EndOf(c))>>
           IN  /\ PartsOf(c, parts) /\ Size(parts) = 3
               /\ At(parts, 1).id = u /\ At(parts, 1).addr = c.addr /\ EndOf(At(parts, 1)) = x
               /\ At(parts, 2).id = v /\ At(parts, 2).addr = x /\ EndOf(At(parts, 2)) = y
               /\ At(parts, 3).id = w /\ At(parts, 3).addr = y /\ EndOf(At(parts, 3)) = EndOf(c)
<1> DEFINE p == CutCell(c, u, c.addr, x)
           q == CutCell(c, v, x, y)
           r == CutCell(c, w, y, EndOf(c))
           parts == <<p, q, r>>
<1>1. c.addr \in Int /\ EndOf(c) \in Int
  BY InnerFacts
<1>2. /\ p \in Inner /\ p.id = u /\ p.addr = c.addr /\ EndOf(p) = x
      /\ \A a \in Addr : Covers(p, a) => Byte(p, a) = Byte(c, a)
  <2>1. c.addr <= c.addr /\ c.addr < x /\ x <= EndOf(c) /\ u # HeadId /\ u # TailId
    BY <1>1
  <2> QED
    BY <1>1, <2>1, CutFacts
<1>3. /\ q \in Inner /\ q.id = v /\ q.addr = x /\ EndOf(q) = y
      /\ \A a \in Addr : Covers(q, a) => Byte(q, a) = Byte(c, a)
  <2>1. c.addr <= x /\ x < y /\ y <= EndOf(c) /\ v # HeadId /\ v # TailId
    BY <1>1
  <2> QED
    BY <1>1, <2>1, CutFacts
<1>4. /\ r \in Inner /\ r.id = w /\ r.addr = y /\ EndOf(r) = EndOf(c)
      /\ \A a \in Addr : Covers(r, a) => Byte(r, a) = Byte(c, a)
  <2>1. c.addr <= y /\ y < EndOf(c) /\ EndOf(c) <= EndOf(c) /\ w # HeadId /\ w # TailId
    BY <1>1
  <2> QED
    BY <1>1, <2>1, CutFacts
<1> HIDE DEF p, q, r
<1>5. parts \in Seqs(Inner) /\ Size(parts) = 3 /\ At(parts, 1) = p /\ At(parts, 2) = q /\ At(parts, 3) = r
  BY <1>2, <1>3, <1>4, ThreeFacts
<1> HIDE DEF parts
<1>6. \A k \in 1 .. 3 : k = 1 \/ k = 2 \/ k = 3
  OBVIOUS
<1>7. Chain(parts)
  <2>1. Before(p, q) /\ Before(q, r) /\ Before(p, r)
    BY <1>2, <1>3, <1>4 DEF Before
  <2>2. \A k, n \in 1 .. 3 : k < n => (k = 1 /\ n = 2) \/ (k = 1 /\ n = 3) \/ (k = 2 /\ n = 3)
    OBVIOUS
  <2> QED
    BY <1>5, <2>1, <2>2 DEF Chain
<1>8. ASSUME NEW k \in 1 .. Size(parts)
      PROVE  /\ c.addr <= At(parts, k).addr /\ EndOf(At(parts, k)) <= EndOf(c)
             /\ \A a \in Addr : Covers(At(parts, k), a) => Byte(At(parts, k), a) = Byte(c, a)
  <2>1. CASE k = 1
    BY <1>1, <1>2, <1>5, <2>1
  <2>2. CASE k = 2
    BY <1>1, <1>3, <1>5, <2>2
  <2>3. CASE k = 3
    BY <1>1, <1>4, <1>5, <2>3
  <2> QED
    BY <1>5, <1>6, <2>1, <2>2, <2>3
<1>9. ASSUME NEW a \in Addr, Covers(c, a) PROVE \E k \in 1 .. Size(parts) : Covers(At(parts, k), a)
  <2>1. Covers(p, a) \/ Covers(q, a) \/ Covers(r, a)
    BY <1>1, <1>2, <1>3, <1>4, <1>9, Constants DEF Covers
  <2>2. 1 \in 1 .. 3 /\ 2 \in 1 .. 3 /\ 3 \in 1 .. 3
    OBVIOUS
  <2> QED
    BY <1>5, <2>1, <2>2
<1>10. \E k \in 1 .. Size(parts) : At(parts, k).addr = c.addr
  <2>1. 1 \in 1 .. 3
    OBVIOUS
  <2> QED
    BY <1>2, <1>5, <2>1
<1>11. PartsOf(c, parts)
  BY <1>5, <1>7, <1>8, <1>9, <1>10 DEF PartsOf
<1> QED
  BY <1>2, <1>3, <1>4, <1>5, <1>11 DEF parts, p, q, r

-----------------------------------------------------------------------------
(* The walks of GetAffectedCells                                           *)

(* A set of natural numbers has a least one, which LeastOf finds.          *)
LEMMA LeastExists ==
    ASSUME NEW T, T \subseteq Nat, T # {}
    PROVE  LeastOf(T) \in T /\ \A m \in T : LeastOf(T) <= m
<1> DEFINE R == OpToRel(<, Nat)
<1>1. IsWellFoundedOn(R, Nat)
  BY NatLessThanWellFounded
<1>2. PICK x \in T : \A y \in T : ~ (<<y, x>> \in R)
  <2> HIDE DEF R
  <2> QED
    BY <1>1, WFMin
<1>3. \A y \in T : ~(y < x)
  BY <1>2 DEF OpToRel
<1>4. \A y \in T : x <= y
  BY <1>3
<1> QED
  BY <1>4 DEF LeastOf

(* Cells further on begin later, and end later.                            *)
LEMMA LaterCell ==
    ASSUME NEW l, Wf(l), NEW p \in 1 .. Size(l), NEW q \in 1 .. Size(l), p < q
    PROVE  /\ At(l, p) \in Sound /\ At(l, q) \in Sound
           /\ EndOf(At(l, p)) <= At(l, q).addr /\ At(l, p).addr < At(l, q).addr
           /\ At(l, p).id # At(l, q).id
<1>1. l \in Seqs(Sound) /\ Chain(l) /\ At(l, 1) = HeadCell /\ At(l, Size(l)) = TailCell
  BY DEF Wf
<1>2. At(l, p) \in Sound /\ At(l, q) \in Sound /\ Size(l) \in Nat
  BY <1>1, AtFacts, SizeFacts
<1>3. EndOf(At(l, p)) <= At(l, q).addr /\ At(l, p).id # At(l, q).id
  BY <1>1 DEF Chain, Before
<1>4. /\ At(l, p).addr \in Int /\ At(l, q).addr \in Int /\ EndOf(At(l, p)) \in Int
      /\ At(l, p).addr <= EndOf(At(l, p)) /\ At(l, q).addr <= EndOf(At(l, q))
  BY <1>2, SoundFacts
<1>5. CASE p = 1
  <2>1. q = Size(l) \/ q \in 2 .. Size(l) - 1
    BY <1>2, <1>5
  <2>2. CASE q = Size(l)
    BY <1>1, <1>2, <1>3, <1>5, <2>2, SentinelFacts, Constants
  <2>3. CASE q \in 2 .. Size(l) - 1
    <3>1. At(l, q) \in Inner
      BY <2>3, WfInner
    <3>2. Lo <= At(l, q).addr
      BY <3>1, InnerFacts
    <3>3. At(l, p).addr = HeadAddr
      BY <1>1, <1>5, SentinelFacts
    <3>4. At(l, p).addr < At(l, q).addr
      BY <1>4, <3>2, <3>3, Constants
    <3> QED
      BY <1>2, <1>3, <3>4
  <2> QED
    BY <2>1, <2>2, <2>3
<1>6. CASE p # 1
  <2>1. p \in 2 .. Size(l) - 1
    BY <1>2, <1>6
  <2>2. At(l, p).addr < EndOf(At(l, p))
    BY <2>1, WfInner, InnerFacts
  <2>3. At(l, p).addr < At(l, q).addr
    BY <1>3, <1>4, <2>2
  <2> QED
    BY <1>2, <1>3, <2>3
<1> QED
  BY <1>5, <1>6

(* The walk for insertAfter ends, at one cell only.                        *)
LEMMA AfterFacts ==
    ASSUME NEW l, Wf(l), NEW start \in Addr
    PROVE  /\ StopsAfter(l, start) =
                { i \in 1 .. Size(l) - 1 : At(l, i).addr < start /\ start <= At(l, i + 1).addr }
           /\ StopsAfter(l, start) # {} /\ StopsAfter(l, start) \subseteq Nat
           /\ \A i, j \in StopsAfter(l, start) : i = j
<1>1. l \in Seqs(Sound) /\ Size(l) >= 2 /\ At(l, 1) = HeadCell /\ At(l, Size(l)) = TailCell
  BY DEF Wf
<1>2. PICK n \in Nat : n = Size(l)
  BY <1>1, SizeFacts
<1>3. StopsAfter(l, start) = { i \in 1 .. n - 1 : At(l, i).addr < start /\ start <= At(l, i + 1).addr }
  BY <1>2 DEF StopsAfter, At, Size
<1>4. start \in Int /\ HeadAddr < start /\ start < TailAddr
  BY Constants
<1>5. \A i \in 1 .. n : At(l, i).addr \in Int
  BY <1>1, <1>2, AtFacts, SoundFacts
<1>6. StopsAfter(l, start) # {}
  <2> DEFINE K == { k \in 1 .. n : start <= At(l, k).addr }
  <2>1. n \in K
    <3>1. n \in 1 .. n /\ At(l, n).addr = TailAddr
      BY <1>1, <1>2, SentinelFacts
    <3>2. start <= TailAddr
      BY <1>4, Constants
    <3> QED
      BY <3>1, <3>2
  <2>2. K \subseteq Nat
    OBVIOUS
  <2>3. PICK k \in K : \A m \in K : k <= m
    BY <2>1, <2>2, LeastExists
  <2>4. k # 1
    <3>1. At(l, 1).addr = HeadAddr
      BY <1>1, SentinelFacts
    <3>2. ~(start <= HeadAddr)
      BY <1>4, Constants
    <3> QED
      BY <2>3, <3>1, <3>2
  <2>5. k \in 1 .. n /\ start <= At(l, k).addr
    BY <2>3
  <2>6. k - 1 \in 1 .. n - 1 /\ k - 1 \in 1 .. n /\ ~(k <= k - 1) /\ (k - 1) + 1 = k
    BY <2>4, <2>5
  <2>7. ~(start <= At(l, k - 1).addr)
    BY <2>3, <2>6
  <2> HIDE DEF K
  <2>8. At(l, k - 1).addr < start
    BY <1>4, <1>5, <2>6, <2>7
  <2>9. k - 1 \in StopsAfter(l, start)
    BY <1>3, <2>5, <2>6, <2>8
  <2> QED
    BY <2>9
<1>7. ASSUME NEW i \in 1 .. n - 1, NEW j \in 1 .. n - 1, i < j,
             start <= At(l, i + 1).addr, At(l, j).addr < start
      PROVE  FALSE
  <2>1. i + 1 \in 1 .. n /\ j \in 1 .. n /\ (i + 1 = j \/ i + 1 < j)
    BY <1>7
  <2>2. At(l, i + 1).addr <= At(l, j).addr
    <3>1. CASE i + 1 = j
      BY <1>5, <2>1, <3>1
    <3>2. CASE i + 1 < j
      <4>1. At(l, i + 1).addr < At(l, j).addr
        BY <1>2, <2>1, <3>2, LaterCell
      <4> QED
        BY <1>5, <2>1, <4>1
    <3> QED
      BY <2>1, <3>1, <3>2
  <2>3. At(l, i + 1).addr \in Int /\ At(l, j).addr \in Int
    BY <1>5, <2>1
  <2> QED
    BY <1>4, <1>7, <2>2, <2>3
<1>8. \A i, j \in StopsAfter(l, start) : i = j
  <2> SUFFICES ASSUME NEW i \in StopsAfter(l, start), NEW j \in StopsAfter(l, start) PROVE i = j
    OBVIOUS
  <2>1. /\ i \in 1 .. n - 1 /\ At(l, i).addr < start /\ start <= At(l, i + 1).addr
        /\ j \in 1 .. n - 1 /\ At(l, j).addr < start /\ start <= At(l, j + 1).addr
    BY <1>3
  <2>2. i = j \/ i < j \/ j < i
    BY <2>1
  <2> QED
    BY <1>7, <2>1, <2>2
<1>9. StopsAfter(l, start) \subseteq Nat
  BY <1>3
<1> QED
  BY <1>2, <1>3, <1>6, <1>8, <1>9

(* The walk for insertBefore ends, from any cell that ends early enough.   *)
LEMMA BeforeFacts ==
    ASSUME NEW l, Wf(l), NEW from \in 1 .. Size(l) - 1, NEW end \in Int, end <= Hi + 1,
           EndOf(At(l, from)) <= end
    PROVE  /\ StopsBefore(l, from, end) =
                { j \in from .. Size(l) - 1 : EndOf(At(l, j)) <= end /\ end < EndOf(At(l, j + 1)) }
           /\ StopsBefore(l, from, end) # {} /\ StopsBefore(l, from, end) \subseteq Nat
<1>1. l \in Seqs(Sound) /\ At(l, Size(l)) = TailCell
  BY DEF Wf
<1>2. PICK n \in Nat : n = Size(l)
  BY <1>1, SizeFacts
<1>3. StopsBefore(l, from, end) = { j \in from .. n - 1 : EndOf(At(l, j)) <= end /\ end < EndOf(At(l, j + 1)) }
  BY <1>2 DEF StopsBefore, At, Size
<1>4. \A i \in 1 .. n : EndOf(At(l, i)) \in Int
  BY <1>1, <1>2, AtFacts, SoundFacts
<1>5. from \in 1 .. n - 1
  BY <1>2
<1>6. StopsBefore(l, from, end) # {}
  <2> DEFINE K == { k \in from .. n : end < EndOf(At(l, k)) }
  <2>1. n \in K
    <3>1. n \in from .. n /\ EndOf(At(l, n)) = TailAddr
      BY <1>1, <1>2, <1>5, SentinelFacts
    <3>2. end < TailAddr
      BY Constants
    <3> QED
      BY <3>1, <3>2
  <2>2. K \subseteq Nat
    BY <1>5
  <2>3. PICK k \in K : \A m \in K : k <= m
    BY <2>1, <2>2, LeastExists
  <2>4. k \in from .. n /\ end < EndOf(At(l, k))
    BY <2>3
  <2>5. k # from
    <3>1. EndOf(At(l, from)) \in Int
      BY <1>4, <1>5
    <3>2. ~(end < EndOf(At(l, from)))
      BY <3>1
    <3> QED
      BY <2>4, <3>2
  <2>6. k - 1 \in from .. n - 1 /\ k - 1 \in from .. n /\ k - 1 \in 1 .. n /\ ~(k <= k - 1) /\ (k - 1) + 1 = k
    BY <1>5, <2>4, <2>5
  <2>7. ~(end < EndOf(At(l, k - 1)))
    BY <2>3, <2>6
  <2> HIDE DEF K
  <2>8. EndOf(At(l, k - 1)) <= end
    BY <1>4, <2>6, <2>7
  <2>9. k - 1 \in StopsBefore(l, from, end)
    BY <1>3, <2>4, <2>6, <2>8
  <2> QED
    BY <2>9
<1>7. StopsBefore(l, from, end) \subseteq Nat
  BY <1>3, <1>5
<1> QED
  BY <1>2, <1>3, <1>6, <1>7

(* m_sm leads to the cell that begins at the address.                      *)
LEMMA HitFacts ==
    ASSUME NEW l, NEW m, Wf(l), Index(l, m), NEW start \in Addr, ADDR_TO_KEY(start) \in DOMAIN m
    PROVE  LET p == PosOf(l, m[ADDR_TO_KEY(start)])
           IN  /\ p - 1 \in 1 .. Size(l) - 1 /\ p \in 1 .. Size(l) /\ At(l, p).addr = start
               /\ At(l, p - 1).addr < start /\ EndOf(At(l, p - 1)) <= start
<1> DEFINE key == ADDR_TO_KEY(start)
<1>1. l \in Seqs(Sound) /\ Size(l) >= 2 /\ At(l, 1) = HeadCell /\ At(l, Size(l)) = TailCell
  BY DEF Wf
<1>2. PICK n \in Nat : n = Size(l)
  BY <1>1, SizeFacts
<1>3. DOMAIN l = 1 .. n
  BY <1>1, <1>2, DomFacts
<1>4. start \in Int
  BY Constants
<1>5. key # HeadKey /\ key # ADDR_TO_KEY(TailAddr)
  BY <1>4, KeyRange, AddrAssumption
<1> HIDE DEF key
<1>6. PICK p \in 1 .. n : key = CellKey(At(l, p)) /\ m[key] = At(l, p).id
  <2>1. key \in DOMAIN m
    BY DEF key
  <2> QED
    BY <1>2, <2>1 DEF Index
<1>7. p # 1 /\ p # n
  <2>1. CellKey(HeadCell) = HeadKey /\ CellKey(TailCell) = ADDR_TO_KEY(TailAddr)
    BY SentinelFacts DEF CellKey
  <2> QED
    BY <1>1, <1>2, <1>5, <1>6, <2>1
<1>8. At(l, p) \in Inner
  <2>1. p \in 2 .. Size(l) - 1
    BY <1>2, <1>7
  <2> QED
    BY <2>1, WfInner
<1>9. At(l, p).addr = start
  <2>1. At(l, p).addr \in Addr /\ At(l, p).id # HeadId
    BY <1>8, InnerFacts
  <2>2. ADDR_TO_KEY(At(l, p).addr) = ADDR_TO_KEY(start)
    BY <1>6, <2>1 DEF CellKey, key
  <2> QED
    BY <2>1, <2>2, AddrAssumption
<1>10. PosOf(l, m[key]) = p
  <2>1. ASSUME NEW q \in 1 .. n, At(l, q).id = At(l, p).id PROVE q = p
    <3>1. q = p \/ q < p \/ p < q
      OBVIOUS
    <3> QED
      BY <1>2, <2>1, <3>1, LaterCell
  <2>2. PosOf(l, m[key]) = CHOOSE i \in 1 .. n : At(l, i).id = At(l, p).id
    BY <1>3, <1>6 DEF PosOf, At
  <2>3. \E i \in 1 .. n : At(l, i).id = At(l, p).id
    OBVIOUS
  <2> QED
    BY <2>1, <2>2, <2>3
<1>11. p - 1 \in 1 .. n - 1 /\ p - 1 \in 1 .. n /\ p - 1 < p
  BY <1>7
<1>12. EndOf(At(l, p - 1)) <= start /\ At(l, p - 1).addr < start
  BY <1>2, <1>9, <1>11, LaterCell
<1> QED
  BY <1>2, <1>9, <1>10, <1>11, <1>12 DEF key

(* The cell from which the walk for insertBefore starts                    *)
FromPos(l, m, start) ==
    IF ADDR_TO_KEY(start) \in DOMAIN m THEN PosOf(l, m[ADDR_TO_KEY(start)]) - 1 ELSE 1

LEMMA FromFacts ==
    ASSUME NEW l, NEW m, Wf(l), Index(l, m), NEW start \in Addr
    PROVE  /\ FromPos(l, m, start) \in 1 .. Size(l) - 1
           /\ EndOf(At(l, FromPos(l, m, start))) <= start
           /\ ADDR_TO_KEY(start) \in DOMAIN m => StopsAfter(l, start) = {FromPos(l, m, start)}
<1> DEFINE f == FromPos(l, m, start)
<1>1. l \in Seqs(Sound) /\ Size(l) >= 2 /\ At(l, 1) = HeadCell
  BY DEF Wf
<1>2. PICK n \in Nat : n = Size(l) /\ n >= 2
  BY <1>1, SizeFacts
<1>3. CASE ADDR_TO_KEY(start) \in DOMAIN m
  <2>1. PICK p : p = PosOf(l, m[ADDR_TO_KEY(start)])
    OBVIOUS
  <2>2. /\ p - 1 \in 1 .. Size(l) - 1 /\ p \in 1 .. Size(l) /\ At(l, p).addr = start
        /\ At(l, p - 1).addr < start /\ EndOf(At(l, p - 1)) <= start
    BY <1>3, <2>1, HitFacts
  <2>3. f = p - 1
    BY <1>3, <2>1 DEF FromPos
  <2>4. (p - 1) + 1 = p /\ start <= start
    BY <1>2, <2>2, Constants
  <2>5. p - 1 \in { i \in 1 .. Size(l) - 1 : At(l, i).addr < start /\ start <= At(l, i + 1).addr }
    BY <2>2, <2>4
  <2>6. p - 1 \in StopsAfter(l, start)
    BY <2>5, AfterFacts
  <2>7. StopsAfter(l, start) = {p - 1}
    BY <2>6, AfterFacts
  <2> QED
    BY <2>2, <2>3, <2>7
<1>4. CASE ADDR_TO_KEY(start) \notin DOMAIN m
  <2>1. f = 1 /\ 1 \in 1 .. n - 1
    BY <1>2, <1>4 DEF FromPos
  <2>2. EndOf(At(l, 1)) = HeadAddr /\ HeadAddr <= start
    BY <1>1, SentinelFacts, Constants
  <2> QED
    BY <1>2, <1>4, <2>1, <2>2
<1> QED
  BY <1>3, <1>4

(* The two cells that GetAffectedCells finds                               *)
Around(l, start, end, after, before) ==
    /\ after \in 1 .. Size(l) - 1 /\ before \in 2 .. Size(l) /\ after <= before
    /\ At(l, after).addr < start /\ start <= At(l, after + 1).addr
    /\ EndOf(At(l, before - 1)) <= end /\ end < EndOf(At(l, before))

LEMMA AffectedFacts ==
    ASSUME Wf(list), Index(list, m_sm), NEW start \in Addr, NEW end \in Int, start < end, end <= Hi + 1
    PROVE  \E after, before :
              /\ Around(list, start, end, after, before)
              /\ GetAffectedCells(start, end)
                   = [list |-> list, m_sm |-> m_sm, after |-> after, before |-> before]
<1>1. list \in Seqs(Sound)
  BY DEF Wf
<1>2. PICK n \in Nat : n = Size(list)
  BY <1>1, SizeFacts
<1>3. PICK f : f = FromPos(list, m_sm, start)
  OBVIOUS
<1>4. /\ f \in 1 .. n - 1 /\ EndOf(At(list, f)) <= start
      /\ ADDR_TO_KEY(start) \in DOMAIN m_sm => StopsAfter(list, start) = {f}
  BY <1>2, <1>3, FromFacts
<1>5. start \in Int
  BY Constants
<1>6. \A i \in 1 .. n : EndOf(At(list, i)) \in Int /\ At(list, i).addr \in Int
  BY <1>1, <1>2, AtFacts, SoundFacts
<1>7. EndOf(At(list, f)) <= end
  <2>1. EndOf(At(list, f)) \in Int
    BY <1>4, <1>6
  <2> QED
    BY <1>4, <1>5, <2>1
<1>8. PICK after : after = IF ADDR_TO_KEY(start) \in DOMAIN m_sm THEN f ELSE LeastOf(StopsAfter(list, start))
  OBVIOUS
<1>9. after \in StopsAfter(list, start)
  <2>1. LeastOf(StopsAfter(list, start)) \in StopsAfter(list, start)
    BY AfterFacts, LeastExists
  <2> QED
    BY <1>4, <1>8, <2>1
<1>10. after \in 1 .. n - 1 /\ At(list, after).addr < start /\ start <= At(list, after + 1).addr
  BY <1>2, <1>9, AfterFacts
<1>11. PICK j : j = LeastOf(StopsBefore(list, f, end))
  OBVIOUS
<1>12. j \in StopsBefore(list, f, end)
  BY <1>2, <1>4, <1>7, <1>11, BeforeFacts, LeastExists
<1>13. j \in f .. n - 1 /\ EndOf(At(list, j)) <= end /\ end < EndOf(At(list, j + 1))
  BY <1>2, <1>4, <1>7, <1>12, BeforeFacts
<1>14. j + 1 \in 2 .. n /\ (j + 1) - 1 = j /\ j + 1 \in 1 .. n /\ after \in 1 .. n
  BY <1>4, <1>10, <1>13
<1>15. after <= j + 1
  <2> SUFFICES ASSUME j + 1 < after PROVE FALSE
    BY <1>10, <1>14
  <2>1. EndOf(At(list, j + 1)) <= At(list, after).addr
    BY <1>2, <1>14, LaterCell
  <2>2. EndOf(At(list, j + 1)) \in Int /\ At(list, after).addr \in Int
    BY <1>6, <1>14
  <2> QED
    BY <1>5, <1>10, <1>13, <2>1, <2>2
<1>16. GetAffectedCells(start, end) = [list |-> list, m_sm |-> m_sm, after |-> after, before |-> j + 1]
  BY <1>3, <1>8, <1>11 DEF GetAffectedCells, FromPos
<1>17. Around(list, start, end, after, j + 1)
  BY <1>2, <1>10, <1>13, <1>14, <1>15 DEF Around
<1> QED
  BY <1>16, <1>17

-----------------------------------------------------------------------------
(* New cells                                                               *)

(* The bound on cells, as Next states it                                   *)
Room == \A a \in Addr : FreeIds(a) \ {NewCell(a)} # {}

(* What `new` returns is no cell of the list.                              *)
LEMMA NewFacts ==
    ASSUME Room, NEW a \in Addr
    PROVE  \A id \in {NewCell(a), NewPart(a)} :
              /\ id \in Ids /\ id # HeadId /\ id # TailId /\ id[1] = a
              /\ list \in Seqs(Sound) => id \notin IdsOf(list)
<1>1. FreeIds(a) \ {NewCell(a)} # {}
  BY DEF Room
<1>2. NewCell(a) \in FreeIds(a)
  BY <1>1 DEF NewCell
<1>3. NewPart(a) \in FreeIds(a)
  BY <1>1 DEF NewPart
<1> SUFFICES ASSUME NEW id \in FreeIds(a)
             PROVE  /\ id \in Ids /\ id # HeadId /\ id # TailId /\ id[1] = a
                    /\ list \in Seqs(Sound) => id \notin IdsOf(list)
  BY <1>2, <1>3
<1>4. PICK t \in 0 .. MaxId : id = <<a, t>>
  BY DEF FreeIds
<1>5. id \in Ids /\ id[1] = a
  BY <1>4 DEF Ids
<1>6. a # HeadAddr /\ a # TailAddr
  BY Constants
<1>7. id # HeadId /\ id # TailId
  BY <1>4, <1>6 DEF HeadId, TailId
<1>8. ASSUME list \in Seqs(Sound) PROVE id \notin IdsOf(list)
  <2>1. DOMAIN list = 1 .. Size(list)
    BY <1>8, DomFacts
  <2>2. id \notin { list[i].id : i \in DOMAIN list }
    BY DEF FreeIds
  <2> QED
    BY <2>1, <2>2 DEF IdsOf, At
<1> QED
  BY <1>5, <1>7, <1>8

(* Another address, another cell; and the split's cell is not the caller's *)
LEMMA NewDistinct ==
    ASSUME Room, NEW a \in Addr, NEW b \in Addr
    PROVE  /\ a # b => NewPart(a) # NewPart(b) /\ NewCell(a) # NewCell(b)
           /\ NewCell(a) # NewPart(b)
<1>1. NewCell(a)[1] = a /\ NewPart(a)[1] = a /\ NewCell(b)[1] = b /\ NewPart(b)[1] = b
  BY NewFacts
<1>2. FreeIds(a) \ {NewCell(a)} # {}
  BY DEF Room
<1>3. NewPart(a) # NewCell(a)
  BY <1>2 DEF NewPart
<1> QED
  BY <1>1, <1>3

(* The ids after a splice                                                  *)
LEMMA SpliceIds ==
    ASSUME NEW S, NEW l \in Seqs(S), NEW mid \in Seqs(S),
           NEW i \in 0 .. Size(l), NEW j \in i + 1 .. Size(l) + 1
    PROVE  IdsOf(Splice(l, i, j, mid)) \subseteq IdsOf(l) \cup IdsOf(mid)
<1> DEFINE r == Splice(l, i, j, mid)
<1> SUFFICES ASSUME NEW q \in 1 .. Size(r) PROVE At(r, q).id \in IdsOf(l) \cup IdsOf(mid)
  BY DEF IdsOf
<1>1. Size(l) \in Nat
  BY SizeFacts
<1>2. \/ q \in 1 .. i /\ At(r, q) = At(l, q)
      \/ \E k \in 1 .. Size(mid) : q = i + k /\ At(r, q) = At(mid, k)
      \/ \E k \in j .. Size(l) : q = (i + Size(mid)) + (k - j + 1) /\ At(r, q) = At(l, k)
  BY SplicePlaces
<1>3. (q \in 1 .. i => q \in 1 .. Size(l)) /\ \A k \in j .. Size(l) : k \in 1 .. Size(l)
  BY <1>1
<1> HIDE DEF r
<1> QED
  BY <1>2, <1>3 DEF IdsOf

-----------------------------------------------------------------------------
(***************************************************************************)
(* Splitting opens the list at the two ends of the range: the cell at      *)
(* `after` ends before it, the one at `before` begins behind it, and all   *)
(* that is between the two is inside.                                      *)
(***************************************************************************)
Half(l, start, end, after, before) ==
    /\ after \in 1 .. Size(l) - 1 /\ before \in after + 1 .. Size(l)
    /\ EndOf(At(l, after)) <= start /\ start <= At(l, after + 1).addr
    /\ EndOf(At(l, before - 1)) <= end /\ end < EndOf(At(l, before))

Open(l, start, end, after, before) ==
    /\ after \in 1 .. Size(l) - 1 /\ before \in after + 1 .. Size(l)
    /\ EndOf(At(l, after)) <= start /\ start <= At(l, after + 1).addr
    /\ EndOf(At(l, before - 1)) <= end /\ end <= At(l, before).addr

(* A list under work                                                       *)
Work(l, m, after, before) == [list |-> l, m_sm |-> m, after |-> after, before |-> before]

(* The neighbours of a spliced cell                                        *)
LEMMA PartedPlaces ==
    ASSUME NEW l, Wf(l), NEW i \in 2 .. Size(l) - 1, NEW parts, PartsOf(At(l, i), parts)
    PROVE  LET r == Splice(l, i - 1, i + 1, parts)
           IN  /\ Size(r) = Size(l) + Size(parts) - 1
               /\ \A k \in 1 .. i - 1 : At(r, k) = At(l, k)
               /\ \A k \in 1 .. Size(parts) : At(r, (i - 1) + k) = At(parts, k)
               /\ \A k \in i + 1 .. Size(l) : At(r, k + Size(parts) - 1) = At(l, k)
               /\ IdsOf(r) \subseteq IdsOf(l) \cup IdsOf(parts)
<1> DEFINE r == Splice(l, i - 1, i + 1, parts)
<1>1. l \in Seqs(Sound) /\ parts \in Seqs(Inner)
  BY DEF Wf, PartsOf
<1>2. parts \in Seqs(Sound)
  BY <1>1, SeqMonotonic DEF Seqs, Sound
<1>3. PICK n \in Nat, z \in Nat : n = Size(l) /\ z = Size(parts)
  BY <1>1, SizeFacts
<1>4. i - 1 \in 0 .. Size(l) /\ i + 1 \in (i - 1) + 1 .. Size(l) + 1 /\ i \in Int
  BY <1>3
<1>5. /\ Size(r) = ((i - 1) + z) + (n - (i + 1) + 1)
      /\ \A k \in 1 .. i - 1 : At(r, k) = At(l, k)
      /\ \A k \in 1 .. z : At(r, (i - 1) + k) = At(parts, k)
      /\ \A k \in i + 1 .. n : At(r, ((i - 1) + z) + (k - (i + 1) + 1)) = At(l, k)
  BY <1>1, <1>2, <1>3, <1>4, SpliceFacts
<1>6. IdsOf(r) \subseteq IdsOf(l) \cup IdsOf(parts)
  BY <1>1, <1>2, <1>4, SpliceIds
<1> HIDE DEF r
<1>7. Size(r) = n + z - 1
  BY <1>4, <1>5
<1>8. ASSUME NEW k \in i + 1 .. n PROVE At(r, k + z - 1) = At(l, k)
  <2>1. ((i - 1) + z) + (k - (i + 1) + 1) = k + z - 1
    BY <1>4
  <2> QED
    BY <1>5, <2>1
<1> QED
  BY <1>3, <1>5, <1>6, <1>7, <1>8 DEF r

(* A cell that is cut in two                                               *)
LEMMA CutInTwo ==
    ASSUME NEW l, NEW m, NEW c, Good(l, m, c), NEW i \in 2 .. Size(l) - 1,
           NEW u \in Ids, NEW v \in Ids, u # v, u # HeadId, u # TailId, v # HeadId, v # TailId,
           u = At(l, i).id \/ u \notin IdsOf(l), v = At(l, i).id \/ v \notin IdsOf(l),
           NEW x \in Int, At(l, i).addr < x, x < EndOf(At(l, i)),
           NEW parts, parts = <<CutCell(At(l, i), u, At(l, i).addr, x), CutCell(At(l, i), v, x, EndOf(At(l, i)))>>
    PROVE  LET r == Splice(l, i - 1, i + 1, parts)
           IN  /\ Good(r, Enter(m, parts), c) /\ Size(r) = Size(l) + 1
               /\ \A k \in 1 .. i - 1 : At(r, k) = At(l, k)
               /\ At(r, i).addr = At(l, i).addr /\ EndOf(At(r, i)) = x
               /\ At(r, i + 1).addr = x /\ EndOf(At(r, i + 1)) = EndOf(At(l, i))
               /\ \A k \in i + 1 .. Size(l) : At(r, k + 1) = At(l, k)
               /\ IdsOf(r) \subseteq IdsOf(l) \cup {u, v}
<1> DEFINE r == Splice(l, i - 1, i + 1, parts)
           old == At(l, i)
<1>1. Wf(l) /\ l \in Seqs(Sound)
  BY DEF Good, Wf
<1>2. old \in Inner
  BY <1>1, WfInner
<1>3. PICK n \in Nat : n = Size(l)
  BY <1>1, SizeFacts
<1>4. /\ PartsOf(old, parts) /\ Size(parts) = 2
      /\ At(parts, 1).id = u /\ At(parts, 1).addr = old.addr /\ EndOf(At(parts, 1)) = x
      /\ At(parts, 2).id = v /\ At(parts, 2).addr = x /\ EndOf(At(parts, 2)) = EndOf(old)
  BY <1>2, TwoParts
<1>5. \A k \in 1 .. 2 : k = 1 \/ k = 2
  OBVIOUS
<1>6. \A k \in 1 .. Size(parts) : At(parts, k).id = old.id \/ At(parts, k).id \notin IdsOf(l)
  BY <1>4, <1>5
<1>7. Good(r, Enter(m, parts), c)
  BY <1>4, <1>6, PartedKeeps
<1>8. /\ Size(r) = Size(l) + Size(parts) - 1
      /\ \A k \in 1 .. i - 1 : At(r, k) = At(l, k)
      /\ \A k \in 1 .. Size(parts) : At(r, (i - 1) + k) = At(parts, k)
      /\ \A k \in i + 1 .. Size(l) : At(r, k + Size(parts) - 1) = At(l, k)
      /\ IdsOf(r) \subseteq IdsOf(l) \cup IdsOf(parts)
  BY <1>1, <1>4, PartedPlaces
<1>9. IdsOf(parts) \subseteq {u, v}
  BY <1>4, <1>5 DEF IdsOf
<1> HIDE DEF r, old
<1>10. Size(r) = Size(l) + 1
  BY <1>3, <1>4, <1>8
<1>11. At(r, i) = At(parts, 1) /\ At(r, i + 1) = At(parts, 2)
  <2>1. (i - 1) + 1 = i /\ (i - 1) + 2 = i + 1 /\ 1 \in 1 .. 2 /\ 2 \in 1 .. 2
    BY <1>3
  <2> QED
    BY <1>4, <1>8, <2>1
<1>12. ASSUME NEW k \in i + 1 .. Size(l) PROVE At(r, k + 1) = At(l, k)
  <2>1. k + 2 - 1 = k + 1
    BY <1>3
  <2> QED
    BY <1>4, <1>8, <2>1
<1> QED
  BY <1>4, <1>7, <1>8, <1>9, <1>10, <1>11, <1>12 DEF r, old

(* A cell that is cut in three                                             *)
LEMMA CutInThree ==
    ASSUME NEW l, NEW m, NEW c, Good(l, m, c), NEW i \in 2 .. Size(l) - 1,
           NEW u \in Ids, NEW v \in Ids, NEW w \in Ids, u # v, v # w, u # w,
           u # HeadId, u # TailId, v # HeadId, v # TailId, w # HeadId, w # TailId,
           u = At(l, i).id, v \notin IdsOf(l), w \notin IdsOf(l),
           NEW x \in Int, NEW y \in Int, At(l, i).addr < x, x < y, y < EndOf(At(l, i)),
           NEW parts, parts = <<CutCell(At(l, i), u, At(l, i).addr, x), CutCell(At(l, i), v, x, y),
                                CutCell(At(l, i), w, y, EndOf(At(l, i)))>>
    PROVE  LET r == Splice(l, i - 1, i + 1, parts)
           IN  /\ Good(r, Enter(m, parts), c) /\ Size(r) = Size(l) + 2
               /\ EndOf(At(r, i)) = x /\ At(r, i + 1).addr = x
               /\ EndOf(At(r, i + 1)) = y /\ At(r, i + 2).addr = y
               /\ IdsOf(r) \subseteq IdsOf(l) \cup {v, w}
<1> DEFINE r == Splice(l, i - 1, i + 1, parts)
           old == At(l, i)
<1>1. Wf(l) /\ l \in Seqs(Sound)
  BY DEF Good, Wf
<1>2. old \in Inner
  BY <1>1, WfInner
<1>3. PICK n \in Nat : n = Size(l)
  BY <1>1, SizeFacts
<1>4. /\ PartsOf(old, parts) /\ Size(parts) = 3
      /\ At(parts, 1).id = u /\ EndOf(At(parts, 1)) = x
      /\ At(parts, 2).id = v /\ At(parts, 2).addr = x /\ EndOf(At(parts, 2)) = y
      /\ At(parts, 3).id = w /\ At(parts, 3).addr = y
  BY <1>2, ThreeParts
<1>5. \A k \in 1 .. 3 : k = 1 \/ k = 2 \/ k = 3
  OBVIOUS
<1>6. \A k \in 1 .. Size(parts) : At(parts, k).id = old.id \/ At(parts, k).id \notin IdsOf(l)
  BY <1>4, <1>5
<1>7. Good(r, Enter(m, parts), c)
  BY <1>4, <1>6, PartedKeeps
<1>8. /\ Size(r) = Size(l) + Size(parts) - 1
      /\ \A k \in 1 .. Size(parts) : At(r, (i - 1) + k) = At(parts, k)
      /\ IdsOf(r) \subseteq IdsOf(l) \cup IdsOf(parts)
  BY <1>1, <1>4, PartedPlaces
<1>9. IdsOf(parts) \subseteq {u, v, w}
  BY <1>4, <1>5 DEF IdsOf
<1>10. u \in IdsOf(l)
  <2>1. i \in 1 .. Size(l)
    BY <1>3
  <2> QED
    BY <2>1 DEF IdsOf
<1> HIDE DEF r, old
<1>11. Size(r) = Size(l) + 2
  BY <1>3, <1>4, <1>8
<1>12. At(r, i) = At(parts, 1) /\ At(r, i + 1) = At(parts, 2) /\ At(r, i + 2) = At(parts, 3)
  <2>1. (i - 1) + 1 = i /\ (i - 1) + 2 = i + 1 /\ (i - 1) + 3 = i + 2 /\ 1 \in 1 .. 3 /\ 2 \in 1 .. 3 /\ 3 \in 1 .. 3
    BY <1>3
  <2> QED
    BY <1>4, <1>8, <2>1
<1> QED
  BY <1>4, <1>7, <1>8, <1>9, <1>10, <1>11, <1>12 DEF r

(* A cell that reaches into the range of addresses is no sentinel.         *)
LEMMA NoSentinel ==
    ASSUME NEW l, Wf(l), NEW i \in 1 .. Size(l), NEW x \in Int, NEW y \in Int,
           Lo <= x, x < EndOf(At(l, i)), y <= Hi + 1, At(l, i).addr < y
    PROVE  i \in 2 .. Size(l) - 1
<1>1. l \in Seqs(Sound) /\ At(l, 1) = HeadCell /\ At(l, Size(l)) = TailCell
  BY DEF Wf
<1>2. Size(l) \in Nat
  BY <1>1, SizeFacts
<1>3. i # 1
  <2>1. ~(x < HeadAddr)
    BY Constants
  <2> QED
    BY <1>1, <2>1, SentinelFacts
<1>4. i # Size(l)
  <2>1. ~(TailAddr < y)
    BY Constants
  <2> QED
    BY <1>1, <2>1, SentinelFacts
<1> QED
  BY <1>2, <1>3, <1>4

Parts == { NewPart(a) : a \in Addr }

(* SplitCell3                                                              *)
LEMMA SplitThree ==
    ASSUME Good(list, m_sm, content), Room, NEW start \in Addr, NEW end \in Int, start < end, end <= Hi + 1,
           NEW at, Around(list, start, end, at, at)
    PROVE  \E l, m : /\ SplitCell3(Work(list, m_sm, at, at), start, end, FALSE) = Work(l, m, at, at + 2)
                     /\ Good(l, m, content) /\ Open(l, start, end, at, at + 2)
                     /\ IdsOf(l) \subseteq IdsOf(list) \cup Parts
<1> DEFINE c == At(list, at)
           u == NewPart(start)
           w == NewPart(end)
           parts == <<CutCell(c, c.id, c.addr, start), CutCell(c, u, start, end), CutCell(c, w, end, EndOf(c))>>
           l == Splice(list, at - 1, at + 1, parts)
           m == Enter(m_sm, parts)
<1>1. Wf(list) /\ list \in Seqs(Sound)
  BY DEF Good, Wf
<1>2. PICK n \in Nat : n = Size(list)
  BY <1>1, SizeFacts
<1>3. at \in 1 .. n - 1 /\ at \in 1 .. n /\ c.addr < start /\ end < EndOf(c)
  BY <1>2 DEF Around
<1>4. start \in Int /\ Lo <= start /\ Lo <= end
  BY Constants DEF Addr
<1>5. at \in 2 .. Size(list) - 1
  <2>1. c.addr \in Int /\ EndOf(c) \in Int
    BY <1>1, <1>2, <1>3, AtFacts, SoundFacts
  <2>2. c.addr < end /\ at \in 1 .. Size(list)
    BY <1>2, <1>3, <1>4, <2>1
  <2> QED
    BY <1>1, <1>3, <1>4, <2>2, NoSentinel
<1>6. c \in Inner
  BY <1>1, <1>5, WfInner
<1>7. end \in Addr
  <2>1. EndOf(c) <= Hi + 1 /\ EndOf(c) \in Int
    BY <1>6, InnerFacts
  <2>2. end <= Hi
    BY <1>3, <2>1, Constants
  <2> QED
    BY <1>4, <2>2 DEF Addr
<1>8. /\ u \in Ids /\ u # HeadId /\ u # TailId /\ u \notin IdsOf(list)
      /\ w \in Ids /\ w # HeadId /\ w # TailId /\ w \notin IdsOf(list)
  BY <1>1, <1>7, NewFacts
<1>9. u # w
  <2>1. start # end
    BY <1>4
  <2> QED
    BY <1>7, <2>1, NewDistinct
<1>10. c.id \in Ids /\ c.id # HeadId /\ c.id # TailId /\ c.id \in IdsOf(list)
  <2>1. at \in 1 .. Size(list)
    BY <1>2, <1>3
  <2> QED
    BY <1>6, <2>1, InnerFacts DEF IdsOf
<1>11. SplitCell3(Work(list, m_sm, at, at), start, end, FALSE) = Work(l, m, at, at + 2)
  BY DEF SplitCell3, Parted, Work, At
<1>12. u \in Parts /\ w \in Parts
  BY <1>7 DEF Parts
<1> HIDE DEF u, w
<1>13. /\ Good(l, m, content) /\ Size(l) = Size(list) + 2
       /\ EndOf(At(l, at)) = start /\ At(l, at + 1).addr = start
       /\ EndOf(At(l, at + 1)) = end /\ At(l, at + 2).addr = end
       /\ IdsOf(l) \subseteq IdsOf(list) \cup {u, w}
  <2>1. c.id # u /\ u # w /\ c.id # w
    BY <1>8, <1>9, <1>10
  <2>2. c.addr < start /\ start < end /\ end < EndOf(c) /\ start \in Int
    BY <1>3, <1>4
  <2>3. \E z : z = parts
    OBVIOUS
  <2> QED
    BY <1>5, <1>8, <1>10, <2>1, <2>2, CutInThree
<1> HIDE DEF l, m, parts
<1>14. Open(l, start, end, at, at + 2)
  <2>1. at \in 1 .. Size(l) - 1 /\ at + 2 \in at + 1 .. Size(l) /\ (at + 2) - 1 = at + 1
    BY <1>2, <1>3, <1>13
  <2>2. start <= start /\ end <= end
    BY <1>4
  <2> QED
    BY <1>13, <2>1, <2>2 DEF Open
<1> QED
  BY <1>11, <1>12, <1>13, <1>14

(* SeplitCell_Head                                                         *)
LEMMA SplitHead ==
    ASSUME Good(list, m_sm, content), Room, NEW start \in Addr, NEW end \in Int, start < end, end <= Hi + 1,
           NEW after, NEW before, Around(list, start, end, after, before), after < before,
           start < EndOf(At(list, after))
    PROVE  \E l, m : /\ SeplitCell_Head(Work(list, m_sm, after, before), start, FALSE)
                          = Work(l, m, after, before + 1)
                     /\ Good(l, m, content) /\ Half(l, start, end, after, before + 1)
                     /\ IdsOf(l) \subseteq IdsOf(list) \cup {NewPart(start)}
                     /\ start < At(l, before + 1).addr
<1> DEFINE c == At(list, after)
           u == NewPart(start)
           parts == <<CutCell(c, c.id, c.addr, start), CutCell(c, u, start, EndOf(c))>>
           l == Splice(list, after - 1, after + 1, parts)
           m == Enter(m_sm, parts)
<1>1. Wf(list) /\ list \in Seqs(Sound)
  BY DEF Good, Wf
<1>2. PICK n \in Nat : n = Size(list)
  BY <1>1, SizeFacts
<1>3. /\ after \in 1 .. n - 1 /\ after \in 1 .. n /\ before \in 2 .. n /\ before \in after + 1 .. n
      /\ c.addr < start /\ EndOf(At(list, before - 1)) <= end /\ end < EndOf(At(list, before))
  BY <1>2 DEF Around
<1>4. start \in Int /\ Lo <= start /\ start <= Hi + 1
  BY Constants DEF Addr
<1>5. after \in 2 .. Size(list) - 1
  BY <1>1, <1>2, <1>3, <1>4, NoSentinel
<1>6. c \in Inner
  BY <1>1, <1>5, WfInner
<1>7. u \in Ids /\ u # HeadId /\ u # TailId /\ u \notin IdsOf(list)
  BY <1>1, NewFacts
<1>8. c.id \in Ids /\ c.id # HeadId /\ c.id # TailId /\ c.id \in IdsOf(list)
  <2>1. after \in 1 .. Size(list)
    BY <1>2, <1>3
  <2> QED
    BY <1>6, <2>1, InnerFacts DEF IdsOf
<1>9. SeplitCell_Head(Work(list, m_sm, after, before), start, FALSE) = Work(l, m, after, before + 1)
  BY DEF SeplitCell_Head, Parted, Work, At
<1> HIDE DEF u
<1>10. /\ Good(l, m, content) /\ Size(l) = Size(list) + 1
       /\ EndOf(At(l, after)) = start
       /\ At(l, after + 1).addr = start /\ EndOf(At(l, after + 1)) = EndOf(c)
       /\ \A k \in after + 1 .. Size(list) : At(l, k + 1) = At(list, k)
       /\ IdsOf(l) \subseteq IdsOf(list) \cup {c.id, u}
  <2>1. c.id # u
    BY <1>7, <1>8
  <2>2. c.addr < start /\ start < EndOf(c) /\ start \in Int
    BY <1>3, <1>4
  <2> QED
    BY <1>5, <1>7, <1>8, <2>1, <2>2, CutInTwo
<1> HIDE DEF l, m, parts
<1>11. At(l, before + 1) = At(list, before)
  BY <1>2, <1>3, <1>10
<1>12. start < At(l, before + 1).addr
  <2>1. EndOf(c) <= At(list, before).addr /\ At(list, before) \in Sound
    BY <1>1, <1>2, <1>3, LaterCell
  <2>2. EndOf(c) \in Int /\ At(list, before).addr \in Int
    BY <1>6, <2>1, InnerFacts, SoundFacts
  <2> QED
    BY <1>4, <1>11, <2>1, <2>2
<1>13. EndOf(At(l, before)) <= end
  <2>1. CASE before = after + 1
    <3>1. before - 1 = after
      BY <1>2, <1>3, <2>1
    <3> QED
      BY <1>3, <1>10, <2>1, <3>1
  <2>2. CASE before # after + 1
    <3>1. before - 1 \in after + 1 .. Size(list) /\ (before - 1) + 1 = before
      BY <1>2, <1>3, <2>2
    <3>2. At(l, (before - 1) + 1) = At(list, before - 1)
      BY <1>10, <3>1
    <3>3. At(l, before) = At(list, before - 1)
      BY <3>1, <3>2
    <3> QED
      BY <1>3, <3>3
  <2> QED
    BY <2>1, <2>2
<1>14. Half(l, start, end, after, before + 1)
  <2>1. after \in 1 .. Size(l) - 1 /\ before + 1 \in after + 1 .. Size(l) /\ (before + 1) - 1 = before
    BY <1>2, <1>3, <1>10
  <2>2. start <= start
    BY <1>4
  <2> QED
    BY <1>3, <1>10, <1>11, <1>13, <2>1, <2>2 DEF Half
<1>15. IdsOf(l) \subseteq IdsOf(list) \cup {NewPart(start)}
  BY <1>8, <1>10 DEF u
<1> QED
  BY <1>9, <1>10, <1>12, <1>14, <1>15

(* SeplitCell_Tail                                                         *)
TailOpens(l, m, start, end, after, before) ==
    \E l2, m2 : /\ SeplitCell_Tail(Work(l, m, after, before), end, FALSE)
                     = Work(l2, m2, after, before + 1)
                /\ Good(l2, m2, content) /\ Open(l2, start, end, after, before + 1)
                /\ IdsOf(l2) \subseteq IdsOf(l) \cup Parts

LEMMA SplitTail ==
    ASSUME NEW l, NEW m, Good(l, m, content), Room,
           NEW start \in Addr, NEW end \in Int, start < end, end <= Hi + 1,
           NEW after, NEW before, Half(l, start, end, after, before), At(l, before).addr < end,
           At(l, before).addr \in Addr => NewPart(At(l, before).addr) \notin IdsOf(l)
    PROVE  TailOpens(l, m, start, end, after, before)
<1> DEFINE c == At(l, before)
           u == NewPart(c.addr)
           parts == <<CutCell(c, u, c.addr, end), CutCell(c, c.id, end, EndOf(c))>>
           l2 == Splice(l, before - 1, before + 1, parts)
           m2 == Enter(m, parts)
<1>1. Wf(l) /\ l \in Seqs(Sound)
  BY DEF Good, Wf
<1>2. PICK n \in Nat : n = Size(l)
  BY <1>1, SizeFacts
<1>3. /\ after \in 1 .. n - 1 /\ before \in after + 1 .. n /\ before \in 1 .. n
      /\ EndOf(At(l, after)) <= start /\ start <= At(l, after + 1).addr /\ end < EndOf(c)
  BY <1>2 DEF Half
<1>4. Lo <= end
  <2>1. start \in Int /\ Lo <= start
    BY Constants DEF Addr
  <2> QED
    BY <2>1, Constants
<1>5. before \in 2 .. Size(l) - 1
  BY <1>1, <1>2, <1>3, <1>4, NoSentinel
<1>6. c \in Inner
  BY <1>1, <1>5, WfInner
<1>7. c.addr \in Addr /\ c.addr \in Int /\ c.id \in Ids /\ c.id # HeadId /\ c.id # TailId
  BY <1>6, InnerFacts
<1>8. u \in Ids /\ u # HeadId /\ u # TailId /\ u \notin IdsOf(l) /\ u \in Parts
  BY <1>7, NewFacts DEF Parts
<1>9. c.id \in IdsOf(l)
  BY <1>2, <1>3 DEF IdsOf
<1>10. SeplitCell_Tail(Work(l, m, after, before), end, FALSE) = Work(l2, m2, after, before + 1)
  BY DEF SeplitCell_Tail, Parted, Work, At
<1> HIDE DEF u
<1>11. /\ Good(l2, m2, content) /\ Size(l2) = Size(l) + 1
       /\ \A k \in 1 .. before - 1 : At(l2, k) = At(l, k)
       /\ At(l2, before).addr = c.addr /\ EndOf(At(l2, before)) = end
       /\ At(l2, before + 1).addr = end
       /\ IdsOf(l2) \subseteq IdsOf(l) \cup {u, c.id}
  <2>1. u # c.id
    BY <1>8, <1>9
  <2>2. c.addr < end /\ end < EndOf(c)
    BY <1>3
  <2> QED
    BY <1>5, <1>7, <1>8, <2>1, <2>2, CutInTwo
<1> HIDE DEF l2, m2, parts
<1>12. EndOf(At(l2, after)) <= start
  <2>1. after \in 1 .. before - 1
    BY <1>2, <1>3
  <2> QED
    BY <1>3, <1>11, <2>1
<1>13. start <= At(l2, after + 1).addr
  <2>1. CASE after + 1 = before
    BY <1>3, <1>11, <2>1
  <2>2. CASE after + 1 # before
    <3>1. after + 1 \in 1 .. before - 1
      BY <1>2, <1>3, <2>2
    <3> QED
      BY <1>3, <1>11, <3>1
  <2> QED
    BY <2>1, <2>2
<1>14. Open(l2, start, end, after, before + 1)
  <2>1. after \in 1 .. Size(l2) - 1 /\ before + 1 \in after + 1 .. Size(l2) /\ (before + 1) - 1 = before
    BY <1>2, <1>3, <1>5, <1>11
  <2>2. end <= end
    OBVIOUS
  <2> QED
    BY <1>11, <1>12, <1>13, <2>1, <2>2 DEF Open
<1>15. IdsOf(l2) \subseteq IdsOf(l) \cup Parts
  BY <1>8, <1>9, <1>11
<1> QED
  BY <1>10, <1>11, <1>14, <1>15 DEF TailOpens

(* Split_Head_Tail as a whole                                              *)
LEMMA SplitOpens ==
    ASSUME Good(list, m_sm, content), Room, NEW start \in Addr, NEW end \in Int, start < end, end <= Hi + 1
    PROVE  \E l, m, after, before :
              /\ Split_Head_Tail(GetAffectedCells(start, end), start, end, FALSE) = Work(l, m, after, before)
              /\ Good(l, m, content) /\ Open(l, start, end, after, before)
              /\ IdsOf(l) \subseteq IdsOf(list) \cup Parts
<1>1. Wf(list) /\ Index(list, m_sm) /\ list \in Seqs(Sound)
  BY DEF Good, Wf
<1>2. PICK after, before :
         /\ Around(list, start, end, after, before)
         /\ GetAffectedCells(start, end) = Work(list, m_sm, after, before)
  BY <1>1, AffectedFacts DEF Work
<1>3. PICK n \in Nat : n = Size(list)
  BY <1>1, SizeFacts
<1>4. /\ after \in 1 .. n - 1 /\ before \in 2 .. n /\ after <= before /\ before \in 1 .. n
      /\ At(list, after).addr < start /\ start <= At(list, after + 1).addr
      /\ EndOf(At(list, before - 1)) <= end /\ end < EndOf(At(list, before))
  BY <1>2, <1>3 DEF Around
<1>5. start \in Int
  BY Constants
<1>6. \A k \in 1 .. n : At(list, k).addr \in Int /\ EndOf(At(list, k)) \in Int
  BY <1>1, <1>3, AtFacts, SoundFacts
<1> DEFINE s == Work(list, m_sm, after, before)
           h == IF EndOf(At(list, after)) > start THEN SeplitCell_Head(s, start, FALSE) ELSE s
<1>7. s.list = list /\ s.after = after /\ s.before = before
  BY DEF Work
<1>8. CASE after = before
  <2>1. EndOf(At(list, after)) >= end
    BY <1>4, <1>6, <1>8
  <2>2. Split_Head_Tail(s, start, end, FALSE) = SplitCell3(s, start, end, FALSE)
    BY <1>7, <1>8, <2>1 DEF Split_Head_Tail, At
  <2> HIDE DEF s
  <2>3. s = Work(list, m_sm, after, after) /\ Around(list, start, end, after, after)
    BY <1>2, <1>8 DEF s
  <2> QED
    BY <1>2, <2>2, <2>3, SplitThree DEF s
<1>9. CASE after # before
  <2>1. after < before
    BY <1>4, <1>9
  <2>2. Split_Head_Tail(s, start, end, FALSE)
          = IF h.list[h.before].addr < end THEN SeplitCell_Tail(h, end, FALSE) ELSE h
    BY <1>7, <1>9 DEF Split_Head_Tail, At
  <2>3. \E l, m, b : /\ h = Work(l, m, after, b) /\ Good(l, m, content) /\ Half(l, start, end, after, b)
                     /\ IdsOf(l) \subseteq IdsOf(list) \cup Parts
                     /\ \A a \in Addr : a = At(l, b).addr => NewPart(a) \notin IdsOf(l)
    <3>1. CASE EndOf(At(list, after)) > start
      <4>1. start < EndOf(At(list, after))
        BY <1>4, <1>5, <1>6, <3>1
      <4>2. PICK l, m : /\ SeplitCell_Head(s, start, FALSE) = Work(l, m, after, before + 1)
                        /\ Good(l, m, content) /\ Half(l, start, end, after, before + 1)
                        /\ IdsOf(l) \subseteq IdsOf(list) \cup {NewPart(start)}
                        /\ start < At(l, before + 1).addr
        BY <1>2, <2>1, <4>1, SplitHead
      <4>3. ASSUME NEW a \in Addr, a = At(l, before + 1).addr PROVE NewPart(a) \notin IdsOf(l)
        <5>1. a # start
          BY <1>5, <4>2, <4>3, Constants
        <5>2. NewPart(a) # NewPart(start)
          BY <5>1, NewDistinct
        <5>3. NewPart(a) \notin IdsOf(list)
          BY <1>1, NewFacts
        <5> QED
          BY <4>2, <5>2, <5>3
      <4>4. NewPart(start) \in Parts
        BY DEF Parts
      <4> QED
        BY <3>1, <4>2, <4>3, <4>4
    <3>2. CASE ~(EndOf(At(list, after)) > start)
      <4>1. EndOf(At(list, after)) <= start
        BY <1>4, <1>5, <1>6, <3>2
      <4>2. Half(list, start, end, after, before)
        BY <1>3, <1>4, <2>1, <4>1 DEF Half
      <4>3. \A a \in Addr : NewPart(a) \notin IdsOf(list)
        BY <1>1, NewFacts
      <4> QED
        BY <3>2, <4>2, <4>3
    <3> QED
      BY <3>1, <3>2
  <2> HIDE DEF h
  <2>4. PICK l, m, b : /\ h = Work(l, m, after, b) /\ Good(l, m, content) /\ Half(l, start, end, after, b)
                       /\ IdsOf(l) \subseteq IdsOf(list) \cup Parts
                       /\ \A a \in Addr : a = At(l, b).addr => NewPart(a) \notin IdsOf(l)
    BY <2>3
  <2>5. h.list[h.before] = At(l, b)
    BY <2>4 DEF Work, At
  <2>6. CASE At(l, b).addr < end
    <3>1. PICK l2, m2 : /\ SeplitCell_Tail(Work(l, m, after, b), end, FALSE) = Work(l2, m2, after, b + 1)
                        /\ Good(l2, m2, content) /\ Open(l2, start, end, after, b + 1)
                        /\ IdsOf(l2) \subseteq IdsOf(l) \cup Parts
      <4>1. Good(l, m, content) /\ Half(l, start, end, after, b)
        BY <2>4
      <4>2. At(l, b).addr \in Addr => NewPart(At(l, b).addr) \notin IdsOf(l)
        BY <2>4
      <4>3. TailOpens(l, m, start, end, after, b)
        BY <2>6, <4>1, <4>2, SplitTail
      <4> QED
        BY <4>3 DEF TailOpens
    <3> QED
      BY <1>2, <2>2, <2>4, <2>5, <2>6, <3>1
  <2>7. CASE ~(At(l, b).addr < end)
    <3>1. l \in Seqs(Sound)
      BY <2>4 DEF Good, Wf
    <3>2. b \in 1 .. Size(l)
      BY <2>4, <3>1, SizeFacts DEF Half
    <3>3. At(l, b).addr \in Int
      BY <3>1, <3>2, AtFacts, SoundFacts
    <3>4. end <= At(l, b).addr
      BY <2>7, <3>3
    <3>5. Open(l, start, end, after, b)
      BY <2>4, <3>4 DEF Half, Open
    <3> QED
      BY <1>2, <2>2, <2>4, <2>5, <2>7, <3>5
  <2> QED
    BY <2>6, <2>7
<1> QED
  BY <1>8, <1>9

-----------------------------------------------------------------------------
(* What lies between the two cells is inside the range, the rest outside.  *)
LEMMA OpenFacts ==
    ASSUME NEW l, Wf(l), NEW start \in Int, NEW end \in Int, start <= end, NEW after, NEW before,
           Open(l, start, end, after, before)
    PROVE  /\ \A k \in after + 1 .. before - 1 : /\ At(l, k) \in Inner
                                                 /\ start <= At(l, k).addr /\ EndOf(At(l, k)) <= end
           /\ \A k \in 1 .. after : EndOf(At(l, k)) <= start
           /\ \A k \in before .. Size(l) : end <= At(l, k).addr
<1>1. l \in Seqs(Sound)
  BY DEF Wf
<1>2. PICK n \in Nat : n = Size(l)
  BY <1>1, SizeFacts
<1>3. /\ after \in 1 .. n - 1 /\ before \in after + 1 .. n
      /\ EndOf(At(l, after)) <= start /\ start <= At(l, after + 1).addr
      /\ EndOf(At(l, before - 1)) <= end /\ end <= At(l, before).addr
  BY <1>2 DEF Open
<1>4. \A k \in 1 .. n : At(l, k).addr \in Int /\ EndOf(At(l, k)) \in Int /\ At(l, k).addr <= EndOf(At(l, k))
  BY <1>1, <1>2, AtFacts, SoundFacts
<1>5. \A p, q \in 1 .. n : p < q => EndOf(At(l, p)) <= At(l, q).addr /\ At(l, p).addr < At(l, q).addr
  BY <1>2, LaterCell
<1>6. ASSUME NEW k \in after + 1 .. before - 1
      PROVE  At(l, k) \in Inner /\ start <= At(l, k).addr /\ EndOf(At(l, k)) <= end
  <2>1. k \in 2 .. Size(l) - 1 /\ k \in 1 .. n /\ after + 1 \in 1 .. n /\ before - 1 \in 1 .. n
    BY <1>2, <1>3
  <2>2. At(l, k) \in Inner
    BY <2>1, WfInner
  <2>3. start <= At(l, k).addr
    <3>1. CASE k = after + 1
      BY <1>3, <3>1
    <3>2. CASE k # after + 1
      <4>1. after + 1 < k
        BY <1>3, <3>2
      <4>2. At(l, after + 1).addr < At(l, k).addr
        BY <1>5, <2>1, <4>1
      <4>3. At(l, after + 1).addr \in Int /\ At(l, k).addr \in Int
        BY <1>4, <2>1
      <4> QED
        BY <1>3, <4>2, <4>3
    <3> QED
      BY <3>1, <3>2
  <2>4. EndOf(At(l, k)) <= end
    <3>1. CASE k = before - 1
      BY <1>3, <3>1
    <3>2. CASE k # before - 1
      <4>1. k < before - 1
        BY <1>3, <3>2
      <4>2. EndOf(At(l, k)) <= At(l, before - 1).addr
        BY <1>5, <2>1, <4>1
      <4>3. /\ EndOf(At(l, k)) \in Int /\ At(l, before - 1).addr \in Int /\ EndOf(At(l, before - 1)) \in Int
            /\ At(l, before - 1).addr <= EndOf(At(l, before - 1))
        BY <1>4, <2>1
      <4> QED
        BY <1>3, <4>2, <4>3
    <3> QED
      BY <3>1, <3>2
  <2> QED
    BY <2>2, <2>3, <2>4
<1>7. ASSUME NEW k \in 1 .. after PROVE EndOf(At(l, k)) <= start
  <2>1. k \in 1 .. n /\ after \in 1 .. n /\ (k = after \/ k < after)
    BY <1>3
  <2>2. CASE k < after
    <3>1. EndOf(At(l, k)) <= At(l, after).addr
      BY <1>5, <2>1, <2>2
    <3>2. /\ EndOf(At(l, k)) \in Int /\ At(l, after).addr \in Int /\ EndOf(At(l, after)) \in Int
          /\ At(l, after).addr <= EndOf(At(l, after))
      BY <1>4, <2>1
    <3> QED
      BY <1>3, <3>1, <3>2
  <2> QED
    BY <1>3, <2>1, <2>2
<1>8. ASSUME NEW k \in before .. n PROVE end <= At(l, k).addr
  <2>1. k \in 1 .. n /\ before \in 1 .. n /\ (k = before \/ before < k)
    BY <1>3
  <2>2. CASE before < k
    <3>1. At(l, before).addr < At(l, k).addr
      BY <1>5, <2>1, <2>2
    <3>2. At(l, before).addr \in Int /\ At(l, k).addr \in Int
      BY <1>4, <2>1
    <3> QED
      BY <1>3, <3>1, <3>2
  <2> QED
    BY <1>3, <2>1, <2>2
<1> QED
  BY <1>2, <1>6, <1>7, <1>8

(* The store without the symbols of a range                                *)
Erased(c, start, end) == [a \in Addr |-> IF start <= a /\ a < end THEN NoSym ELSE c[a]]

LEMMA EmptyFacts ==
    ASSUME NEW S
    PROVE  <<>> \in Seqs(S) /\ Size(<<>>) = 0 /\ Chain(<<>>)
<1>1. <<>> \in Seqs(S) /\ Size(<<>>) = 0
  BY DEF Seqs, Size
<1>2. 1 .. 0 = {}
  OBVIOUS
<1> QED
  BY <1>1, <1>2 DEF Chain

(* Remove(insertAfter, insertBefore) closes the list over the range.       *)
LEMMA RemoveFacts ==
    ASSUME NEW l, NEW m, NEW c, Good(l, m, c), NEW start \in Int, NEW end \in Int, start <= end,
           NEW after, NEW before, Open(l, start, end, after, before)
    PROVE  \E r, m2 :
              /\ RemoveBetween(Work(l, m, after, before)) = Work(r, m2, after, after + 1)
              /\ Good(r, m2, Erased(c, start, end)) /\ Open(r, start, end, after, after + 1)
              /\ IdsOf(r) \subseteq IdsOf(l)
<1> DEFINE none == <<>>
           r == Splice(l, after, before, none)
           keys == { ADDR_TO_KEY(At(l, k).addr) : k \in after + 1 .. before - 1 }
           m2 == [k \in DOMAIN m \ keys |-> m[k]]
           d == Erased(c, start, end)
<1>1. Wf(l) /\ Index(l, m) /\ Rep(l, c) /\ l \in Seqs(Sound)
  BY DEF Good, Wf
<1>2. PICK n \in Nat : n = Size(l)
  BY <1>1, SizeFacts
<1>3. after \in 1 .. n - 1 /\ before \in after + 1 .. n
  BY <1>2 DEF Open
<1>4. /\ after \in 1 .. Size(l) - 1 /\ before \in after + 1 .. Size(l)
      /\ after \in 0 .. Size(l) /\ before \in after + 1 .. Size(l) + 1
  BY <1>2, <1>3
<1>5. none \in Seqs(Sound) /\ none \in Seqs(Inner) /\ Size(none) = 0 /\ Chain(none) /\ IdsOf(none) = {}
  <2>1. 1 .. 0 = {}
    OBVIOUS
  <2> QED
    BY <2>1, EmptyFacts DEF IdsOf
<1>6. RemoveBetween(Work(l, m, after, before)) = Work(r, m2, after, after + 1)
  BY DEF RemoveBetween, Work, At
<1> HIDE DEF none
<1>7. 1 .. Size(none) = {}
  BY <1>5
<1>8. Wf(r)
  BY <1>1, <1>4, <1>5, <1>7, SpliceWf
<1>9. /\ \A k \in after + 1 .. before - 1 : /\ At(l, k) \in Inner
                                            /\ start <= At(l, k).addr /\ EndOf(At(l, k)) <= end
      /\ \A k \in 1 .. after : EndOf(At(l, k)) <= start
      /\ \A k \in before .. n : end <= At(l, k).addr
  BY <1>1, <1>2, OpenFacts
<1>10. Index(r, m2)
  <2>1. keys = { CellKey(At(l, k)) : k \in after + 1 .. before - 1 }
    <3>1. ASSUME NEW k \in after + 1 .. before - 1 PROVE CellKey(At(l, k)) = ADDR_TO_KEY(At(l, k).addr)
      BY <1>9, InnerFacts DEF CellKey
    <3> QED
      BY <3>1
  <2>2. DOMAIN m2 = DOMAIN m \ keys /\ \A x \in DOMAIN m2 : m2[x] = m[x]
    OBVIOUS
  <2> HIDE DEF m2, keys
  <2>3. { CellKey(At(none, k)) : k \in 1 .. Size(none) } = {}
    BY <1>7
  <2>4. DOMAIN m2 = (DOMAIN m \ { CellKey(At(l, k)) : k \in after + 1 .. before - 1 })
                    \cup { CellKey(At(none, k)) : k \in 1 .. Size(none) }
    BY <2>1, <2>2, <2>3
  <2>5. /\ \A k \in 1 .. Size(none) : m2[CellKey(At(none, k))] = At(none, k).id
        /\ \A x \in DOMAIN m2 : (\A k \in 1 .. Size(none) : x # CellKey(At(none, k))) => m2[x] = m[x]
    BY <1>7, <2>2
  <2>6. Wf(Splice(l, after, before, none))
    BY <1>8
  <2>7. Index(Splice(l, after, before, none), m2)
    BY <1>1, <1>4, <1>5, <2>4, <2>5, <2>6, SpliceIndex
  <2> QED
    BY <2>7
<1>11. Rep(r, d)
  <2>1. \A a \in Addr : d[a] = IF start <= a /\ a < end THEN NoSym ELSE c[a]
    BY DEF Erased
  <2> HIDE DEF d
  <2>2. \A a \in Addr : a \in Int
    BY Constants
  <2>3. \A k \in 1 .. n : At(l, k).addr \in Int /\ EndOf(At(l, k)) \in Int
    BY <1>1, <1>2, AtFacts, SoundFacts
  <2>4. ASSUME NEW k \in 1 .. Size(l), NEW a \in Addr, k <= after \/ before <= k, Covers(At(l, k), a)
        PROVE  d[a] = c[a]
    <3>1. At(l, k).addr <= a /\ a < EndOf(At(l, k))
      BY <2>4 DEF Covers
    <3>2. k \in 1 .. n /\ (k \in 1 .. after \/ k \in before .. n)
      BY <1>2, <1>3, <2>4
    <3>3. EndOf(At(l, k)) <= start \/ end <= At(l, k).addr
      BY <1>9, <3>2
    <3>4. a \in Int /\ At(l, k).addr \in Int /\ EndOf(At(l, k)) \in Int
      BY <2>2, <2>3, <3>2
    <3>5. ~(start <= a /\ a < end)
      BY <3>1, <3>3, <3>4
    <3> QED
      BY <2>1, <3>5
  <2>5. ASSUME NEW a \in Addr
        PROVE  \/ d[a] = NoSym
               \/ d[a] = c[a] /\ \A k \in after + 1 .. before - 1 : ~Covers(At(l, k), a)
    <3>1. CASE start <= a /\ a < end
      BY <2>1, <3>1
    <3>2. CASE ~(start <= a /\ a < end)
      <4>1. ASSUME NEW k \in after + 1 .. before - 1, Covers(At(l, k), a) PROVE FALSE
        <5>1. At(l, k).addr <= a /\ a < EndOf(At(l, k))
          BY <4>1 DEF Covers
        <5>2. start <= At(l, k).addr /\ EndOf(At(l, k)) <= end /\ k \in 1 .. n
          BY <1>3, <1>9
        <5>3. a \in Int /\ At(l, k).addr \in Int /\ EndOf(At(l, k)) \in Int
          BY <2>2, <2>3, <5>2
        <5> QED
          BY <3>2, <5>1, <5>2, <5>3
      <4> QED
        BY <2>1, <3>2, <4>1
    <3> QED
      BY <3>1, <3>2
  <2>6. \A k \in 1 .. Size(none), a \in Addr : Covers(At(none, k), a) => d[a] = Byte(At(none, k), a)
    BY <1>7
  <2> QED
    BY <1>1, <1>4, <1>5, <2>4, <2>5, <2>6, SpliceRep
<1>12. IdsOf(r) \subseteq IdsOf(l)
  BY <1>1, <1>4, <1>5, SpliceIds
<1>13. Open(r, start, end, after, after + 1)
  <2>1. /\ Size(r) = (after + Size(none)) + (Size(l) - before + 1)
        /\ \A k \in 1 .. after : At(r, k) = At(l, k)
        /\ \A k \in before .. Size(l) : At(r, (after + Size(none)) + (k - before + 1)) = At(l, k)
    BY <1>1, <1>4, <1>5, SpliceFacts
  <2> HIDE DEF r
  <2>2. Size(r) = after + (n - before + 1) /\ At(r, after) = At(l, after)
    BY <1>2, <1>3, <1>5, <2>1
  <2>3. At(r, after + 1) = At(l, before)
    <3>1. before \in before .. Size(l) /\ (after + 0) + (before - before + 1) = after + 1
      BY <1>2, <1>3
    <3> QED
      BY <1>5, <2>1, <3>1
  <2>4. EndOf(At(l, after)) <= start /\ end <= At(l, before).addr
    BY DEF Open
  <2>5. EndOf(At(l, after)) \in Int /\ At(l, before).addr \in Int
    <3>1. after \in 1 .. Size(l) /\ before \in 1 .. Size(l)
      BY <1>2, <1>3
    <3> QED
      BY <1>1, <3>1, AtFacts, SoundFacts
  <2>6. EndOf(At(l, after)) <= end /\ start <= At(l, before).addr
    BY <2>4, <2>5
  <2>7. after \in 1 .. Size(r) - 1 /\ after + 1 \in after + 1 .. Size(r) /\ (after + 1) - 1 = after
    BY <1>3, <2>2
  <2> QED
    BY <2>2, <2>3, <2>4, <2>6, <2>7 DEF Open
<1>14. Good(r, m2, d)
  BY <1>8, <1>10, <1>11 DEF Good
<1> QED
  BY <1>6, <1>12, <1>13, <1>14

(* The list is cut at both ends of a range and emptied between them.       *)
LEMMA OpenedFacts ==
    ASSUME Good(list, m_sm, content), Room, NEW start \in Addr, NEW end \in Int, start < end, end <= Hi + 1
    PROVE  \E l, m, after :
              /\ Opened(start, end) = Work(l, m, after, after + 1)
              /\ Good(l, m, Erased(content, start, end)) /\ Open(l, start, end, after, after + 1)
              /\ IdsOf(l) \subseteq IdsOf(list) \cup Parts
<1>1. PICK l, m, after, before :
         /\ Split_Head_Tail(GetAffectedCells(start, end), start, end, FALSE) = Work(l, m, after, before)
         /\ Good(l, m, content) /\ Open(l, start, end, after, before)
         /\ IdsOf(l) \subseteq IdsOf(list) \cup Parts
  BY SplitOpens
<1>2. start \in Int /\ start <= end
  BY Constants
<1>3. PICK r, m2 :
         /\ RemoveBetween(Work(l, m, after, before)) = Work(r, m2, after, after + 1)
         /\ Good(r, m2, Erased(content, start, end)) /\ Open(r, start, end, after, after + 1)
         /\ IdsOf(r) \subseteq IdsOf(l)
  BY <1>1, <1>2, RemoveFacts
<1>4. Opened(start, end) = Work(r, m2, after, after + 1)
  BY <1>1, <1>3 DEF Opened
<1> QED
  BY <1>1, <1>3, <1>4

(* What a source list is                                                   *)
LEMMA SourceFacts ==
    ASSUME NEW src \in Sources
    PROVE  /\ Size(src) \in Nat /\ Size(src) >= 1 /\ DOMAIN src = 1 .. Size(src)
           /\ \A i \in 1 .. Size(src) :
                /\ At(src, i).addr \in Addr /\ At(src, i).size \in Nat /\ At(src, i).size > 0
                /\ At(src, i).addr \in Int /\ EndOf(At(src, i)) \in Int
                /\ EndOf(At(src, i)) = At(src, i).addr + At(src, i).size
                /\ At(src, i).addr < EndOf(At(src, i)) /\ EndOf(At(src, i)) <= Hi + 1
                /\ At(src, i).expr \in Seq(SymByte) /\ Len(At(src, i).expr) = At(src, i).size
           /\ \A i, j \in 1 .. Size(src) : i < j => EndOf(At(src, i)) <= At(src, j).addr
<1> DEFINE S == [addr : Addr, size : Nat \ {0}, expr : Seq(SymByte)]
<1>1. /\ src \in Seq(S) /\ src # <<>>
      /\ \A i \in DOMAIN src : Len(src[i].expr) = src[i].size /\ src[i].addr + src[i].size <= Hi + 1
      /\ \A i, j \in DOMAIN src : i < j => src[i].addr + src[i].size <= src[j].addr
  BY SourcesAssumption
<1>2. src \in Seqs(S)
  BY <1>1 DEF Seqs
<1>3. Size(src) \in Nat /\ DOMAIN src = 1 .. Size(src)
  BY <1>2, SizeFacts, DomFacts
<1>4. Size(src) >= 1
  <2>1. Size(src) # 0
    BY <1>1, EmptySeq DEF Size
  <2> QED
    BY <1>3, <2>1
<1>5. ASSUME NEW i \in 1 .. Size(src)
      PROVE  /\ At(src, i).addr \in Addr /\ At(src, i).size \in Nat /\ At(src, i).size > 0
             /\ At(src, i).addr \in Int /\ EndOf(At(src, i)) \in Int
             /\ EndOf(At(src, i)) = At(src, i).addr + At(src, i).size
             /\ At(src, i).addr < EndOf(At(src, i)) /\ EndOf(At(src, i)) <= Hi + 1
             /\ At(src, i).expr \in Seq(SymByte) /\ Len(At(src, i).expr) = At(src, i).size
  <2>1. At(src, i) \in S
    BY <1>2, AtFacts
  <2>2. At(src, i).addr \in Addr /\ At(src, i).size \in Nat \ {0} /\ At(src, i).expr \in Seq(SymByte)
    BY <2>1
  <2>3. At(src, i).size \in Nat /\ At(src, i).size > 0
    BY <2>2
  <2>4. At(src, i).addr \in Int
    BY <2>2, Constants
  <2>5. EndOf(At(src, i)) = At(src, i).addr + At(src, i).size
    BY DEF EndOf
  <2>6. Len(At(src, i).expr) = At(src, i).size /\ At(src, i).addr + At(src, i).size <= Hi + 1
    BY <1>1, <1>3 DEF At
  <2>7. EndOf(At(src, i)) \in Int /\ At(src, i).addr < EndOf(At(src, i))
    BY <2>3, <2>4, <2>5
  <2> QED
    BY <2>2, <2>3, <2>4, <2>5, <2>6, <2>7
<1>6. \A i, j \in 1 .. Size(src) : i < j => EndOf(At(src, i)) <= At(src, j).addr
  BY <1>1, <1>3 DEF EndOf, At
<1> QED
  BY <1>3, <1>4, <1>5, <1>6

(* A source list lies between its first and its last address.              *)
LEMMA SourceRange ==
    ASSUME NEW src \in Sources
    PROVE  LET start == At(src, 1).addr
               end == EndOf(At(src, Size(src)))
           IN  /\ start \in Addr /\ start \in Int /\ end \in Int /\ start < end /\ end <= Hi + 1
               /\ \A i \in 1 .. Size(src) : start <= At(src, i).addr /\ EndOf(At(src, i)) <= end
<1> DEFINE start == At(src, 1).addr
           end == EndOf(At(src, Size(src)))
<1>1. PICK n \in Nat : n = Size(src) /\ n >= 1
  BY SourceFacts
<1>2. \A i \in 1 .. n : /\ At(src, i).addr \in Int /\ EndOf(At(src, i)) \in Int
                        /\ At(src, i).addr < EndOf(At(src, i)) /\ EndOf(At(src, i)) <= Hi + 1
                        /\ At(src, i).addr \in Addr
  BY <1>1, SourceFacts
<1>3. \A i, j \in 1 .. n : i < j => EndOf(At(src, i)) <= At(src, j).addr
  BY <1>1, SourceFacts
<1>4. 1 \in 1 .. n /\ n \in 1 .. n
  BY <1>1
<1>5. start \in Addr /\ start \in Int /\ end \in Int /\ end <= Hi + 1
  BY <1>1, <1>2, <1>4
<1>6. ASSUME NEW i \in 1 .. n PROVE start <= At(src, i).addr /\ EndOf(At(src, i)) <= end
  <2>1. i = 1 \/ 1 < i
    OBVIOUS
  <2>2. i = n \/ i < n
    OBVIOUS
  <2>3. start <= At(src, i).addr
    <3>1. CASE i = 1
      BY <1>5, <3>1
    <3>2. CASE 1 < i
      <4>1. EndOf(At(src, 1)) <= At(src, i).addr
        BY <1>3, <1>4, <3>2
      <4>2. At(src, 1).addr < EndOf(At(src, 1)) /\ At(src, 1).addr \in Int /\ EndOf(At(src, 1)) \in Int /\ At(src, i).addr \in Int
        BY <1>2, <1>4
      <4> QED
        BY <4>1, <4>2
    <3> QED
      BY <2>1, <3>1, <3>2
  <2>4. EndOf(At(src, i)) <= end
    <3>1. CASE i = n
      BY <1>1, <1>5, <3>1
    <3>2. CASE i < n
      <4>1. EndOf(At(src, i)) <= At(src, n).addr
        BY <1>3, <1>4, <3>2
      <4>2. At(src, n).addr < EndOf(At(src, n)) /\ At(src, n).addr \in Int /\ EndOf(At(src, n)) \in Int /\ EndOf(At(src, i)) \in Int
        BY <1>2, <1>4
      <4> QED
        BY <1>1, <4>1, <4>2
    <3> QED
      BY <2>2, <3>1, <3>2
  <2> QED
    BY <2>3, <2>4
<1>7. start < end
  <2>1. start < EndOf(At(src, 1)) /\ EndOf(At(src, 1)) <= end /\ EndOf(At(src, 1)) \in Int
    BY <1>2, <1>4, <1>6
  <2> QED
    BY <1>5, <2>1
<1> QED
  BY <1>1, <1>5, <1>6, <1>7

(* The cells that a caller hands over                                      *)
LEMMA AllocatedFacts ==
    ASSUME Room, NEW src \in Sources
    PROVE  /\ Allocated(src) \in Seqs(Inner) /\ Size(Allocated(src)) = Size(src) /\ Chain(Allocated(src))
           /\ \A i \in 1 .. Size(src) :
                /\ At(Allocated(src), i).addr = At(src, i).addr
                /\ EndOf(At(Allocated(src), i)) = EndOf(At(src, i))
                /\ At(Allocated(src), i).expr = At(src, i).expr
                /\ At(Allocated(src), i).id = NewCell(At(src, i).addr)
<1> DEFINE cells == Allocated(src)
<1>1. PICK n \in Nat : n = Size(src)
  BY SourceFacts
<1>2. cells = [i \in 1 .. n |-> SymCell(NewCell(At(src, i).addr), At(src, i).addr, At(src, i).size, At(src, i).expr)]
  BY <1>1 DEF Allocated, At, Size
<1> HIDE DEF cells
<1>3. ASSUME NEW i \in 1 .. n
      PROVE  /\ cells[i] \in Inner
             /\ cells[i].addr = At(src, i).addr /\ EndOf(cells[i]) = EndOf(At(src, i))
             /\ cells[i].expr = At(src, i).expr /\ cells[i].id = NewCell(At(src, i).addr)
  <2> DEFINE c == At(src, i)
             id == NewCell(c.addr)
  <2>1. /\ c.addr \in Addr /\ c.size \in Nat /\ c.size > 0 /\ c.addr \in Int /\ EndOf(c) <= Hi + 1
        /\ EndOf(c) = c.addr + c.size /\ c.expr \in Seq(SymByte) /\ Len(c.expr) = c.size
    BY <1>1, SourceFacts
  <2>2. id \in Ids /\ id # HeadId /\ id # TailId
    BY <2>1, NewFacts
  <2>3. cells[i] = [id |-> id, addr |-> c.addr, size |-> c.size, expr |-> c.expr]
    BY <1>2 DEF SymCell
  <2> HIDE DEF c, id
  <2>4. cells[i].addr = c.addr /\ cells[i].size = c.size /\ cells[i].expr = c.expr /\ cells[i].id = id
    BY <2>3
  <2>5. EndOf(cells[i]) = EndOf(c)
    BY <2>1, <2>4 DEF EndOf
  <2>6. cells[i] \in [id : Ids, addr : Int, size : Nat, expr : Seq(SymByte)]
    BY <2>1, <2>2, <2>3
  <2>7. cells[i] \in Inner
    BY <2>1, <2>2, <2>4, <2>5, <2>6 DEF Inner, Cells
  <2> QED
    BY <2>4, <2>5, <2>7 DEF c, id
<1>4. cells \in Seqs(Inner) /\ Size(cells) = n
  <2>1. cells \in [1 .. n -> Inner]
    BY <1>2, <1>3
  <2>2. cells \in Seq(Inner) /\ Len(cells) = n
    BY <2>1
  <2> QED
    BY <2>2 DEF Seqs, Size
<1>5. Chain(cells)
  <2> SUFFICES ASSUME NEW p \in 1 .. n, NEW q \in 1 .. n, p < q PROVE Before(cells[p], cells[q])
    BY <1>4 DEF Chain, At
  <2>1. /\ EndOf(At(src, p)) <= At(src, q).addr /\ At(src, p).addr < EndOf(At(src, p))
        /\ At(src, p).addr \in Int /\ At(src, q).addr \in Int /\ EndOf(At(src, p)) \in Int
        /\ At(src, p).addr \in Addr /\ At(src, q).addr \in Addr
    BY <1>1, SourceFacts
  <2>2. At(src, p).addr # At(src, q).addr
    BY <2>1
  <2>3. NewCell(At(src, p).addr) # NewCell(At(src, q).addr)
    BY <2>1, <2>2, NewDistinct
  <2> QED
    BY <1>3, <2>1, <2>3 DEF Before
<1> QED
  BY <1>1, <1>3, <1>4, <1>5 DEF At, cells

(* Linking them in                                                         *)
LEMMA InsertFacts ==
    ASSUME Room, list \in Seqs(Sound), NEW src \in Sources, NEW l, NEW m, NEW c, Good(l, m, c), NEW after,
           Open(l, At(src, 1).addr, EndOf(At(src, Size(src))), after, after + 1),
           IdsOf(l) \subseteq IdsOf(list) \cup Parts,
           NEW d,
           \A i \in 1 .. Size(src), a \in Addr : Covers(At(src, i), a) => d[a] = Byte(At(src, i), a),
           \A a \in Addr : (\A i \in 1 .. Size(src) : ~Covers(At(src, i), a)) => d[a] = c[a]
    PROVE  Good(Splice(l, after, after + 1, Allocated(src)), Enter(m, Allocated(src)), d)
<1> DEFINE start == At(src, 1).addr
           end == EndOf(At(src, Size(src)))
           cells == Allocated(src)
           r == Splice(l, after, after + 1, cells)
           m2 == Enter(m, cells)
<1>1. Wf(l) /\ Index(l, m) /\ Rep(l, c) /\ l \in Seqs(Sound)
  BY DEF Good, Wf
<1>2. PICK n \in Nat, z \in Nat : n = Size(l) /\ z = Size(src)
  BY <1>1, SizeFacts, SourceFacts
<1>3. /\ start \in Int /\ end \in Int /\ start < end
      /\ \A i \in 1 .. z : start <= At(src, i).addr /\ EndOf(At(src, i)) <= end
  BY <1>2, SourceRange
<1>4. start <= end
  BY <1>3
<1>5. Open(l, start, end, after, after + 1)
  OBVIOUS
<1>6. /\ cells \in Seqs(Inner) /\ Size(cells) = z /\ Chain(cells)
      /\ \A i \in 1 .. z : /\ At(cells, i).addr = At(src, i).addr /\ EndOf(At(cells, i)) = EndOf(At(src, i))
                           /\ At(cells, i).expr = At(src, i).expr /\ At(cells, i).id = NewCell(At(src, i).addr)
  BY <1>2, AllocatedFacts
<1>7. \A i \in 1 .. z : At(src, i).addr \in Addr /\ At(src, i).addr \in Int /\ EndOf(At(src, i)) \in Int
  BY <1>2, SourceFacts
<1> HIDE DEF start, end, cells
<1>8. after \in 1 .. n - 1
  BY <1>2, <1>5 DEF Open
<1>9. (\A k \in 1 .. after : EndOf(At(l, k)) <= start) /\ \A k \in after + 1 .. n : end <= At(l, k).addr
  BY <1>1, <1>2, <1>3, <1>4, <1>5, OpenFacts
<1>10. \A k \in 1 .. n : At(l, k).addr \in Int /\ EndOf(At(l, k)) \in Int
  BY <1>1, <1>2, AtFacts, SoundFacts
<1>11. ASSUME NEW i \in 1 .. z, NEW k \in 1 .. n PROVE At(cells, i).id # At(l, k).id
  <2>1. At(src, i).addr \in Addr
    BY <1>7
  <2>2. NewCell(At(src, i).addr) \notin IdsOf(list)
    BY <2>1, NewFacts
  <2>3. NewCell(At(src, i).addr) \notin Parts
    BY <2>1, NewDistinct DEF Parts
  <2>4. At(l, k).id \in IdsOf(l)
    BY <1>2 DEF IdsOf
  <2> QED
    BY <1>6, <2>2, <2>3, <2>4
<1>12. ASSUME NEW p \in 1 .. after, NEW k \in 1 .. z PROVE Before(At(l, p), At(cells, k))
  <2>1. p \in 1 .. n
    BY <1>8
  <2>2. EndOf(At(l, p)) <= At(src, k).addr
    <3>1. EndOf(At(l, p)) <= start /\ start <= At(src, k).addr
      BY <1>3, <1>9
    <3>2. EndOf(At(l, p)) \in Int /\ At(src, k).addr \in Int
      BY <1>7, <1>10, <2>1
    <3> QED
      BY <1>3, <3>1, <3>2
  <2> QED
    BY <1>6, <1>11, <2>1, <2>2 DEF Before
<1>13. ASSUME NEW k \in 1 .. z, NEW p \in after + 1 .. n PROVE Before(At(cells, k), At(l, p))
  <2>1. p \in 1 .. n
    BY <1>8
  <2>2. EndOf(At(src, k)) <= At(l, p).addr
    <3>1. EndOf(At(src, k)) <= end /\ end <= At(l, p).addr
      BY <1>3, <1>9
    <3>2. EndOf(At(src, k)) \in Int /\ At(l, p).addr \in Int
      BY <1>7, <1>10, <2>1
    <3> QED
      BY <1>3, <3>1, <3>2
  <2> QED
    BY <1>6, <1>11, <2>1, <2>2 DEF Before
<1>14. /\ after \in 1 .. Size(l) - 1 /\ after + 1 \in after + 1 .. Size(l)
       /\ after \in 0 .. Size(l) /\ after + 1 \in after + 1 .. Size(l) + 1
       /\ after + 1 .. (after + 1) - 1 = {}
  BY <1>2, <1>8
<1>15. Wf(r)
  BY <1>1, <1>2, <1>6, <1>12, <1>13, <1>14, SpliceWf
<1>16. Index(r, m2)
  <2>1. /\ DOMAIN m2 = DOMAIN m \cup { CellKey(At(cells, k)) : k \in 1 .. Size(cells) }
        /\ \A k \in 1 .. Size(cells) : m2[CellKey(At(cells, k))] = At(cells, k).id
        /\ \A x \in DOMAIN m : (\A k \in 1 .. Size(cells) : x # CellKey(At(cells, k))) => m2[x] = m[x]
    BY <1>6, EnterFacts
  <2> HIDE DEF m2
  <2>2. { CellKey(At(l, k)) : k \in after + 1 .. (after + 1) - 1 } = {}
    BY <1>14
  <2>3. DOMAIN m2 = (DOMAIN m \ { CellKey(At(l, k)) : k \in after + 1 .. (after + 1) - 1 })
                    \cup { CellKey(At(cells, k)) : k \in 1 .. Size(cells) }
    BY <2>1, <2>2
  <2>4. \A x \in DOMAIN m2 : (\A k \in 1 .. Size(cells) : x # CellKey(At(cells, k))) => m2[x] = m[x]
    BY <2>1
  <2>5. Wf(Splice(l, after, after + 1, cells))
    BY <1>15
  <2>6. Index(Splice(l, after, after + 1, cells), m2)
    BY <1>1, <1>6, <1>14, <2>1, <2>3, <2>4, <2>5, SpliceIndex
  <2> QED
    BY <2>6
<1>17. Rep(r, d)
  <2>1. cells \in Seqs(Sound)
    BY <1>6, SeqMonotonic DEF Seqs, Sound
  <2>2. \A i \in 1 .. z, a \in Addr : Covers(At(cells, i), a) <=> Covers(At(src, i), a)
    BY <1>6 DEF Covers
  <2>3. \A i \in 1 .. z, a \in Addr : Byte(At(cells, i), a) = Byte(At(src, i), a)
    BY <1>6 DEF Byte
  <2>4. ASSUME NEW k \in 1 .. Size(l), NEW a \in Addr, k <= after \/ after + 1 <= k, Covers(At(l, k), a)
        PROVE  d[a] = c[a]
    <3>1. At(l, k).addr <= a /\ a < EndOf(At(l, k)) /\ a \in Int
      BY <2>4, Constants DEF Covers
    <3>2. k \in 1 .. n /\ (k \in 1 .. after \/ k \in after + 1 .. n)
      BY <1>2, <1>8
    <3>3. EndOf(At(l, k)) <= start \/ end <= At(l, k).addr
      BY <1>9, <3>2
    <3>4. At(l, k).addr \in Int /\ EndOf(At(l, k)) \in Int
      BY <1>10, <3>2
    <3>5. a < start \/ end <= a
      BY <1>3, <3>1, <3>3, <3>4
    <3>6. ASSUME NEW i \in 1 .. z, Covers(At(src, i), a) PROVE FALSE
      <4>1. At(src, i).addr <= a /\ a < EndOf(At(src, i))
        BY <3>6 DEF Covers
      <4>2. start <= At(src, i).addr /\ EndOf(At(src, i)) <= end /\ At(src, i).addr \in Int /\ EndOf(At(src, i)) \in Int
        BY <1>3, <1>7
      <4> QED
        BY <1>3, <3>1, <3>5, <4>1, <4>2
    <3> QED
      BY <1>2, <3>6
  <2>5. ASSUME NEW k \in 1 .. Size(cells), NEW a \in Addr, Covers(At(cells, k), a)
        PROVE  d[a] = Byte(At(cells, k), a)
    BY <1>2, <1>6, <2>2, <2>3, <2>5
  <2>6. ASSUME NEW a \in Addr, \A k \in 1 .. Size(cells) : ~Covers(At(cells, k), a)
        PROVE  d[a] = c[a] /\ \A k \in after + 1 .. (after + 1) - 1 : ~Covers(At(l, k), a)
    BY <1>2, <1>6, <1>14, <2>2, <2>6
  <2> QED
    BY <1>1, <1>14, <2>1, <2>4, <2>5, <2>6, SpliceRep
<1> QED
  BY <1>15, <1>16, <1>17 DEF Good, cells

-----------------------------------------------------------------------------
(* The store after a merge and after a removal                             *)
LEMMA PutFacts ==
    ASSUME NEW src \in Sources, Bytes!Put(src)
    PROVE  /\ \A i \in 1 .. Size(src), a \in Addr : Covers(At(src, i), a) => content'[a] = Byte(At(src, i), a)
           /\ \A a \in Addr : (\A i \in 1 .. Size(src) : ~Covers(At(src, i), a))
                 => content'[a] = Erased(content, At(src, 1).addr, EndOf(At(src, Size(src))))[a]
           /\ content' = [a \in Addr |-> content'[a]]
<1> DEFINE start == At(src, 1).addr
           end == EndOf(At(src, Size(src)))
           bytes == Bytes!Denotes(src)
<1>1. PICK n \in Nat : n = Size(src) /\ DOMAIN src = 1 .. n
  BY SourceFacts
<1>2. start + (end - start) = end /\ start \in Int /\ end \in Int
  BY SourceRange
<1>3. \A a \in Addr : Bytes!Covering(src, a) = { i \in 1 .. n : Covers(At(src, i), a) }
  BY <1>1 DEF Bytes!Covering, Covers, At, EndOf
<1>4. content' = Bytes!Replaced(Bytes!Span(start, end - start), bytes)
  <2> DEFINE last == src[Len(src)]
  <2>1. content' = Bytes!Replaced(Bytes!Span(src[1].addr, last.addr + last.size - src[1].addr), Bytes!Denotes(src))
    BY DEF Bytes!Put
  <2>2. src[1].addr = start /\ last.addr + last.size = end
    BY DEF At, Size, EndOf
  <2>3. last.addr \in Int /\ last.size \in Int
    <3>1. Size(src) \in 1 .. Size(src)
      BY SourceFacts
    <3>2. At(src, Size(src)).addr \in Int /\ At(src, Size(src)).size \in Nat
      BY <3>1, SourceFacts
    <3> QED
      BY <3>2 DEF At, Size
  <2>4. Bytes!Denotes(src) = bytes
    OBVIOUS
  <2> HIDE DEF start, end, last, bytes
  <2>5. last.addr + last.size - src[1].addr = end - start
    BY <1>2, <2>2, <2>3
  <2>6. content' = Bytes!Replaced(Bytes!Span(start, last.addr + last.size - src[1].addr), bytes)
    BY <2>1, <2>2, <2>4
  <2> QED
    BY <2>5, <2>6
<1>5. Bytes!Span(start, end - start) = { a \in Addr : start <= a /\ a < end }
  BY <1>2 DEF Bytes!Span
<1>6. content' = [a \in Addr |-> IF a \in DOMAIN bytes THEN bytes[a]
                                 ELSE IF start <= a /\ a < end THEN NoSym ELSE content[a]]
  BY <1>4, <1>5 DEF Bytes!Replaced
<1>7. bytes = [a \in { b \in Addr : Bytes!Covering(src, b) # {} } |->
                  LET e == src[CHOOSE i \in Bytes!Covering(src, a) : TRUE] IN e.expr[a - e.addr + 1]]
  BY DEF Bytes!Denotes
<1> HIDE DEF bytes, start, end
<1>8. ASSUME NEW i \in 1 .. n, NEW a \in Addr, Covers(At(src, i), a) PROVE content'[a] = Byte(At(src, i), a)
  <2>1. i \in Bytes!Covering(src, a)
    BY <1>3, <1>8
  <2>2. PICK j : j = CHOOSE x \in Bytes!Covering(src, a) : TRUE
    OBVIOUS
  <2>3. j \in 1 .. n /\ Covers(At(src, j), a)
    BY <1>3, <2>1, <2>2
  <2>4. i = j
    <3>1. /\ \A x \in 1 .. n : At(src, x).addr \in Int /\ EndOf(At(src, x)) \in Int
          /\ \A x, y \in 1 .. n : x < y => EndOf(At(src, x)) <= At(src, y).addr
      BY <1>1, SourceFacts
    <3>2. /\ At(src, i).addr <= a /\ a < EndOf(At(src, i)) /\ At(src, j).addr <= a /\ a < EndOf(At(src, j))
          /\ a \in Int
      BY <1>8, <2>3, Constants DEF Covers
    <3>3. i < j \/ j < i \/ i = j
      BY <2>3
    <3>4. CASE i < j
      BY <2>3, <3>1, <3>2, <3>4
    <3>5. CASE j < i
      BY <2>3, <3>1, <3>2, <3>5
    <3> QED
      BY <3>3, <3>4, <3>5
  <2>5. a \in DOMAIN bytes /\ bytes[a] = src[j].expr[a - src[j].addr + 1]
    BY <1>7, <2>1, <2>2
  <2>6. content'[a] = bytes[a]
    BY <1>6, <2>5
  <2> QED
    BY <2>4, <2>5, <2>6 DEF Byte, At
<1>9. ASSUME NEW a \in Addr, \A i \in 1 .. n : ~Covers(At(src, i), a)
      PROVE  content'[a] = Erased(content, start, end)[a]
  <2>1. Bytes!Covering(src, a) = {}
    BY <1>3, <1>9
  <2>2. a \notin DOMAIN bytes
    BY <1>7, <2>1
  <2> QED
    BY <1>6, <2>2 DEF Erased
<1>10. content' = [a \in Addr |-> content'[a]]
  BY <1>6
<1> QED
  BY <1>1, <1>8, <1>9, <1>10 DEF start, end

LEMMA EraseFacts ==
    ASSUME NEW addr, NEW size, Bytes!Erase(addr, size)
    PROVE  content' = Erased(content, addr, addr + size)
<1>1. DOMAIN <<>> = {}
  OBVIOUS
<1>2. content' = Bytes!Replaced({ a \in Addr : addr <= a /\ a < addr + size }, <<>>)
  BY DEF Bytes!Erase, Bytes!Span
<1>3. \A a : a \notin DOMAIN <<>>
  BY <1>1
<1> QED
  BY <1>2, <1>3 DEF Bytes!Replaced, Erased

-----------------------------------------------------------------------------
(***************************************************************************)
(* The inductive invariant: a chain of sound cells between the sentinels,  *)
(* which m_sm indexes exactly, and which stands for the store.             *)
(***************************************************************************)
IInv ==
    /\ Good(list, m_sm, content)
    /\ content = [a \in Addr |-> content[a]]

(* The constructor's list                                                  *)
LEMMA InitIInv == Init => IInv
<1> SUFFICES ASSUME Init PROVE IInv
  OBVIOUS
<1>1. list = <<HeadCell, TailCell>>
  BY DEF Init, HeadCell, TailCell
<1>2. HeadCell \in Sound /\ TailCell \in Sound
  BY DEF Sound
<1>3. list \in Seqs(Sound) /\ Size(list) = 2 /\ At(list, 1) = HeadCell /\ At(list, 2) = TailCell
  BY <1>1, <1>2, TwoFacts
<1>4. \A i \in 1 .. 2 : i = 1 \/ i = 2
  OBVIOUS
<1>5. Before(HeadCell, TailCell)
  BY SentinelFacts, Constants DEF Before
<1>6. Wf(list)
  <2>1. Chain(list)
    <3> SUFFICES ASSUME NEW p \in 1 .. 2, NEW q \in 1 .. 2, p < q PROVE Before(At(list, p), At(list, q))
      BY <1>3 DEF Chain
    <3>1. p = 1 /\ q = 2
      OBVIOUS
    <3> QED
      BY <1>3, <1>5, <3>1
  <2> QED
    BY <1>3, <2>1 DEF Wf
<1>7. Index(list, m_sm)
  <2>1. CellKey(HeadCell) = HeadKey /\ CellKey(TailCell) = ADDR_TO_KEY(TailAddr)
    BY SentinelFacts DEF CellKey
  <2>2. ADDR_TO_KEY(TailAddr) # HeadKey
    BY Constants, KeyRange
  <2>3. m_sm = [k \in {HeadKey, ADDR_TO_KEY(TailAddr)} |-> IF k = HeadKey THEN HeadId ELSE TailId]
    BY DEF Init
  <2>4. m_sm[HeadKey] = HeadId /\ m_sm[ADDR_TO_KEY(TailAddr)] = TailId
    BY <2>2, <2>3
  <2>5. \A i \in 1 .. Size(list) : m_sm[CellKey(At(list, i))] = At(list, i).id
    BY <1>3, <1>4, <2>1, <2>4, SentinelFacts
  <2>6. { CellKey(At(list, i)) : i \in 1 .. Size(list) } = {HeadKey, ADDR_TO_KEY(TailAddr)}
    <3>1. 1 \in 1 .. Size(list) /\ 2 \in 1 .. Size(list)
      BY <1>3
    <3>2. \A i \in 1 .. Size(list) : i = 1 \/ i = 2
      BY <1>3, <1>4
    <3> QED
      BY <1>3, <2>1, <3>1, <3>2
  <2>7. DOMAIN m_sm = { CellKey(At(list, i)) : i \in 1 .. Size(list) }
    BY <2>3, <2>6
  <2> QED
    BY <2>5, <2>7 DEF Index
<1>8. content = [a \in Addr |-> NoSym]
  BY DEF Init, Bytes!Empty
<1>9. ASSUME NEW i \in 1 .. Size(list), NEW a \in Addr, Covers(At(list, i), a) PROVE FALSE
  <2>1. At(list, i) = HeadCell \/ At(list, i) = TailCell
    BY <1>3, <1>4
  <2>2. At(list, i).addr <= a /\ a < EndOf(At(list, i))
    BY <1>9 DEF Covers
  <2>3. a \in Int /\ HeadAddr < a /\ a < TailAddr /\ HeadAddr \in Int /\ TailAddr \in Int
    BY Constants
  <2> QED
    BY <2>1, <2>2, <2>3, SentinelFacts
<1>10. Rep(list, content)
  BY <1>8, <1>9 DEF Rep
<1> QED
  BY <1>6, <1>7, <1>8, <1>10 DEF IInv, Good

(* A removal                                                               *)
LEMMA RemoveIInv ==
    ASSUME IInv, Room, NEW r \in Ranges, RemoveRange(r[1], r[2]) PROVE IInv'
<1> DEFINE start == r[1]
           end == r[1] + r[2]
<1>1. start \in Addr /\ r[2] \in 1 .. Hi - Lo + 1 /\ end <= Hi + 1
  BY AddrAssumption
<1>2. start \in Int /\ end \in Int /\ start < end
  BY <1>1, Constants
<1>3. Good(list, m_sm, content)
  BY DEF IInv
<1>4. list' = Opened(start, end).list /\ m_sm' = Opened(start, end).m_sm /\ Bytes!Erase(start, r[2])
  BY DEF RemoveRange
<1>5. content' = Erased(content, start, end)
  BY <1>4, EraseFacts
<1> HIDE DEF start, end
<1>6. PICK l, m, after :
         /\ Opened(start, end) = Work(l, m, after, after + 1)
         /\ Good(l, m, Erased(content, start, end))
  BY <1>1, <1>2, <1>3, OpenedFacts
<1>7. list' = l /\ m_sm' = m
  BY <1>4, <1>6 DEF Work
<1>8. Good(list', m_sm', content')
  BY <1>5, <1>6, <1>7
<1>9. content' = [a \in Addr |-> content'[a]]
  BY <1>5 DEF Erased
<1> QED
  BY <1>8, <1>9 DEF IInv, Good, Wf, Index, Rep, Chain

(* A merge                                                                 *)
LEMMA MergeIInv ==
    ASSUME IInv, Room, NEW src \in Sources, Merge(src) PROVE IInv'
<1> DEFINE start == At(src, 1).addr
           end == EndOf(At(src, Size(src)))
           cells == Allocated(src)
<1>1. start \in Addr /\ end \in Int /\ start < end /\ end <= Hi + 1
  BY SourceRange
<1>2. Good(list, m_sm, content) /\ list \in Seqs(Sound)
  BY DEF IInv, Good, Wf
<1>3. /\ list' = Splice(Opened(start, end).list, Opened(start, end).after, Opened(start, end).before, cells)
      /\ m_sm' = Enter(Opened(start, end).m_sm, cells)
      /\ Bytes!Put(src)
  BY DEF Merge, At, Size
<1>4. /\ \A i \in 1 .. Size(src), a \in Addr : Covers(At(src, i), a) => content'[a] = Byte(At(src, i), a)
      /\ \A a \in Addr : (\A i \in 1 .. Size(src) : ~Covers(At(src, i), a))
            => content'[a] = Erased(content, start, end)[a]
      /\ content' = [a \in Addr |-> content'[a]]
  BY <1>3, PutFacts
<1>5. PICK l, m, after :
         /\ Opened(start, end) = Work(l, m, after, after + 1)
         /\ Good(l, m, Erased(content, start, end)) /\ Open(l, start, end, after, after + 1)
         /\ IdsOf(l) \subseteq IdsOf(list) \cup Parts
  <2> HIDE DEF start, end
  <2> QED
    BY <1>1, <1>2, OpenedFacts
<1>6. list' = Splice(l, after, after + 1, cells) /\ m_sm' = Enter(m, cells)
  BY <1>3, <1>5 DEF Work
<1>7. Good(Splice(l, after, after + 1, cells), Enter(m, cells), content')
  BY <1>2, <1>4, <1>5, InsertFacts
<1>8. Good(list', m_sm', content')
  BY <1>6, <1>7
<1> QED
  BY <1>4, <1>8 DEF IInv, Good, Wf, Index, Rep, Chain

LEMMA NextIInv == IInv /\ [Next]_vars => IInv'
<1> SUFFICES ASSUME IInv, [Next]_vars PROVE IInv'
  OBVIOUS
<1>1. CASE UNCHANGED vars
  BY <1>1 DEF vars, IInv, Good, Wf, Index, Rep, Chain
<1>2. CASE Next
  <2>1. Room
    BY <1>2 DEF Next, Room
  <2>2. CASE \E src \in Sources : Merge(src)
    BY <2>1, <2>2, MergeIInv
  <2>3. CASE \E r \in Ranges : RemoveRange(r[1], r[2])
    BY <2>1, <2>3, RemoveIInv
  <2> QED
    BY <1>2, <2>2, <2>3 DEF Next
<1> QED
  BY <1>1, <1>2

LEMMA AlwaysIInv == Spec => []IInv
<1>1. Init => IInv
  BY InitIInv
<1>2. IInv /\ [Next]_vars => IInv'
  BY NextIInv
<1> QED
  BY <1>1, <1>2, PTL DEF Spec

-----------------------------------------------------------------------------
(* What the inductive invariant says of one cell of the list               *)
LEMMA ListCells ==
    ASSUME IInv
    PROVE  /\ Wf(list) /\ Index(list, m_sm) /\ Rep(list, content)
           /\ Size(list) \in Nat /\ Size(list) >= 2 /\ DOMAIN list = 1 .. Size(list)
           /\ \A i \in 1 .. Size(list) : At(list, i) \in Sound
<1>1. Wf(list) /\ Index(list, m_sm) /\ Rep(list, content)
  BY DEF IInv, Good
<1>2. list \in Seqs(Sound) /\ Size(list) >= 2
  BY <1>1 DEF Wf
<1> QED
  BY <1>1, <1>2, SizeFacts, AtFacts, DomFacts

(* A byte that a sound cell covers is a byte of a symbolic expression.     *)
LEMMA ByteFacts ==
    ASSUME NEW c \in Sound, NEW a \in Addr, Covers(c, a)
    PROVE  Byte(c, a) \in SymByte
<1>1. c.addr <= a /\ a < EndOf(c) /\ a \in Int /\ HeadAddr < a /\ a < TailAddr
      /\ HeadAddr \in Int /\ TailAddr \in Int
  BY Constants DEF Covers
<1>2. c # HeadCell /\ c # TailCell
  BY <1>1, SentinelFacts
<1>3. c \in Inner
  BY <1>2 DEF Sound
<1>4. c.addr \in Int /\ c.size \in Nat /\ EndOf(c) = c.addr + c.size
  BY <1>3, InnerFacts
<1>5. c.expr \in Seqs(SymByte) /\ Size(c.expr) = c.size
  BY <1>3 DEF Inner, Cells, Seqs, Size
<1>6. a - c.addr + 1 \in 1 .. Size(c.expr)
  BY <1>1, <1>4, <1>5
<1> QED
  BY <1>5, <1>6, AtFacts DEF Byte

LEMMA CellTypes ==
    ASSUME NEW c \in Sound
    PROVE  /\ c.id \in Ids /\ c.addr \in Addr \cup {HeadAddr, TailAddr}
           /\ c.size = Len(c.expr) /\ ToSet(c.expr) \subseteq SymByte
<1>1. CASE c \in Inner
  <2>1. c.expr \in Seqs(SymByte) /\ c.size = Len(c.expr) /\ c.addr \in Addr /\ c.id \in Ids
    BY <1>1, InnerFacts DEF Inner, Cells, Seqs
  <2>2. \A i \in DOMAIN c.expr : At(c.expr, i) \in SymByte
    BY <2>1, DomFacts, AtFacts
  <2> QED
    BY <2>1, <2>2 DEF ToSet, At
<1>2. CASE c \in {HeadCell, TailCell}
  <2>1. c.expr = <<>> /\ c.size = 0
    BY <1>2 DEF HeadCell, TailCell, SymCell
  <2>2. c.size = Len(c.expr) /\ DOMAIN c.expr = {}
    BY <2>1
  <2>3. ToSet(c.expr) \subseteq SymByte
    BY <2>2 DEF ToSet
  <2> QED
    BY <1>2, <2>2, <2>3, SentinelFacts
<1> QED
  BY <1>1, <1>2 DEF Sound

(***************************************************************************)
(* The type invariant: every cell, the copies that splits leave in the     *)
(* list included, carries as many symbolic bytes as its size, and m_sm     *)
(* refers to cells only (SymList.h, class SymCell and m_sm).               *)
(***************************************************************************)
THEOREM TypeCorrect == Spec => []TypeOK
<1>1. ASSUME IInv PROVE TypeOK
  <2>1. \A i \in DOMAIN list :
          /\ list[i].id \in Ids /\ list[i].addr \in Addr \cup {HeadAddr, TailAddr}
          /\ list[i].size = Len(list[i].expr) /\ ToSet(list[i].expr) \subseteq SymByte
    <3> SUFFICES ASSUME NEW i \in 1 .. Size(list), NEW c, c = list[i]
                 PROVE  /\ c.id \in Ids /\ c.addr \in Addr \cup {HeadAddr, TailAddr}
                        /\ c.size = Len(c.expr) /\ ToSet(c.expr) \subseteq SymByte
      BY <1>1, ListCells
    <3>1. c \in Sound
      BY <1>1, ListCells DEF At
    <3> QED
      BY <3>1, CellTypes
  <2>2. ASSUME NEW k \in DOMAIN m_sm PROVE m_sm[k] \in Ids
    <3>1. PICK i \in 1 .. Size(list) : k = CellKey(At(list, i)) /\ m_sm[k] = At(list, i).id
      BY <1>1, ListCells DEF Index
    <3> QED
      BY <1>1, <3>1, ListCells, SoundFacts
  <2>3. ASSUME NEW a \in Addr PROVE content[a] \in SymByte \cup {NoSym}
    <3>1. CASE \E i \in 1 .. Size(list) : Covers(At(list, i), a)
      <4>1. PICK i \in 1 .. Size(list) : Covers(At(list, i), a)
        BY <3>1
      <4>2. content[a] = Byte(At(list, i), a) /\ At(list, i) \in Sound
        BY <1>1, <4>1, ListCells DEF Rep
      <4> QED
        BY <4>1, <4>2, ByteFacts
    <3>2. CASE ~\E i \in 1 .. Size(list) : Covers(At(list, i), a)
      BY <1>1, <3>2, ListCells DEF Rep
    <3> QED
      BY <3>1, <3>2
  <2>4. content \in [Addr -> SymByte \cup {NoSym}]
    BY <1>1, <2>3 DEF IInv
  <2> QED
    BY <2>1, <2>2, <2>4 DEF TypeOK
<1> QED
  BY <1>1, AlwaysIInv, PTL

(***************************************************************************)
(* After any sequence of merges, splits and removals the cells lie in      *)
(* address order between the sentinels, none is empty and no two overlap   *)
(* (SymList.cpp, Merge, Remove and the three splits).                      *)
(***************************************************************************)
THEOREM ListAlwaysOrdered == Spec => []ListOrdered
<1>1. ASSUME IInv PROVE ListOrdered
  <2>1. PICK n \in Nat : n = Size(list) /\ n >= 2
    BY <1>1, ListCells
  <2>2. At(list, 1).id = HeadId /\ At(list, n).id = TailId
    BY <1>1, <2>1, ListCells, SentinelFacts DEF Wf
  <2>3. \A i \in 1 .. n - 1 : EndOf(At(list, i)) <= At(list, i + 1).addr
    <3> SUFFICES ASSUME NEW i \in 1 .. n - 1 PROVE EndOf(At(list, i)) <= At(list, i + 1).addr
      OBVIOUS
    <3>1. i \in 1 .. n /\ i + 1 \in 1 .. n /\ i < i + 1
      BY <2>1
    <3> QED
      BY <1>1, <2>1, <3>1, ListCells DEF Wf, Chain, Before
  <2>4. \A i \in 2 .. n - 1 : At(list, i).size > 0
    BY <1>1, <2>1, ListCells, WfInner, InnerFacts
  <2> QED
    BY <2>1, <2>2, <2>3, <2>4 DEF ListOrdered, At, Size
<1> QED
  BY <1>1, AlwaysIInv, PTL

(***************************************************************************)
(* m_sm has an entry for the start of every cell of the list and for       *)
(* nothing else, and the entry leads to that cell: the updates of m_sm in  *)
(* the splits, in Remove and in Merge keep pace with the links             *)
(* (SymList.cpp:148-150, 255, 265).                                        *)
(***************************************************************************)
THEOREM IndexAlwaysExact == Spec => []IndexExact
<1>1. ASSUME IInv PROVE IndexExact
  <2> DEFINE keyOf(i) == IF i = 1 THEN HeadKey ELSE ADDR_TO_KEY(list[i].addr)
  <2>1. PICK n \in Nat : n = Size(list) /\ n >= 2 /\ DOMAIN list = 1 .. n
    BY <1>1, ListCells
  <2>2. ASSUME NEW i \in 1 .. n PROVE keyOf(i) = CellKey(At(list, i))
    <3>1. CASE i = 1
      BY <1>1, <3>1, ListCells, SentinelFacts DEF Wf, CellKey
    <3>2. CASE i # 1
      <4>1. 1 \in 1 .. n /\ 1 < i
        BY <2>1, <3>2
      <4>2. At(list, 1).id # At(list, i).id /\ At(list, 1).id = HeadId
        BY <1>1, <2>1, <4>1, ListCells, SentinelFacts DEF Wf, Chain, Before
      <4> QED
        BY <3>2, <4>2 DEF CellKey, At
    <3> QED
      BY <3>1, <3>2
  <2>3. /\ DOMAIN m_sm = { CellKey(At(list, i)) : i \in 1 .. n }
        /\ \A i \in 1 .. n : m_sm[CellKey(At(list, i))] = At(list, i).id
    BY <1>1, <2>1, ListCells DEF Index
  <2> HIDE DEF keyOf
  <2>4. { keyOf(i) : i \in 1 .. n } = { CellKey(At(list, i)) : i \in 1 .. n }
    BY <2>2
  <2>5. \A i \in 1 .. n : m_sm[keyOf(i)] = list[i].id
    BY <2>2, <2>3 DEF At
  <2>6. DOMAIN m_sm = { keyOf(i) : i \in DOMAIN list } /\ \A i \in DOMAIN list : m_sm[keyOf(i)] = list[i].id
    BY <2>1, <2>3, <2>4, <2>5
  <2> QED
    BY <2>6 DEF IndexExact, keyOf
<1> QED
  BY <1>1, AlwaysIInv, PTL

(***************************************************************************)
(* Whatever range is asked for, both walks of GetAffectedCells stop before *)
(* the end of the list, and the shortcut through m_sm gives the cell that  *)
(* the walk would have found (SymList.cpp:62-110).                         *)
(***************************************************************************)
THEOREM WalksAlwaysEnd == Spec => []WalksEnd
<1>1. ASSUME IInv PROVE WalksEnd
  <2> SUFFICES ASSUME NEW r \in Ranges
               PROVE  /\ StopsAfter(list, r[1]) # {}
                      /\ ADDR_TO_KEY(r[1]) \in DOMAIN m_sm => StopsAfter(list, r[1]) = {FromPos(list, m_sm, r[1])}
                      /\ StopsBefore(list, FromPos(list, m_sm, r[1]), r[1] + r[2]) # {}
    BY DEF WalksEnd, FromPos
  <2> DEFINE start == r[1]
             end == r[1] + r[2]
             from == FromPos(list, m_sm, start)
  <2>1. start \in Addr /\ r[2] \in 1 .. Hi - Lo + 1 /\ end <= Hi + 1
    BY AddrAssumption
  <2>2. start \in Int /\ end \in Int /\ start < end
    BY <2>1, Constants
  <2> HIDE DEF start, end
  <2>3. StopsAfter(list, start) # {}
    BY <1>1, <2>1, ListCells, AfterFacts
  <2>4. /\ from \in 1 .. Size(list) - 1 /\ EndOf(At(list, from)) <= start
        /\ ADDR_TO_KEY(start) \in DOMAIN m_sm => StopsAfter(list, start) = {from}
    BY <1>1, <2>1, ListCells, FromFacts
  <2> HIDE DEF from
  <2>5. EndOf(At(list, from)) \in Int
    <3>1. from \in 1 .. Size(list)
      BY <1>1, <2>4, ListCells
    <3> QED
      BY <1>1, <3>1, ListCells, SoundFacts
  <2>6. EndOf(At(list, from)) <= end
    BY <2>2, <2>4, <2>5
  <2>7. StopsBefore(list, from, end) # {}
    BY <1>1, <2>1, <2>2, <2>4, <2>6, ListCells, BeforeFacts
  <2> QED
    BY <2>3, <2>4, <2>7 DEF start, end, from
<1> QED
  BY <1>1, AlwaysIInv, PTL

(***************************************************************************)
(* The list stands, byte by byte, for the store of module SymBytes: Merge  *)
(* puts its cells there and Remove erases its range, however the cells are *)
(* split and relinked on the way (SymList.cpp, Merge and Remove).          *)
(***************************************************************************)
THEOREM ListAlwaysImplementsStore == Spec => []ListImplementsStore
<1>1. ASSUME IInv PROVE ListImplementsStore
  <2> SUFFICES ASSUME NEW a \in Addr
               PROVE  content[a] = IF Bytes!Covering(list, a) = {} THEN NoSym ELSE Bytes!Denotes(list)[a]
    BY DEF ListImplementsStore
  <2>1. PICK n \in Nat : n = Size(list) /\ DOMAIN list = 1 .. n
    BY <1>1, ListCells
  <2>2. Bytes!Covering(list, a) = { i \in 1 .. n : Covers(At(list, i), a) }
    BY <2>1 DEF Bytes!Covering, Covers, At, EndOf
  <2>3. CASE Bytes!Covering(list, a) = {}
    <3>1. \A i \in 1 .. n : ~Covers(At(list, i), a)
      BY <2>2, <2>3
    <3> QED
      BY <1>1, <2>1, <2>3, <3>1, ListCells DEF Rep
  <2>4. CASE Bytes!Covering(list, a) # {}
    <3>1. PICK j : j = CHOOSE i \in Bytes!Covering(list, a) : TRUE
      OBVIOUS
    <3>2. j \in 1 .. n /\ Covers(At(list, j), a)
      BY <2>2, <2>4, <3>1
    <3>3. Bytes!Denotes(list)[a] = list[j].expr[a - list[j].addr + 1]
      BY <2>4, <3>1 DEF Bytes!Denotes
    <3>4. content[a] = Byte(At(list, j), a)
      BY <1>1, <2>1, <3>2, ListCells DEF Rep
    <3> QED
      BY <2>4, <3>3, <3>4 DEF Byte, At
  <2> QED
    BY <2>3, <2>4
<1> QED
  BY <1>1, AlwaysIInv, PTL

-----------------------------------------------------------------------------
(***************************************************************************)
(* Reads.  A read splits copies of cells, which do not enter the list:     *)
(* their ids do not matter.                                                *)
(***************************************************************************)
Loose ==
    [id : Ids \cup { NewPart(a) : a \in Int }, addr : Int, size : Nat, expr : Seq(SymByte)]

LEMMA LooseFacts ==
    /\ Sound \subseteq Loose
    /\ \A c \in Loose : c.addr \in Int /\ EndOf(c) \in Int /\ EndOf(c) = c.addr + c.size /\ c.size \in Nat
<1>1. ASSUME NEW c \in Inner PROVE c \in Loose
  BY DEF Inner, Cells, Loose
<1>2. <<>> \in Seq(SymByte)
  OBVIOUS
<1>3. HeadCell \in Loose /\ TailCell \in Loose
  BY <1>2, SentinelFacts, Constants DEF HeadCell, TailCell, SymCell, Loose
<1>4. ASSUME NEW c \in Loose
      PROVE  c.addr \in Int /\ EndOf(c) \in Int /\ EndOf(c) = c.addr + c.size /\ c.size \in Nat
  BY DEF Loose, EndOf
<1> QED
  BY <1>1, <1>3, <1>4 DEF Sound

(* A part of a copy                                                        *)
Copied(p, c, x, y) ==
    /\ p \in Loose /\ p.addr = x /\ EndOf(p) = y
    /\ \A a \in Addr : Covers(p, a) => Byte(p, a) = Byte(c, a)

LEMMA LooseCut ==
    ASSUME NEW c \in Inner, NEW id \in Ids \cup { NewPart(a) : a \in Int },
           NEW x \in Int, NEW y \in Int, c.addr <= x, x < y, y <= EndOf(c)
    PROVE  Copied(CutCell(c, id, x, y), c, x, y)
<1>1. PICK p : p = CutCell(c, id, x, y)
  OBVIOUS
<1>2. Cut(p, c, id, x, y)
  BY <1>1, CutBytes
<1>3. p \in Loose
  BY <1>2 DEF Cut, Loose
<1> QED
  BY <1>1, <1>2, <1>3 DEF Cut, Copied

(* The cells of a stretch have the store's bytes, and have every symbol    *)
(* that the store holds in the range.                                      *)
Seen(l, lo, hi, start, end) ==
    /\ \A i \in lo .. hi, a \in Addr : Covers(At(l, i), a) => content[a] = Byte(At(l, i), a)
    /\ \A a \in Addr : start <= a /\ a < end /\ content[a] # NoSym => \E i \in lo .. hi : Covers(At(l, i), a)

(* A copy that is cut in two: the other copies stay, the parts are two.    *)
LEMMA LooseTwo ==
    ASSUME NEW l \in Seqs(Loose), NEW i \in 1 .. Size(l), At(l, i) \in Inner,
           NEW u \in Ids \cup { NewPart(a) : a \in Int }, NEW v \in Ids \cup { NewPart(a) : a \in Int },
           NEW x \in Int, At(l, i).addr < x, x < EndOf(At(l, i)),
           NEW p, p = CutCell(At(l, i), u, At(l, i).addr, x), NEW q, q = CutCell(At(l, i), v, x, EndOf(At(l, i)))
    PROVE  LET r == Splice(l, i - 1, i + 1, <<p, q>>)
           IN  /\ r \in Seqs(Loose) /\ Size(r) = Size(l) + 1
               /\ \A k \in 1 .. i - 1 : At(r, k) = At(l, k)
               /\ At(r, i) = p /\ At(r, i + 1) = q
               /\ \A k \in i + 1 .. Size(l) : At(r, k + 1) = At(l, k)
               /\ p.addr = At(l, i).addr /\ EndOf(p) = x /\ q.addr = x /\ EndOf(q) = EndOf(At(l, i))
               /\ \A a \in Addr : Covers(p, a) => Byte(p, a) = Byte(At(l, i), a)
               /\ \A a \in Addr : Covers(q, a) => Byte(q, a) = Byte(At(l, i), a)
<1> DEFINE c == At(l, i)
           mid == <<p, q>>
           r == Splice(l, i - 1, i + 1, mid)
<1>1. c.addr \in Int /\ EndOf(c) \in Int /\ c.addr <= c.addr /\ EndOf(c) <= EndOf(c)
  BY InnerFacts
<1>2. c.addr <= x /\ x <= EndOf(c)
  BY <1>1
<1>3. /\ p \in Loose /\ p.addr = c.addr /\ EndOf(p) = x
      /\ \A a \in Addr : Covers(p, a) => Byte(p, a) = Byte(c, a)
  <2>1. Copied(CutCell(c, u, c.addr, x), c, c.addr, x)
    BY <1>1, <1>2, LooseCut
  <2> QED
    BY <2>1 DEF Copied
<1>4. /\ q \in Loose /\ q.addr = x /\ EndOf(q) = EndOf(c)
      /\ \A a \in Addr : Covers(q, a) => Byte(q, a) = Byte(c, a)
  <2>1. Copied(CutCell(c, v, x, EndOf(c)), c, x, EndOf(c))
    BY <1>1, <1>2, LooseCut
  <2> QED
    BY <2>1 DEF Copied
<1>5. mid \in Seqs(Loose) /\ Size(mid) = 2 /\ At(mid, 1) = p /\ At(mid, 2) = q
  BY <1>3, <1>4, TwoFacts
<1> HIDE DEF mid, c
<1>6. PICK n \in Nat : n = Size(l)
  BY SizeFacts
<1>7. i - 1 \in 0 .. Size(l) /\ i + 1 \in (i - 1) + 1 .. Size(l) + 1 /\ i \in Int
  BY <1>6
<1>8. /\ r \in Seqs(Loose) /\ Size(r) = ((i - 1) + 2) + (n - (i + 1) + 1)
      /\ \A k \in 1 .. i - 1 : At(r, k) = At(l, k)
      /\ \A k \in 1 .. 2 : At(r, (i - 1) + k) = At(mid, k)
      /\ \A k \in i + 1 .. n : At(r, ((i - 1) + 2) + (k - (i + 1) + 1)) = At(l, k)
  BY <1>5, <1>6, <1>7, SpliceFacts
<1> HIDE DEF r
<1>9. Size(r) = n + 1
  BY <1>7, <1>8
<1>10. At(r, i) = p /\ At(r, i + 1) = q
  <2>1. (i - 1) + 1 = i /\ (i - 1) + 2 = i + 1 /\ 1 \in 1 .. 2 /\ 2 \in 1 .. 2
    BY <1>7
  <2> QED
    BY <1>5, <1>8, <2>1
<1>11. ASSUME NEW k \in i + 1 .. n PROVE At(r, k + 1) = At(l, k)
  <2>1. ((i - 1) + 2) + (k - (i + 1) + 1) = k + 1
    BY <1>7
  <2> QED
    BY <1>8, <2>1
<1> QED
  BY <1>3, <1>4, <1>6, <1>8, <1>9, <1>10, <1>11 DEF r, mid, c

(* The first copy loses what lies below the range: the rest of it is seen. *)
LEMMA SeenHead ==
    ASSUME NEW l \in Seqs(Loose), NEW z \in Nat, z = Size(l), z >= 2, NEW start \in Addr, NEW end \in Int,
           Seen(l, 1, z, start, end), At(l, 1) \in Inner, At(l, 1).addr < start, start < EndOf(At(l, 1)),
           NEW r, r = Splice(l, 0, 2, <<CutCell(At(l, 1), At(l, 1).id, At(l, 1).addr, start),
                                        CutCell(At(l, 1), NewPart(start), start, EndOf(At(l, 1)))>>)
    PROVE  r \in Seqs(Loose) /\ Size(r) = z + 1 /\ Seen(r, 2, z + 1, start, end) /\ At(r, z + 1) = At(l, z)
<1> DEFINE c == At(l, 1)
           p == CutCell(c, c.id, c.addr, start)
           q == CutCell(c, NewPart(start), start, EndOf(c))
<1>1. start \in Int /\ c.addr \in Int /\ EndOf(c) \in Int /\ c.id \in Ids
  BY Constants, InnerFacts
<1>2. 1 \in 1 .. Size(l) /\ 1 - 1 = 0 /\ 1 + 1 = 2
  OBVIOUS
<1>3. NewPart(start) \in Ids \cup { NewPart(a) : a \in Int } /\ c.id \in Ids \cup { NewPart(a) : a \in Int }
  BY <1>1
<1>4. PICK w, y : w = p /\ y = q
  OBVIOUS
<1>5. r = Splice(l, 0, 2, <<w, y>>)
  BY <1>4
<1>6. LET s == Splice(l, 1 - 1, 1 + 1, <<w, y>>)
      IN  /\ s \in Seqs(Loose) /\ Size(s) = z + 1
          /\ At(s, 1 + 1) = y
          /\ \A k \in 1 + 1 .. z : At(s, k + 1) = At(l, k)
          /\ y.addr = start /\ EndOf(y) = EndOf(c)
          /\ \A a \in Addr : Covers(y, a) => Byte(y, a) = Byte(c, a)
  <2> HIDE DEF c
  <2>1. At(l, 1) \in Inner /\ At(l, 1) = c
    BY DEF c
  <2> QED
    BY <1>1, <1>2, <1>3, <1>4, <2>1, LooseTwo
<1>7. /\ r \in Seqs(Loose) /\ Size(r) = z + 1 /\ At(r, 2) = y
      /\ \A k \in 2 .. z : At(r, k + 1) = At(l, k)
      /\ y.addr = start /\ EndOf(y) = EndOf(c)
      /\ \A a \in Addr : Covers(y, a) => Byte(y, a) = Byte(c, a)
  BY <1>2, <1>5, <1>6
<1> HIDE DEF c, p, q
<1>8. At(r, z + 1) = At(l, z)
  <2>1. z \in 2 .. z
    OBVIOUS
  <2> QED
    BY <1>7, <2>1
<1>9. \A a \in Addr : Covers(y, a) <=> Covers(c, a) /\ start <= a
  BY <1>1, <1>7, Constants DEF Covers, c
<1>10. \A i \in 1 .. z, a \in Addr : Covers(At(l, i), a) => content[a] = Byte(At(l, i), a)
  BY DEF Seen
<1>11. ASSUME NEW i \in 2 .. z + 1, NEW a \in Addr, Covers(At(r, i), a) PROVE content[a] = Byte(At(r, i), a)
  <2>1. CASE i = 2
    <3>1. At(r, i) = y /\ Covers(c, a) /\ Byte(y, a) = Byte(c, a)
      BY <1>7, <1>9, <1>11, <2>1
    <3> QED
      BY <1>2, <1>10, <3>1 DEF c
  <2>2. CASE i # 2
    <3>1. i - 1 \in 2 .. z /\ (i - 1) + 1 = i /\ i - 1 \in 1 .. z
      BY <2>2
    <3>2. At(r, i) = At(l, i - 1)
      BY <1>7, <3>1
    <3> QED
      BY <1>10, <1>11, <3>1, <3>2
  <2> QED
    BY <2>1, <2>2
<1>12. ASSUME NEW a \in Addr, start <= a, a < end, content[a] # NoSym
       PROVE  \E i \in 2 .. z + 1 : Covers(At(r, i), a)
  <2>1. PICK i \in 1 .. z : Covers(At(l, i), a)
    BY <1>12 DEF Seen
  <2>2. CASE i = 1
    <3>1. Covers(At(r, 2), a) /\ 2 \in 2 .. z + 1
      BY <1>7, <1>9, <1>12, <2>1, <2>2 DEF c
    <3> QED
      BY <3>1
  <2>3. CASE i # 1
    <3>1. i \in 2 .. z /\ i + 1 \in 2 .. z + 1
      BY <2>3
    <3>2. Covers(At(r, i + 1), a)
      BY <1>7, <2>1, <3>1
    <3> QED
      BY <3>1, <3>2
  <2> QED
    BY <2>2, <2>3
<1>13. Seen(r, 2, z + 1, start, end)
  BY <1>11, <1>12 DEF Seen
<1> QED
  BY <1>7, <1>8, <1>13

(* The last copy loses what lies above the range.                          *)
LEMMA SeenTail ==
    ASSUME NEW l \in Seqs(Loose), NEW z \in Nat, z = Size(l), z >= 2, NEW start \in Addr, NEW end \in Int,
           Seen(l, 2, z, start, end), At(l, z) \in Inner, At(l, z).addr < end, end < EndOf(At(l, z)),
           NEW r, r = Splice(l, z - 1, z + 1, <<CutCell(At(l, z), NewPart(At(l, z).addr), At(l, z).addr, end),
                                                CutCell(At(l, z), At(l, z).id, end, EndOf(At(l, z)))>>)
    PROVE  r \in Seqs(Loose) /\ Size(r) = z + 1 /\ Seen(r, 2, z, start, end)
<1> DEFINE c == At(l, z)
           p == CutCell(c, NewPart(c.addr), c.addr, end)
           q == CutCell(c, c.id, end, EndOf(c))
<1>1. c.addr \in Int /\ EndOf(c) \in Int /\ c.id \in Ids
  BY InnerFacts
<1>2. z \in 1 .. Size(l)
  OBVIOUS
<1>3. NewPart(c.addr) \in Ids \cup { NewPart(a) : a \in Int } /\ c.id \in Ids \cup { NewPart(a) : a \in Int }
  BY <1>1
<1>4. PICK w, y : w = p /\ y = q
  OBVIOUS
<1>5. r = Splice(l, z - 1, z + 1, <<w, y>>)
  BY <1>4
<1>6. /\ r \in Seqs(Loose) /\ Size(r) = z + 1
      /\ \A k \in 1 .. z - 1 : At(r, k) = At(l, k)
      /\ At(r, z) = w
      /\ w.addr = c.addr /\ EndOf(w) = end
      /\ \A a \in Addr : Covers(w, a) => Byte(w, a) = Byte(c, a)
  <2> HIDE DEF c
  <2>1. At(l, z) \in Inner /\ At(l, z) = c
    BY DEF c
  <2> QED
    BY <1>1, <1>2, <1>3, <1>4, <1>5, <2>1, LooseTwo
<1> HIDE DEF c, p, q
<1>7. \A a \in Addr : Covers(w, a) <=> Covers(c, a) /\ a < end
  BY <1>1, <1>6, Constants DEF Covers, c
<1>8. \A i \in 2 .. z, a \in Addr : Covers(At(l, i), a) => content[a] = Byte(At(l, i), a)
  BY DEF Seen
<1>9. z \in 2 .. z
  OBVIOUS
<1>10. ASSUME NEW i \in 2 .. z, NEW a \in Addr, Covers(At(r, i), a) PROVE content[a] = Byte(At(r, i), a)
  <2>1. CASE i = z
    <3>1. At(r, i) = w /\ Covers(c, a) /\ Byte(w, a) = Byte(c, a)
      BY <1>6, <1>7, <1>10, <2>1
    <3> QED
      BY <1>8, <1>9, <3>1 DEF c
  <2>2. CASE i # z
    <3>1. i \in 1 .. z - 1
      BY <2>2
    <3> QED
      BY <1>6, <1>8, <1>10, <3>1
  <2> QED
    BY <2>1, <2>2
<1>11. ASSUME NEW a \in Addr, start <= a, a < end, content[a] # NoSym
       PROVE  \E i \in 2 .. z : Covers(At(r, i), a)
  <2>1. PICK i \in 2 .. z : Covers(At(l, i), a)
    BY <1>11 DEF Seen
  <2>2. CASE i = z
    BY <1>6, <1>7, <1>9, <1>11, <2>1, <2>2 DEF c
  <2>3. CASE i # z
    <3>1. i \in 1 .. z - 1
      BY <2>3
    <3> QED
      BY <1>6, <2>1, <3>1
  <2> QED
    BY <2>2, <2>3
<1>12. Seen(r, 2, z, start, end)
  BY <1>10, <1>11 DEF Seen
<1> QED
  BY <1>6, <1>12

(* A single copy that reaches past both ends of the range                  *)
LEMMA SeenThree ==
    ASSUME NEW l \in Seqs(Loose), Size(l) = 1, NEW start \in Addr, NEW end \in Int, start < end,
           Seen(l, 1, 1, start, end), At(l, 1) \in Inner, At(l, 1).addr < start, end < EndOf(At(l, 1)),
           NEW r, r = Splice(l, 0, 2, <<CutCell(At(l, 1), At(l, 1).id, At(l, 1).addr, start),
                                        CutCell(At(l, 1), NewPart(start), start, end),
                                        CutCell(At(l, 1), NewPart(end), end, EndOf(At(l, 1)))>>)
    PROVE  r \in Seqs(Loose) /\ Size(r) = 3 /\ Seen(r, 2, 2, start, end)
<1>1. PICK c \in Inner : c = At(l, 1)
  OBVIOUS
<1>2. PICK p, q, s : /\ p = CutCell(c, c.id, c.addr, start)
                     /\ q = CutCell(c, NewPart(start), start, end)
                     /\ s = CutCell(c, NewPart(end), end, EndOf(c))
  OBVIOUS
<1>3. start \in Int /\ c.addr \in Int /\ EndOf(c) \in Int /\ c.id \in Ids
  BY Constants, InnerFacts
<1>4. /\ c.addr <= c.addr /\ c.addr < start /\ c.addr <= start /\ start <= EndOf(c)
      /\ c.addr <= end /\ end <= EndOf(c) /\ EndOf(c) <= EndOf(c) /\ end < EndOf(c)
  BY <1>1, <1>3
<1>5. \A a \in Int : NewPart(a) \in Ids \cup { NewPart(b) : b \in Int }
  OBVIOUS
<1>6. Copied(p, c, c.addr, start) /\ Copied(q, c, start, end) /\ Copied(s, c, end, EndOf(c))
  <2>1. Copied(p, c, c.addr, start)
    BY <1>2, <1>3, <1>4, LooseCut
  <2>2. Copied(q, c, start, end)
    BY <1>2, <1>3, <1>4, <1>5, LooseCut
  <2>3. Copied(s, c, end, EndOf(c))
    BY <1>2, <1>3, <1>4, <1>5, LooseCut
  <2> QED
    BY <2>1, <2>2, <2>3
<1>7. PICK mid : mid = <<p, q, s>>
  OBVIOUS
<1>8. mid \in Seqs(Loose) /\ Size(mid) = 3 /\ At(mid, 2) = q
  BY <1>6, <1>7, ThreeFacts DEF Copied
<1>9. r = Splice(l, 0, 2, mid)
  BY <1>1, <1>2, <1>7
<1>10. 0 \in 0 .. Size(l) /\ 2 \in 0 + 1 .. Size(l) + 1
  OBVIOUS
<1>11. /\ r \in Seqs(Loose) /\ Size(r) = (0 + Size(mid)) + (Size(l) - 2 + 1)
       /\ \A k \in 1 .. Size(mid) : At(r, 0 + k) = At(mid, k)
  BY <1>8, <1>9, <1>10, SpliceFacts
<1>12. Size(r) = 3 /\ At(r, 2) = q
  <2>1. 2 \in 1 .. 3 /\ 0 + 2 = 2 /\ (0 + 3) + (1 - 2 + 1) = 3
    OBVIOUS
  <2> QED
    BY <1>8, <1>11, <2>1
<1>13. q.addr = start /\ EndOf(q) = end /\ \A a \in Addr : Covers(q, a) => Byte(q, a) = Byte(c, a)
  BY <1>6 DEF Copied
<1>14. \A a \in Addr : Covers(q, a) <=> start <= a /\ a < end
  BY <1>13 DEF Covers
<1>15. \A a \in Addr : Covers(q, a) => Covers(c, a)
  BY <1>3, <1>4, <1>14, Constants DEF Covers
<1>16. \A a \in Addr : Covers(c, a) => content[a] = Byte(c, a)
  <2>1. 1 \in 1 .. 1
    OBVIOUS
  <2> QED
    BY <1>1, <2>1 DEF Seen
<1>17. \A i \in 2 .. 2 : i = 2
  OBVIOUS
<1>18. 2 \in 2 .. 2
  OBVIOUS
<1>19. Seen(r, 2, 2, start, end)
  <2>1. \A i \in 2 .. 2, a \in Addr : Covers(At(r, i), a) => content[a] = Byte(At(r, i), a)
    BY <1>12, <1>13, <1>15, <1>16, <1>17
  <2>2. \A a \in Addr : start <= a /\ a < end => \E i \in 2 .. 2 : Covers(At(r, i), a)
    BY <1>12, <1>14, <1>18
  <2> QED
    BY <2>1, <2>2 DEF Seen
<1> QED
  BY <1>11, <1>12, <1>19

(* The copies of the cells from insertAfter to insertBefore                *)
LEMMA CopiesFacts ==
    ASSUME IInv, NEW start \in Addr, NEW end \in Int, start < end, end <= Hi + 1,
           NEW after, NEW before, Around(list, start, end, after, before),
           NEW l, l = Part(list, after, before)
    PROVE  /\ l \in Seqs(Loose) /\ Size(l) = before - after + 1 /\ Seen(l, 1, Size(l), start, end)
           /\ \A k \in 1 .. Size(l) : At(l, k) \in Sound /\ At(l, k) = At(list, after + k - 1)
           /\ At(l, 1).addr < start /\ end < EndOf(At(l, Size(l)))
           /\ start < EndOf(At(l, 1)) => At(l, 1) \in Inner
           /\ At(l, Size(l)).addr < end => At(l, Size(l)) \in Inner
           /\ Size(l) \in Nat /\ Size(l) >= 1 /\ after \in Int /\ before \in Int
<1>1. Wf(list) /\ Rep(list, content) /\ list \in Seqs(Sound)
  BY ListCells DEF Wf
<1>2. PICK n \in Nat : n = Size(list)
  BY <1>1, SizeFacts
<1>3. /\ after \in 1 .. n - 1 /\ before \in 2 .. n /\ after <= before /\ after \in 1 .. n /\ before \in 1 .. n
      /\ At(list, after).addr < start /\ end < EndOf(At(list, before))
  BY <1>2 DEF Around
<1>4. start \in Int /\ Lo <= start /\ Lo <= end
  BY Constants DEF Addr
<1>5. after \in 1 .. Size(list) + 1 /\ before \in after - 1 .. Size(list)
  BY <1>2, <1>3
<1>6. /\ l \in Seqs(Sound) /\ Size(l) = before - after + 1
      /\ \A k \in 1 .. before - after + 1 : At(l, k) = At(list, after + k - 1)
  BY <1>1, <1>5, PartFacts
<1>7. l \in Seqs(Loose)
  BY <1>6, LooseFacts, SeqMonotonic DEF Seqs
<1>8. PICK z \in Nat : z = before - after + 1 /\ z = Size(l) /\ z >= 1
  BY <1>3, <1>6
<1>9. \A k \in 1 .. z : At(l, k) \in Sound
  BY <1>6, <1>8, AtFacts
<1>10. after + 1 - 1 = after /\ after + z - 1 = before /\ 1 \in 1 .. z /\ z \in 1 .. z
  BY <1>3, <1>8
<1>11. At(l, 1) = At(list, after) /\ At(l, z) = At(list, before)
  BY <1>6, <1>8, <1>10
<1>12. \A k \in 1 .. n : At(list, k).addr \in Int /\ EndOf(At(list, k)) \in Int
  BY <1>1, <1>2, AtFacts, SoundFacts
<1>13. start < EndOf(At(l, 1)) => At(l, 1) \in Inner
  <2> SUFFICES ASSUME start < EndOf(At(list, after)) PROVE At(list, after) \in Inner
    BY <1>11
  <2>1. At(list, after).addr < end /\ after \in 1 .. Size(list)
    BY <1>2, <1>3, <1>4, <1>12
  <2>2. after \in 2 .. Size(list) - 1
    BY <1>1, <1>4, <2>1, NoSentinel
  <2> QED
    BY <1>1, <2>2, WfInner
<1>14. At(l, z).addr < end => At(l, z) \in Inner
  <2> SUFFICES ASSUME At(list, before).addr < end PROVE At(list, before) \in Inner
    BY <1>11
  <2>1. before \in 1 .. Size(list)
    BY <1>2, <1>3
  <2>2. before \in 2 .. Size(list) - 1
    BY <1>1, <1>3, <1>4, <2>1, NoSentinel
  <2> QED
    BY <1>1, <2>2, WfInner
<1>15. ASSUME NEW k \in 1 .. z, NEW a \in Addr, Covers(At(l, k), a) PROVE content[a] = Byte(At(l, k), a)
  <2>1. after + k - 1 \in 1 .. n
    BY <1>3, <1>8
  <2> QED
    BY <1>1, <1>2, <1>6, <1>8, <1>15, <2>1 DEF Rep
<1>16. ASSUME NEW a \in Addr, start <= a, a < end, content[a] # NoSym PROVE \E k \in 1 .. z : Covers(At(l, k), a)
  <2>1. PICK i \in 1 .. n : Covers(At(list, i), a)
    BY <1>1, <1>2, <1>16 DEF Rep
  <2>2. At(list, i).addr <= a /\ a < EndOf(At(list, i)) /\ a \in Int
    BY <2>1, Constants DEF Covers
  <2>3. after <= i
    <3> SUFFICES ASSUME i < after PROVE FALSE
      BY <1>3
    <3>1. EndOf(At(list, i)) <= At(list, after).addr
      BY <1>1, <1>2, <1>3, LaterCell
    <3>2. EndOf(At(list, i)) \in Int /\ At(list, after).addr \in Int
      BY <1>3, <1>12
    <3> QED
      BY <1>3, <1>4, <1>16, <2>2, <3>1, <3>2
  <2>4. i <= before
    <3> SUFFICES ASSUME before < i PROVE FALSE
      BY <1>3
    <3>1. EndOf(At(list, before)) <= At(list, i).addr
      BY <1>1, <1>2, <1>3, LaterCell
    <3>2. EndOf(At(list, before)) \in Int /\ At(list, i).addr \in Int
      BY <1>3, <1>12
    <3> QED
      BY <1>3, <1>4, <1>16, <2>2, <3>1, <3>2
  <2>5. PICK k \in 1 .. z : k = i - after + 1
    BY <1>3, <1>8, <2>3, <2>4
  <2>6. after + k - 1 = i
    BY <1>3, <2>5
  <2> QED
    BY <1>6, <1>8, <2>1, <2>6
<1>17. Seen(l, 1, z, start, end)
  BY <1>15, <1>16 DEF Seen
<1> QED
  BY <1>3, <1>6, <1>7, <1>8, <1>9, <1>11, <1>13, <1>14, <1>17

(* The split copies: between the two marks lies what the range holds.      *)
LEMMA ReadSplit ==
    ASSUME IInv, NEW start \in Addr, NEW end \in Int, start < end, end <= Hi + 1
    PROVE  \E l, m, v :
              /\ Split_Head_Tail(CreateSymbolList(GetAffectedCells(start, end)), start, end, TRUE)
                   = Work(l, m, 1, v)
              /\ l \in Seqs(Loose) /\ v \in 2 .. Size(l) /\ Seen(l, 2, v - 1, start, end)
<1>1. Wf(list) /\ Index(list, m_sm)
  BY ListCells
<1>2. PICK after, before :
         /\ Around(list, start, end, after, before)
         /\ GetAffectedCells(start, end) = Work(list, m_sm, after, before)
  BY <1>1, AffectedFacts DEF Work
<1>3. PICK l : l = Part(list, after, before)
  OBVIOUS
<1>4. PICK z \in Nat : z = Size(l) /\ z = before - after + 1 /\ z >= 1 /\ after \in Int /\ before \in Int
  BY <1>2, <1>3, CopiesFacts
<1>5. /\ l \in Seqs(Loose) /\ Seen(l, 1, z, start, end) /\ \A k \in 1 .. z : At(l, k) \in Sound
      /\ At(l, 1).addr < start /\ end < EndOf(At(l, z))
      /\ start < EndOf(At(l, 1)) => At(l, 1) \in Inner
      /\ At(l, z).addr < end => At(l, z) \in Inner
  BY <1>2, <1>3, <1>4, CopiesFacts
<1>6. CreateSymbolList(GetAffectedCells(start, end)) = Work(l, m_sm, 1, z)
  <2>1. PICK s : s = Work(list, m_sm, after, before)
    OBVIOUS
  <2>2. s.list = list /\ s.after = after /\ s.before = before /\ s.m_sm = m_sm
    BY <2>1 DEF Work
  <2>3. CreateSymbolList(s) = [s EXCEPT !.list = l, !.after = 1, !.before = z]
    BY <1>3, <1>4, <2>2 DEF CreateSymbolList, Part
  <2>4. [s EXCEPT !.list = l, !.after = 1, !.before = z] = Work(l, m_sm, 1, z)
    <3>1. PICK u : u = [s EXCEPT !.list = l, !.after = 1, !.before = z]
      OBVIOUS
    <3>2. DOMAIN s = {"list", "m_sm", "after", "before"}
      BY <2>1 DEF Work
    <3>3. u = [x \in {"list", "m_sm", "after", "before"} |-> u[x]]
      BY <3>1, <3>2
    <3>4. u.list = l /\ u.after = 1 /\ u.before = z /\ u.m_sm = m_sm
      BY <2>2, <3>1, <3>2
    <3> QED
      BY <3>1, <3>3, <3>4 DEF Work
  <2> QED
    BY <1>2, <2>1, <2>3, <2>4
<1>7. PICK s : s = Work(l, m_sm, 1, z)
  OBVIOUS
<1>8. s.list = l /\ s.m_sm = m_sm /\ s.after = 1 /\ s.before = z
  BY <1>7 DEF Work
<1>9. start \in Int /\ 1 \in 1 .. z /\ z \in 1 .. z
  BY <1>4, Constants
<1>10. /\ At(l, 1).addr \in Int /\ EndOf(At(l, 1)) \in Int
       /\ At(l, z).addr \in Int /\ EndOf(At(l, z)) \in Int
  BY <1>5, <1>9, SoundFacts
<1>11. CASE z = 1
  <2>1. EndOf(At(l, 1)) >= end /\ start < EndOf(At(l, 1))
    BY <1>5, <1>9, <1>10, <1>11
  <2>2. Split_Head_Tail(s, start, end, TRUE) = SplitCell3(s, start, end, TRUE)
    BY <1>8, <1>11, <2>1 DEF Split_Head_Tail, At
  <2>3. PICK r : r = Splice(l, 0, 2, <<CutCell(At(l, 1), At(l, 1).id, At(l, 1).addr, start),
                                       CutCell(At(l, 1), NewPart(start), start, end),
                                       CutCell(At(l, 1), NewPart(end), end, EndOf(At(l, 1)))>>)
    OBVIOUS
  <2>4. SplitCell3(s, start, end, TRUE) = Work(r, m_sm, 1, 3)
    <3>1. 1 - 1 = 0 /\ 1 + 1 = 2 /\ 1 + 2 = 3
      OBVIOUS
    <3> QED
      BY <1>8, <2>3, <3>1 DEF SplitCell3, Parted, Work, At
  <2>5. r \in Seqs(Loose) /\ Size(r) = 3 /\ Seen(r, 2, 2, start, end)
    BY <1>4, <1>5, <1>11, <2>1, <2>3, SeenThree
  <2>6. 3 \in 2 .. Size(r) /\ 3 - 1 = 2
    BY <2>5
  <2>7. Seen(r, 2, 3 - 1, start, end)
    BY <2>5, <2>6
  <2> QED
    BY <1>6, <1>7, <2>2, <2>4, <2>5, <2>6, <2>7
<1>12. CASE z # 1
  <2>1. z >= 2
    BY <1>4, <1>12
  <2>2. PICK h : h = IF EndOf(At(l, 1)) > start THEN SeplitCell_Head(s, start, TRUE) ELSE s
    OBVIOUS
  <2>3. Split_Head_Tail(s, start, end, TRUE)
          = IF h.list[h.before].addr < end THEN SeplitCell_Tail(h, end, TRUE) ELSE h
    BY <1>8, <1>12, <2>2 DEF Split_Head_Tail, At
  <2>4. \E k, y : /\ h = Work(k, m_sm, 1, y) /\ k \in Seqs(Loose) /\ y \in Nat /\ y = Size(k) /\ y >= 2
                  /\ Seen(k, 2, y, start, end) /\ At(k, y) = At(l, z)
    <3>1. CASE EndOf(At(l, 1)) > start
      <4>1. PICK r : r = Splice(l, 0, 2, <<CutCell(At(l, 1), At(l, 1).id, At(l, 1).addr, start),
                                           CutCell(At(l, 1), NewPart(start), start, EndOf(At(l, 1)))>>)
        OBVIOUS
      <4>2. SeplitCell_Head(s, start, TRUE) = Work(r, m_sm, 1, z + 1)
        <5>1. 1 - 1 = 0 /\ 1 + 1 = 2
          OBVIOUS
        <5> QED
          BY <1>8, <4>1, <5>1 DEF SeplitCell_Head, Parted, Work, At
      <4>3. start < EndOf(At(l, 1))
        BY <1>9, <1>10, <3>1
      <4>4. r \in Seqs(Loose) /\ Size(r) = z + 1 /\ Seen(r, 2, z + 1, start, end) /\ At(r, z + 1) = At(l, z)
        <5>1. At(l, 1) \in Inner
          BY <1>5, <4>3
        <5>2. l \in Seqs(Loose) /\ z = Size(l) /\ Seen(l, 1, z, start, end) /\ At(l, 1).addr < start
          BY <1>4, <1>5
        <5> QED
          BY <2>1, <4>1, <4>3, <5>1, <5>2, SeenHead
      <4>5. h = Work(r, m_sm, 1, z + 1)
        BY <2>2, <3>1, <4>2
      <4>6. z + 1 \in Nat /\ z + 1 >= 2
        BY <2>1
      <4> QED
        BY <4>4, <4>5, <4>6
    <3>2. CASE ~(EndOf(At(l, 1)) > start)
      <4>1. EndOf(At(l, 1)) <= start
        BY <1>9, <1>10, <3>2
      <4>2. \A a \in Addr : start <= a => ~Covers(At(l, 1), a)
        BY <1>9, <1>10, <4>1, Constants DEF Covers
      <4>3. \A i \in 2 .. z : i \in 1 .. z
        OBVIOUS
      <4>4. \A i \in 1 .. z : i = 1 \/ i \in 2 .. z
        OBVIOUS
      <4>5. Seen(l, 2, z, start, end)
        BY <1>5, <4>2, <4>3, <4>4 DEF Seen
      <4>6. h = Work(l, m_sm, 1, z)
        BY <1>7, <2>2, <3>2
      <4> QED
        BY <1>4, <1>5, <2>1, <4>5, <4>6
    <3> QED
      BY <3>1, <3>2
  <2>5. PICK k, y : /\ h = Work(k, m_sm, 1, y) /\ k \in Seqs(Loose) /\ y \in Nat /\ y = Size(k) /\ y >= 2
                    /\ Seen(k, 2, y, start, end) /\ At(k, y) = At(l, z)
    BY <2>4
  <2>6. h.list = k /\ h.before = y /\ h.m_sm = m_sm /\ h.after = 1 /\ h.list[h.before] = At(k, y)
    BY <2>5 DEF Work, At
  <2>7. CASE At(k, y).addr < end
    <3>1. PICK r : r = Splice(k, y - 1, y + 1, <<CutCell(At(k, y), NewPart(At(k, y).addr), At(k, y).addr, end),
                                                 CutCell(At(k, y), At(k, y).id, end, EndOf(At(k, y)))>>)
      OBVIOUS
    <3>2. SeplitCell_Tail(h, end, TRUE) = Work(r, m_sm, 1, y + 1)
      BY <2>6, <3>1 DEF SeplitCell_Tail, Parted, Work, At
    <3>3. At(k, y) \in Inner /\ end < EndOf(At(k, y))
      BY <1>5, <2>5, <2>7
    <3>4. r \in Seqs(Loose) /\ Size(r) = y + 1 /\ Seen(r, 2, y, start, end)
      BY <2>5, <2>7, <3>1, <3>3, SeenTail
    <3>5. y + 1 \in 2 .. Size(r) /\ (y + 1) - 1 = y
      BY <2>5, <3>4
    <3>6. Seen(r, 2, (y + 1) - 1, start, end)
      BY <3>4, <3>5
    <3> QED
      BY <1>6, <1>7, <2>3, <2>6, <2>7, <3>2, <3>4, <3>5, <3>6
  <2>8. CASE ~(At(k, y).addr < end)
    <3>1. end <= At(k, y).addr /\ At(k, y).addr \in Int
      BY <1>10, <2>5, <2>8
    <3>2. \A a \in Addr : a < end => ~Covers(At(k, y), a)
      BY <3>1, Constants DEF Covers
    <3>3. \A i \in 2 .. y - 1 : i \in 2 .. y
      BY <2>5
    <3>4. \A i \in 2 .. y : i = y \/ i \in 2 .. y - 1
      BY <2>5
    <3>5. Seen(k, 2, y - 1, start, end)
      BY <2>5, <3>2, <3>3, <3>4 DEF Seen
    <3>6. y \in 2 .. Size(k)
      BY <2>5
    <3> QED
      BY <1>6, <1>7, <2>3, <2>5, <2>6, <2>8, <3>5, <3>6
  <2> QED
    BY <2>7, <2>8
<1> QED
  BY <1>11, <1>12

(* What GetCellList returns, with the addresses as the store has them      *)
Moved(q, start) == [i \in DOMAIN q |-> [q[i] EXCEPT !.addr = @ - start]]

LEMMA CellListFacts ==
    ASSUME IInv, NEW start \in Addr, NEW size \in Nat, size > 0, start + size <= Hi + 1
    PROVE  \E q : /\ GetCellList(start, size) = Moved(q, start) /\ q \in Seqs(Loose)
                  /\ Seen(q, 1, Size(q), start, start + size)
<1>1. PICK end \in Int : end = start + size /\ start < end /\ end <= Hi + 1
  BY Constants
<1>2. PICK l, m, v :
         /\ Split_Head_Tail(CreateSymbolList(GetAffectedCells(start, end)), start, end, TRUE) = Work(l, m, 1, v)
         /\ l \in Seqs(Loose) /\ v \in 2 .. Size(l) /\ Seen(l, 2, v - 1, start, end)
  BY <1>1, ReadSplit
<1>3. PICK q : q = Part(l, 2, v - 1)
  OBVIOUS
<1>4. PICK n \in Nat : n = Size(l)
  BY <1>2, SizeFacts
<1>5. v \in 2 .. n /\ 2 \in 1 .. n + 1 /\ v - 1 \in 2 - 1 .. n
  BY <1>2, <1>4
<1>6. /\ q \in Seqs(Loose) /\ Size(q) = (v - 1) - 2 + 1
      /\ \A k \in 1 .. (v - 1) - 2 + 1 : At(q, k) = At(l, 2 + k - 1)
  BY <1>2, <1>3, <1>4, <1>5, PartFacts
<1>7. Size(q) = v - 2 /\ \A k \in 1 .. v - 2 : At(q, k) = At(l, k + 1)
  <2>1. (v - 1) - 2 + 1 = v - 2 /\ \A k \in 1 .. v - 2 : 2 + k - 1 = k + 1
    BY <1>5
  <2> QED
    BY <1>6, <2>1
<1>8. ASSUME NEW i \in 1 .. v - 2, NEW a \in Addr, Covers(At(q, i), a) PROVE content[a] = Byte(At(q, i), a)
  <2>1. i + 1 \in 2 .. v - 1
    BY <1>5
  <2> QED
    BY <1>2, <1>7, <1>8, <2>1 DEF Seen
<1>9. ASSUME NEW a \in Addr, start <= a, a < end, content[a] # NoSym PROVE \E i \in 1 .. v - 2 : Covers(At(q, i), a)
  <2>1. PICK j \in 2 .. v - 1 : Covers(At(l, j), a)
    BY <1>2, <1>9 DEF Seen
  <2>2. j - 1 \in 1 .. v - 2 /\ (j - 1) + 1 = j
    BY <1>5, <2>1
  <2> QED
    BY <1>7, <2>1, <2>2
<1>10. Seen(q, 1, Size(q), start, start + size)
  BY <1>1, <1>7, <1>8, <1>9 DEF Seen
<1>11. GetCellList(start, size) = Moved(q, start)
  <2>1. PICK s : s = Split_Head_Tail(CreateSymbolList(GetAffectedCells(start, end)), start, end, TRUE)
    OBVIOUS
  <2>2. s.list = l /\ s.after = 1 /\ s.before = v
    <3>1. s = Work(l, m, 1, v)
      BY <1>2, <2>1
    <3> QED
      BY <3>1 DEF Work
  <2>3. SubSeq(s.list, s.after + 1, s.before - 1) = q
    <3>1. 1 + 1 = 2
      OBVIOUS
    <3> QED
      BY <1>3, <2>2, <3>1 DEF Part
  <2>4. GetCellList(start, size)
          = LET cut == SubSeq(s.list, s.after + 1, s.before - 1)
            IN  [i \in DOMAIN cut |-> [cut[i] EXCEPT !.addr = @ - start]]
    BY <1>1, <2>1 DEF GetCellList
  <2> QED
    BY <2>3, <2>4 DEF Moved
<1> QED
  BY <1>6, <1>10, <1>11

(***************************************************************************)
(* A read of any range that holds a symbol finds at least one cell, and    *)
(* gives for each byte the symbol that the store has there or else the     *)
(* concrete byte: whichever of the splits the read makes in its copies     *)
(* (SymList.cpp, GetCellList and GetExpr).                                 *)
(***************************************************************************)
THEOREM ReadsAlwaysExact == Spec => []ReadsExact
<1>1. ASSUME IInv PROVE ReadsExact
  <2> SUFFICES ASSUME NEW r \in Ranges, NEW b \in Bytes!Span(r[1], r[2]), content[b] # NoSym
               PROVE  /\ GetCellList(r[1], r[2]) # <<>>
                      /\ GetExpr(r[1], r[2], [k \in 0 .. r[2] - 1 |-> NoSym])
                            = [k \in 0 .. r[2] - 1 |-> content[r[1] + k]]
    BY DEF ReadsExact
  <2>1. PICK start \in Addr, size \in Nat : start = r[1] /\ size = r[2] /\ size > 0 /\ start + size <= Hi + 1
    BY AddrAssumption
  <2>2. PICK q : /\ GetCellList(start, size) = Moved(q, start) /\ q \in Seqs(Loose)
                 /\ Seen(q, 1, Size(q), start, start + size)
    BY <1>1, <2>1, CellListFacts
  <2>3. PICK n \in Nat : n = Size(q) /\ DOMAIN q = 1 .. n
    BY <2>2, SizeFacts, DomFacts
  <2>4. PICK cells : cells = Moved(q, start)
    OBVIOUS
  <2>5. start \in Int
    BY Constants
  <2>6. /\ DOMAIN cells = 1 .. n
        /\ \A i \in 1 .. n : /\ cells[i].addr = At(q, i).addr - start /\ cells[i].expr = At(q, i).expr
                             /\ EndOf(cells[i]) = EndOf(At(q, i)) - start
                             /\ At(q, i).addr \in Int /\ EndOf(At(q, i)) \in Int
    <3>1. DOMAIN cells = 1 .. n
      BY <2>3, <2>4 DEF Moved
    <3>2. ASSUME NEW i \in 1 .. n
          PROVE  /\ cells[i].addr = At(q, i).addr - start /\ cells[i].expr = At(q, i).expr
                 /\ EndOf(cells[i]) = EndOf(At(q, i)) - start
                 /\ At(q, i).addr \in Int /\ EndOf(At(q, i)) \in Int
      <4>1. PICK c \in Loose : c = At(q, i)
        BY <2>2, <2>3, AtFacts
      <4>2. c.addr \in Int /\ EndOf(c) \in Int /\ EndOf(c) = c.addr + c.size /\ c.size \in Nat
        BY LooseFacts
      <4>3. cells[i] = [c EXCEPT !.addr = c.addr - start]
        BY <2>3, <2>4, <4>1 DEF Moved, At
      <4>4. cells[i].addr = c.addr - start /\ cells[i].expr = c.expr /\ cells[i].size = c.size
        BY <4>3 DEF Loose
      <4>5. EndOf(cells[i]) = EndOf(c) - start
        BY <2>5, <4>2, <4>4 DEF EndOf
      <4> QED
        BY <4>1, <4>2, <4>4, <4>5
    <3> QED
      BY <3>1, <3>2
  <2>7. cells # <<>>
    <3>1. b \in Addr /\ start <= b /\ b < start + size
      BY <2>1 DEF Bytes!Span
    <3>2. PICK i \in 1 .. n : Covers(At(q, i), b)
      BY <2>2, <2>3, <3>1 DEF Seen
    <3>3. DOMAIN <<>> = {}
      OBVIOUS
    <3> QED
      BY <2>6, <3>2, <3>3
  <2> DEFINE at(k) == { c \in ToSet(cells) : c.addr <= k /\ k < EndOf(c) }
             got(k) == LET c == CHOOSE d \in at(k) : TRUE IN c.expr[k - c.addr + 1]
  <2>8. ASSUME NEW k \in 0 .. size - 1
        PROVE  (IF at(k) = {} THEN NoSym ELSE got(k)) = content[start + k]
    <3>1. k \in Int /\ start + k \in Addr /\ start <= start + k /\ start + k < start + size
      BY <2>1, <2>5, Constants DEF Addr
    <3>2. ASSUME NEW i \in 1 .. n
          PROVE  (cells[i].addr <= k /\ k < EndOf(cells[i])) <=> Covers(At(q, i), start + k)
      <4>1. /\ cells[i].addr = At(q, i).addr - start /\ EndOf(cells[i]) = EndOf(At(q, i)) - start
            /\ At(q, i).addr \in Int /\ EndOf(At(q, i)) \in Int
        BY <2>6
      <4> QED
        BY <2>5, <3>1, <4>1 DEF Covers
    <3>3. ToSet(cells) = { cells[i] : i \in 1 .. n }
      BY <2>6 DEF ToSet
    <3>4. CASE at(k) = {}
      <4>1. \A i \in 1 .. n : ~Covers(At(q, i), start + k)
        BY <3>2, <3>3, <3>4
      <4>2. content[start + k] = NoSym
        BY <2>2, <2>3, <3>1, <4>1 DEF Seen
      <4> QED
        BY <3>4, <4>2
    <3>5. CASE at(k) # {}
      <4>1. PICK c : c = CHOOSE d \in at(k) : TRUE
        OBVIOUS
      <4>2. c \in at(k)
        BY <3>5, <4>1
      <4>3. PICK i \in 1 .. n : c = cells[i] /\ Covers(At(q, i), start + k)
        BY <3>2, <3>3, <4>2
      <4>4. content[start + k] = Byte(At(q, i), start + k)
        BY <2>2, <2>3, <3>1, <4>3 DEF Seen
      <4>5. k - c.addr + 1 = (start + k) - At(q, i).addr + 1 /\ c.expr = At(q, i).expr
        <5>1. c.addr = At(q, i).addr - start /\ At(q, i).addr \in Int /\ c.expr = At(q, i).expr
          BY <2>6, <4>3
        <5> QED
          BY <2>5, <3>1, <5>1
      <4>6. got(k) = c.expr[k - c.addr + 1]
        BY <4>1
      <4> QED
        BY <3>5, <4>4, <4>5, <4>6 DEF Byte, At
    <3> QED
      BY <3>4, <3>5
  <2>9. GetExpr(start, size, [k \in 0 .. size - 1 |-> NoSym])
          = [k \in 0 .. size - 1 |-> IF at(k) = {} THEN [j \in 0 .. size - 1 |-> NoSym][k] ELSE got(k)]
    BY <2>2, <2>4 DEF GetExpr
  <2>10. GetExpr(start, size, [k \in 0 .. size - 1 |-> NoSym]) = [k \in 0 .. size - 1 |-> content[start + k]]
    BY <2>8, <2>9
  <2> QED
    BY <2>1, <2>2, <2>4, <2>7, <2>10
<1> QED
  BY <1>1, AlwaysIInv, PTL

=============================================================================
