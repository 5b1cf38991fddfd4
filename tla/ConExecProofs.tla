--------------------------- MODULE ConExecProofs ----------------------------
(***************************************************************************)
(* The trampolines of the concrete executor: proofs for every instruction  *)
(* that may be dispatched.                                                 *)
(***************************************************************************)
EXTENDS ConExec, SequenceTheorems, WellFoundedInduction, TLAPS

(***************************************************************************)
(* Sequences as the proofs see them.  The provers have the built-in        *)
(* operators in a form of their own, in which the facts below would not be *)
(* found; behind these names they use the facts and nothing else.          *)
(***************************************************************************)
Seqs(S) == Seq(S)
Size(s) == Len(s)
At(s, k) == s[k]
Join(s, t) == s \o t
Part(s, a, b) == SubSeq(s, a, b)

(* The length of a sequence is a number.                                   *)
LEMMA SizeFacts ==
    ASSUME NEW S, NEW s \in Seqs(S) PROVE Size(s) \in Nat
  BY LenProperties DEF Seqs, Size

(* Elements belong to the set.                                             *)
LEMMA AtFacts ==
    ASSUME NEW S, NEW s \in Seqs(S), NEW k \in 1 .. Size(s) PROVE At(s, k) \in S
  BY ElementOfSeq DEF Seqs, Size, At

(* What \o gives                                                           *)
LEMMA JoinFacts ==
    ASSUME NEW S, NEW s \in Seqs(S), NEW t \in Seqs(S)
    PROVE  /\ Join(s, t) \in Seqs(S) /\ Size(Join(s, t)) = Size(s) + Size(t)
           /\ \A k \in 1 .. Size(s) : At(Join(s, t), k) = At(s, k)
           /\ \A k \in 1 .. Size(t) : At(Join(s, t), Size(s) + k) = At(t, k)
<1>1. Size(s) \in Nat /\ Size(t) \in Nat
  BY SizeFacts
<1>2. Join(s, t) \in Seqs(S) /\ Size(Join(s, t)) = Size(s) + Size(t)
  BY ConcatProperties DEF Seqs, Size, Join
<1>3. \A k \in 1 .. Size(s) + Size(t) :
        At(Join(s, t), k) = IF k <= Size(s) THEN At(s, k) ELSE At(t, k - Size(s))
  BY ConcatProperties DEF Seqs, Size, Join, At
<1>4. ASSUME NEW k \in 1 .. Size(s) PROVE At(Join(s, t), k) = At(s, k)
  BY <1>1, <1>3
<1>5. ASSUME NEW k \in 1 .. Size(t) PROVE At(Join(s, t), Size(s) + k) = At(t, k)
  <2>1. Size(s) + k \in 1 .. Size(s) + Size(t) /\ ~(Size(s) + k <= Size(s)) /\ (Size(s) + k) - Size(s) = k
    BY <1>1
  <2> QED
    BY <1>3, <2>1
<1> QED
  BY <1>2, <1>4, <1>5

(* What SubSeq gives                                                       *)
LEMMA PartFacts ==
    ASSUME NEW S, NEW s \in Seqs(S), NEW a \in 1 .. Size(s) + 1, NEW b \in a - 1 .. Size(s)
    PROVE  /\ Part(s, a, b) \in Seqs(S) /\ Size(Part(s, a, b)) = b - a + 1
           /\ \A k \in 1 .. b - a + 1 : At(Part(s, a, b), k) = At(s, a + k - 1)
<1>1. Size(s) \in Nat
  BY SizeFacts
<1>2. a \in Int /\ b \in Int /\ (IF a <= b THEN b - a + 1 ELSE 0) = b - a + 1
  BY <1>1
<1>3. \A i \in a .. b : At(s, i) \in S
  BY <1>1, AtFacts
<1>4. \A i \in a .. b : s[i] \in S
  BY <1>3 DEF At
<1>5. /\ SubSeq(s, a, b) \in Seq(S)
      /\ Len(SubSeq(s, a, b)) = IF a <= b THEN b - a + 1 ELSE 0
      /\ \A i \in 1 .. b - a + 1 : SubSeq(s, a, b)[i] = s[a + i - 1]
  BY <1>2, <1>4, SubSeqProperties
<1> QED
  BY <1>2, <1>5 DEF Seqs, Size, Part, At

(* ... from the beginning, and up to the end                               *)
LEMMA PrefixFacts ==
    ASSUME NEW S, NEW s \in Seqs(S), NEW m \in 0 .. Size(s)
    PROVE  /\ Part(s, 1, m) \in Seqs(S) /\ Size(Part(s, 1, m)) = m
           /\ \A k \in 1 .. m : At(Part(s, 1, m), k) = At(s, k)
  BY SizeFacts, PartFacts

LEMMA SuffixFacts ==
    ASSUME NEW S, NEW s \in Seqs(S), NEW m \in 0 .. Size(s)
    PROVE  /\ Part(s, m + 1, Size(s)) \in Seqs(S) /\ Size(Part(s, m + 1, Size(s))) = Size(s) - m
           /\ \A k \in 1 .. Size(s) - m : At(Part(s, m + 1, Size(s)), k) = At(s, m + k)
<1>1. PICK l \in Nat : l = Size(s)
  BY SizeFacts
<1>2. m \in Nat /\ m <= l
  BY <1>1
<1>3. /\ Part(s, m + 1, l) \in Seqs(S) /\ Size(Part(s, m + 1, l)) = l - m
      /\ \A k \in 1 .. l - m : At(Part(s, m + 1, l), k) = At(s, m + k)
  BY <1>1, <1>2, PartFacts
<1> QED
  BY <1>1, <1>3

(* ... of a slot                                                           *)
LEMMA SlotSuffix ==
    ASSUME NEW S, NEW s \in Seqs(S), Size(s) = 15, NEW m \in 0 .. 15
    PROVE  /\ Part(s, m + 1, 15) \in Seqs(S) /\ Size(Part(s, m + 1, 15)) = 15 - m
           /\ \A k \in 1 .. 15 - m : At(Part(s, m + 1, 15), k) = At(s, m + k)
<1>1. PICK l \in Nat : l = 15
  OBVIOUS
<1>2. m \in Nat /\ m <= l /\ l = Size(s)
  BY <1>1
<1>3. /\ Part(s, m + 1, l) \in Seqs(S) /\ Size(Part(s, m + 1, l)) = l - m
      /\ \A k \in 1 .. l - m : At(Part(s, m + 1, l), k) = At(s, m + k)
  BY <1>2, PartFacts
<1> QED
  BY <1>1, <1>3

(* Sequences with the same elements are the same.                          *)
LEMMA SameSeq ==
    ASSUME NEW S, NEW s \in Seqs(S), NEW t \in Seqs(S), Size(s) = Size(t),
           \A k \in 1 .. Size(s) : At(s, k) = At(t, k)
    PROVE  s = t
  BY SeqEqual DEF Seqs, Size, At

-----------------------------------------------------------------------------
(* The nops of a slot                                                      *)
LEMMA NopFacts ==
    ASSUME NEW S
    PROVE  /\ NopBytes \in Seqs(S \cup Nat) /\ Size(NopBytes) = 15
           /\ \A k \in 1 .. 15 : At(NopBytes, k) = 144
<1>1. NopBytes \in Seq(S \cup Nat) /\ Len(NopBytes) = 15 /\ \A k \in 1 .. 15 : NopBytes[k] = 144
  BY DEF NopBytes, SlotSize, NopByte
<1> QED
  BY <1>1 DEF Seqs, Size, At

(***************************************************************************)
(* A slot of nops that takes a sequence of bytes and has at least as many  *)
(* of its bytes cleared is a slot of nops again.                           *)
(***************************************************************************)
LEMMA PutAndClear ==
    ASSUME NEW S, NEW r \in Seqs(S), NEW n \in 0 .. 15, Size(r) <= n
    PROVE  ClearTinsn(Put(NopBytes, r), n) = NopBytes
<1>1. PICK m \in 0 .. n : m = Size(r)
  BY SizeFacts
<1> DEFINE rest == Part(NopBytes, m + 1, 15)
           slot == Join(r, rest)
           head == Part(NopBytes, 1, n)
           tail == Part(slot, n + 1, 15)
           T    == S \cup Nat
<1>2. r \in Seqs(T)
  BY SeqMonotonic DEF Seqs
<1>3. NopBytes \in Seqs(T) /\ Size(NopBytes) = 15 /\ \A k \in 1 .. 15 : At(NopBytes, k) = 144
  BY NopFacts
<1> HIDE DEF T
<1>4. head \in Seqs(T) /\ Size(head) = n /\ \A k \in 1 .. n : At(head, k) = 144
  <2>1. head \in Seqs(T) /\ Size(head) = n /\ \A k \in 1 .. n : At(head, k) = At(NopBytes, k)
    BY <1>3, PrefixFacts
  <2> HIDE DEF head
  <2> QED
    BY <1>3, <2>1
<1>5. ClearTinsn(Put(NopBytes, r), n) = Join(head, tail)
  <2>1. Put(NopBytes, r) = slot
    BY <1>1 DEF Put, SlotSize, Join, Part, Size
  <2>2. ClearTinsn(slot, n) = Put(slot, head)
    BY DEF ClearTinsn, Part
  <2>3. Put(slot, head) = Join(head, Part(slot, Size(head) + 1, 15))
    BY DEF Put, SlotSize, Join, Part, Size
  <2> HIDE DEF slot, head
  <2> QED
    BY <1>4, <2>1, <2>2, <2>3
<1>6. rest \in Seqs(T) /\ Size(rest) = 15 - m /\ \A k \in 1 .. 15 - m : At(rest, k) = 144
  <2>1. m \in 0 .. 15 /\ NopBytes \in Seqs(T) /\ Size(NopBytes) = 15
    BY <1>3
  <2>2. rest \in Seqs(T) /\ Size(rest) = 15 - m /\ \A k \in 1 .. 15 - m : At(rest, k) = At(NopBytes, m + k)
    BY <2>1, SlotSuffix
  <2> HIDE DEF rest
  <2> QED
    BY <1>3, <2>2
<1> HIDE DEF rest
<1>7. slot \in Seqs(T) /\ Size(slot) = 15 /\ \A k \in 1 .. 15 - m : At(slot, m + k) = 144
  BY <1>1, <1>2, <1>6, JoinFacts
<1> HIDE DEF slot
<1>8. tail \in Seqs(T) /\ Size(tail) = 15 - n /\ \A k \in 1 .. 15 - n : At(tail, k) = 144
  <2>1. tail \in Seqs(T) /\ Size(tail) = 15 - n /\ \A k \in 1 .. 15 - n : At(tail, k) = At(slot, n + k)
    BY <1>7, SlotSuffix
  <2>2. ASSUME NEW k \in 1 .. 15 - n PROVE At(slot, n + k) = 144
    <3>1. n + k - m \in 1 .. 15 - m /\ m + (n + k - m) = n + k
      OBVIOUS
    <3> QED
      BY <1>7, <3>1
  <2> HIDE DEF tail
  <2> QED
    BY <2>1, <2>2
<1> HIDE DEF head, tail
<1>9. /\ Join(head, tail) \in Seqs(T) /\ Size(Join(head, tail)) = 15
      /\ \A k \in 1 .. n : At(Join(head, tail), k) = 144
      /\ \A k \in 1 .. 15 - n : At(Join(head, tail), n + k) = 144
  <2>1. /\ Join(head, tail) \in Seqs(T) /\ Size(Join(head, tail)) = n + (15 - n)
        /\ \A k \in 1 .. n : At(Join(head, tail), k) = At(head, k)
        /\ \A k \in 1 .. 15 - n : At(Join(head, tail), n + k) = At(tail, k)
    BY <1>4, <1>8, JoinFacts
  <2> QED
    BY <1>4, <1>8, <2>1
<1>10. ASSUME NEW k \in 1 .. 15 PROVE At(Join(head, tail), k) = 144
  <2>1. k > n => k - n \in 1 .. 15 - n /\ n + (k - n) = k
    OBVIOUS
  <2> QED
    BY <1>9, <2>1
<1>11. Join(head, tail) = NopBytes
  BY <1>3, <1>9, <1>10, SameSeq
<1> QED
  BY <1>5, <1>11

-----------------------------------------------------------------------------
(* Lengths of the rewritten instructions                                   *)

(* Replacing a byte                                                        *)
LEMMA ReplaceFacts ==
    ASSUME NEW S, NEW s \in Seqs(S), NEW i \in 1 .. Size(s), NEW e
    PROVE  [s EXCEPT ![i] = e] \in Seqs(S \cup {e}) /\ Size([s EXCEPT ![i] = e]) = Size(s)
<1>1. s \in Seq(S \cup {e}) /\ e \in S \cup {e}
  BY SeqMonotonic DEF Seqs
<1> QED
  BY <1>1, ExceptSeq DEF Seqs, Size

(* Shorten leaves at most what ends with the displacement.                 *)
LEMMA ShortenFacts ==
    ASSUME NEW S, NEW p \in Seqs(S), NEW m \in 1 .. Size(p), NEW k \in 1 .. 12, k + 3 <= Size(p)
    PROVE  \E T : Shorten(p, m, k) \in Seqs(T) /\ Size(Shorten(p, m, k)) <= k + 3
<1>1. PICK l \in Nat : l = Size(p)
  BY SizeFacts
<1>2. ASSUME NEW e, NEW n \in 0 .. k + 3
      PROVE  \E T : Part([p EXCEPT ![m] = e], 1, n) \in Seqs(T) /\ Size(Part([p EXCEPT ![m] = e], 1, n)) <= k + 3
  <2> DEFINE q == [p EXCEPT ![m] = e]
             T == S \cup {e}
  <2>1. q \in Seqs(T) /\ Size(q) = Size(p)
    BY ReplaceFacts
  <2> HIDE DEF q, T
  <2>2. n \in 0 .. Size(q)
    BY <1>1, <2>1
  <2>3. Part(q, 1, n) \in Seqs(T) /\ Size(Part(q, 1, n)) = n
    BY <2>1, <2>2, PrefixFacts
  <2>4. Size(Part(q, 1, n)) <= k + 3
    BY <2>3
  <2> QED
    BY <2>3, <2>4 DEF q
<1>3. k - 1 \in 0 .. k + 3 /\ k \in 0 .. k + 3 /\ k + 3 \in 0 .. k + 3
  OBVIOUS
<1>4. \E e : \E n \in 0 .. k + 3 : Shorten(p, m, k) = Part([p EXCEPT ![m] = e], 1, n)
  BY <1>3 DEF Shorten, Part
<1> QED
  BY <1>2, <1>4

(* What fits into the bytes that InsnExecRIP clears.                       *)
Fits(r) == \E T : r \in Seqs(T) /\ Size(r) <= 12

LEMMA ShortenFits ==
    ASSUME NEW S, NEW p \in Seqs(S), NEW m \in 1 .. 5, NEW k \in 1 .. 5, Size(p) \in 7 .. 8, k + 3 <= Size(p)
    PROVE  Fits(Shorten(p, m, k))
<1>1. m \in 1 .. Size(p) /\ k \in 1 .. 12 /\ k + 3 <= 12
  OBVIOUS
<1>2. PICK T : Shorten(p, m, k) \in Seqs(T) /\ Size(Shorten(p, m, k)) <= k + 3
  BY <1>1, ShortenFacts
<1>3. Size(Shorten(p, m, k)) \in Nat
  BY <1>2, SizeFacts
<1>4. Size(Shorten(p, m, k)) <= 12
  BY <1>1, <1>2, <1>3
<1> QED
  BY <1>2, <1>4 DEF Fits

(* A REX byte more                                                         *)
LEMMA RexFacts ==
    ASSUME NEW S, NEW b \in Seqs(S), Size(b) >= 1
    PROVE  /\ <<65>> \o b \in Seqs(S \cup Nat) /\ Size(<<65>> \o b) = Size(b) + 1
           /\ WithRex(b) \in Seqs(S \cup Nat) /\ Size(WithRex(b)) = Size(b) + 1
<1> DEFINE T == S \cup Nat
           tail == Part(b, 1 + 1, Size(b))
           two == <<b[1], 65>>
<1>1. b \in Seqs(T) /\ <<65>> \in Seqs(T) /\ Size(<<65>>) = 1
  <2>1. b \in Seq(T)
    BY SeqMonotonic DEF Seqs
  <2>2. <<65>> \in Seq(T) /\ Len(<<65>>) = 1
    OBVIOUS
  <2> QED
    BY <2>1, <2>2 DEF Seqs, Size
<1>2. Join(<<65>>, b) \in Seqs(T) /\ Size(Join(<<65>>, b)) = 1 + Size(b)
  BY <1>1, JoinFacts
<1>3. PICK l \in Nat : l = Size(b) /\ l >= 1
  BY SizeFacts
<1>4. b[1] \in T
  <2>1. 1 \in 1 .. Size(b)
    BY <1>3
  <2>2. At(b, 1) \in T
    BY <1>1, <2>1, AtFacts
  <2> QED
    BY <2>2 DEF At
<1>5. two \in Seqs(T) /\ Size(two) = 2
  <2> HIDE DEF T
  <2>1. 65 \in T
    BY DEF T
  <2>2. <<b[1], 65>> \in Seq(T) /\ Len(<<b[1], 65>>) = 2
    BY <1>4, <2>1
  <2> QED
    BY <2>2 DEF Seqs, Size
<1> HIDE DEF two, T
<1>6. 1 \in 0 .. Size(b)
  BY <1>3
<1>7. tail \in Seqs(T) /\ Size(tail) = Size(b) - 1
  BY <1>1, <1>6, SuffixFacts
<1> HIDE DEF tail
<1>8. Join(two, tail) \in Seqs(T) /\ Size(Join(two, tail)) = 2 + (Size(b) - 1)
  BY <1>5, <1>7, JoinFacts
<1>9. WithRex(b) = Join(two, tail)
  BY DEF WithRex, Join, two, tail, Part, Size
<1>10. 2 + (Size(b) - 1) = Size(b) + 1 /\ 1 + Size(b) = Size(b) + 1
  BY <1>3
<1>11. WithRex(b) \in Seqs(T) /\ Size(WithRex(b)) = Size(b) + 1
  BY <1>8, <1>9, <1>10
<1>12. <<65>> \o b = Join(<<65>>, b)
  BY DEF Join
<1> QED
  BY <1>2, <1>10, <1>11, <1>12 DEF T

(* The rewriting of and and xadd                                           *)
LEMMA LongFits ==
    ASSUME NEW S, NEW b \in Seqs(S), Size(b) \in 8 .. 11, NEW m \in 4 .. 5, RewLong(b, m) # Stop
    PROVE  Fits(RewLong(b, m))
<1> DEFINE p == WithRex(b)
           e == LongDisp(p[m])
           T == S \cup Nat
<1>1. p \in Seqs(T) /\ Size(p) = Size(b) + 1
  BY RexFacts
<1>2. RewLong(b, m) = [p EXCEPT ![m] = e]
  BY DEF RewLong
<1> HIDE DEF p, e, T
<1>3. m \in 1 .. Size(p) /\ Size(p) <= 12
  BY <1>1
<1>4. [p EXCEPT ![m] = e] \in Seqs(T \cup {e}) /\ Size([p EXCEPT ![m] = e]) = Size(p)
  BY <1>1, <1>3, ReplaceFacts
<1> QED
  BY <1>2, <1>3, <1>4 DEF Fits

(* Nothing may be left of an instruction.                                  *)
LEMMA EmptyFits == Fits(<<>>)
<1>1. <<>> \in Seqs({}) /\ Size(<<>>) = 0
  BY DEF Seqs, Size
<1> QED
  BY <1>1 DEF Fits

(***************************************************************************)
(* Whatever RewRIPInsn makes of an instruction, it has at most the twelve  *)
(* bytes that are cleared afterwards.                                      *)
(***************************************************************************)
LEMMA RewrittenFits ==
    ASSUME NEW S, NEW b \in Seqs(S), NEW d, RewRIPInsn(d, b) # Stop
    PROVE  Fits(RewRIPInsn(d, b))
<1>1. Len(b) = Size(b)
  BY DEF Size
<1>2. CASE RewRIPInsn(d, b) = RewGs(d, b)
  <2>1. CASE Len(b) = 7 /\ RewGs(d, b) = Shorten(WithRex(b), 4, 5)
    <3>1. Size(b) = 7
      BY <1>1, <2>1
    <3>2. Size(b) >= 1 /\ Size(b) + 1 = 8
      BY <3>1
    <3>3. WithRex(b) \in Seqs(S \cup Nat) /\ Size(WithRex(b)) = Size(b) + 1
      BY <3>2, RexFacts
    <3> DEFINE p == WithRex(b)
    <3> HIDE DEF p
    <3>4. p \in Seqs(S \cup Nat) /\ Size(p) = 8
      BY <3>2, <3>3 DEF p
    <3>5. Fits(Shorten(p, 4, 5))
      BY <3>4, ShortenFits
    <3> QED
      BY <1>2, <2>1, <3>5 DEF p
  <2>2. CASE Len(b) = 8 /\ RewGs(d, b) = Shorten([b EXCEPT ![2] = Or(b[2], 1)], 4, 5)
    <3> DEFINE e == Or(b[2], 1)
    <3> HIDE DEF e
    <3>1. Size(b) = 8
      BY <1>1, <2>2
    <3>2. 2 \in 1 .. Size(b)
      BY <3>1
    <3>3. [b EXCEPT ![2] = e] \in Seqs(S \cup {e}) /\ Size([b EXCEPT ![2] = e]) = Size(b)
      BY <3>2, ReplaceFacts
    <3> DEFINE p == [b EXCEPT ![2] = e]
    <3> HIDE DEF p
    <3>4. p \in Seqs(S \cup {e}) /\ Size(p) = 8
      BY <3>1, <3>3 DEF p
    <3>5. Fits(Shorten(p, 4, 5))
      BY <3>4, ShortenFits
    <3> QED
      BY <1>2, <2>2, <3>5 DEF e, p
  <2>3. CASE RewGs(d, b) = Shorten(First(b, 8), 4, 5)
    <3> DEFINE p == First(b, 8)
               T == {p[k] : k \in 1 .. 8}
    <3>1. p \in Seq(T) /\ Len(p) = 8
      BY DEF First
    <3> HIDE DEF p, T
    <3>2. p \in Seqs(T) /\ Size(p) = 8
      BY <3>1 DEF Seqs, Size
    <3>3. Fits(Shorten(p, 4, 5))
      BY <3>2, ShortenFits
    <3> QED
      BY <1>2, <2>3, <3>3 DEF p
  <2>4. CASE RewGs(d, b) = <<>>
    BY <1>2, <2>4, EmptyFits
  <2> QED
    BY <1>2, <2>1, <2>2, <2>3, <2>4 DEF RewGs
<1>3. CASE RewRIPInsn(d, b) = RewPlain(b)
  <2>1. CASE Len(b) = 7 /\ RewPlain(b) = Shorten([b EXCEPT ![1] = Or(b[1], 1)], 3, 4)
    <3> DEFINE e == Or(b[1], 1)
    <3> HIDE DEF e
    <3>1. Size(b) = 7
      BY <1>1, <2>1
    <3>2. 1 \in 1 .. Size(b)
      BY <3>1
    <3>3. [b EXCEPT ![1] = e] \in Seqs(S \cup {e}) /\ Size([b EXCEPT ![1] = e]) = Size(b)
      BY <3>2, ReplaceFacts
    <3> DEFINE p == [b EXCEPT ![1] = e]
    <3> HIDE DEF p
    <3>4. p \in Seqs(S \cup {e}) /\ Size(p) = 7
      BY <3>1, <3>3 DEF p
    <3>5. Fits(Shorten(p, 3, 4))
      BY <3>4, ShortenFits
    <3> QED
      BY <1>3, <2>1, <3>5 DEF e, p
  <2>2. CASE Len(b) = 6 /\ RewPlain(b) = Shorten(<<65>> \o b, 3, 4)
    <3> DEFINE p == <<65>> \o b
    <3>1. Size(b) = 6
      BY <1>1, <2>2
    <3>2. Size(b) >= 1 /\ Size(b) + 1 = 7
      BY <3>1
    <3>3. p \in Seqs(S \cup Nat) /\ Size(p) = Size(b) + 1
      BY <3>2, RexFacts
    <3> HIDE DEF p
    <3>4. p \in Seqs(S \cup Nat) /\ Size(p) = 7
      BY <3>2, <3>3
    <3>5. Fits(Shorten(p, 3, 4))
      BY <3>4, ShortenFits
    <3> QED
      BY <1>3, <2>2, <3>5 DEF p
  <2>3. CASE RewPlain(b) = <<>>
    BY <1>3, <2>3, EmptyFits
  <2> QED
    BY <1>3, <2>1, <2>2, <2>3 DEF RewPlain
<1>4. CASE Len(b) = 11 /\ RewRIPInsn(d, b) = RewLong(b, 4)
  <2>1. Size(b) = 11
    BY <1>1, <1>4
  <2>2. Size(b) \in 8 .. 11
    BY <2>1
  <2>3. RewLong(b, 4) # Stop
    BY <1>4
  <2>4. Fits(RewLong(b, 4))
    BY <2>2, <2>3, LongFits
  <2> QED
    BY <1>4, <2>4
<1>5. CASE Len(b) = 8 /\ RewRIPInsn(d, b) = RewLong(b, 5)
  <2>1. Size(b) = 8
    BY <1>1, <1>5
  <2>2. Size(b) \in 8 .. 11
    BY <2>1
  <2>3. RewLong(b, 5) # Stop
    BY <1>5
  <2>4. Fits(RewLong(b, 5))
    BY <2>2, <2>3, LongFits
  <2> QED
    BY <1>5, <2>4
<1>6. CASE RewRIPInsn(d, b) = RewTest(b)
  <2> DEFINE f == First(b, 7)
             T == {f[k] : k \in 1 .. 7}
             p == <<65>> \o f
  <2>1. f \in Seq(T) /\ Len(f) = 7
    BY DEF First
  <2>2. f \in Seqs(T) /\ Size(f) = 7
    BY <2>1 DEF Seqs, Size
  <2>3. RewTest(b) = Shorten(p, 3, 5)
    BY DEF RewTest
  <2> HIDE DEF f, T
  <2>4. p \in Seqs(T \cup Nat) /\ Size(p) = 8
    BY <2>2, RexFacts
  <2> HIDE DEF p
  <2> QED
    BY <1>6, <2>3, <2>4, ShortenFits
<1> QED
  BY <1>2, <1>3, <1>4, <1>5, <1>6 DEF RewRIPInsn

-----------------------------------------------------------------------------
(***************************************************************************)
(* The inductive invariant: between two dispatches both slots hold nops.   *)
(* Every dispatch starts from it, fills a slot and clears it again.        *)
(***************************************************************************)
IInv ==
    /\ SlotsClear
    /\ insn \in Insns \cup {<<NopByte>>}
    /\ status \in {"run", "stop"}

(* What Insns holds, in the words of the lemmas above.                     *)
LEMMA InsnFacts ==
    ASSUME NEW b \in Insns
    PROVE  b \in Seqs(0 .. 255) /\ Size(b) \in 0 .. 15
  BY ConExecAssumption DEF Seqs, Size, SlotSize

(* A dispatch keeps it.                                                    *)
LEMMA DispatchKeeps ==
    ASSUME IInv, NEW b \in Insns, NEW d,
           InsnExecRIP(d, b) \/ GiveUp(d, b) \/ InsnExecNonRIP(d, b)
    PROVE  IInv'
<1>1. b \in Seqs(0 .. 255) /\ Size(b) \in 0 .. 15
  BY InsnFacts
<1>2. CASE InsnExecRIP(d, b)
  <2> DEFINE r == RewRIPInsn(d, b)
  <2>1. r # Stop
    BY <1>2 DEF InsnExecRIP
  <2>2. Fits(r)
    BY <1>1, <2>1, RewrittenFits
  <2>3. rip' = ClearTinsn(Put(rip, r), 12)
    BY <1>2 DEF InsnExecRIP
  <2> HIDE DEF r
  <2>4. PICK T : r \in Seqs(T) /\ Size(r) <= 12
    BY <2>2 DEF Fits
  <2>5. 12 \in 0 .. 15
    OBVIOUS
  <2>6. ClearTinsn(Put(NopBytes, r), 12) = NopBytes
    BY <2>4, <2>5, PutAndClear
  <2>7. rip = NopBytes /\ non = NopBytes
    BY DEF IInv, SlotsClear
  <2>8. rip' = NopBytes
    BY <2>3, <2>6, <2>7
  <2>9. non' = non /\ insn' = b /\ status' = status
    BY <1>2 DEF InsnExecRIP
  <2> QED
    BY <2>7, <2>8, <2>9 DEF IInv, SlotsClear
<1>3. CASE GiveUp(d, b)
  BY <1>3 DEF GiveUp, IInv, SlotsClear
<1>4. CASE InsnExecNonRIP(d, b)
  <2>1. non' = ClearTinsn(Put(non, b), Len(b))
    BY <1>4 DEF InsnExecNonRIP
  <2>2. PICK n \in 0 .. 15 : n = Size(b)
    BY <1>1
  <2>3. Size(b) <= n
    BY <2>2
  <2>4. ClearTinsn(Put(NopBytes, b), n) = NopBytes
    BY <1>1, <2>3, PutAndClear
  <2>5. rip = NopBytes /\ non = NopBytes
    BY DEF IInv, SlotsClear
  <2>6. Len(b) = n
    BY <2>2 DEF Size
  <2>7. non' = NopBytes
    BY <2>1, <2>4, <2>5, <2>6
  <2>8. rip' = rip /\ insn' = b /\ status' = status
    BY <1>4 DEF InsnExecNonRIP
  <2> QED
    BY <2>5, <2>7, <2>8 DEF IInv, SlotsClear
<1> QED
  BY <1>2, <1>3, <1>4

(* IInv holds in every reachable state.                                    *)
LEMMA Inductive == Spec => []IInv
<1>1. Init => IInv
  BY DEF Init, IInv, SlotsClear
<1>2. IInv /\ [Next]_vars => IInv'
  <2> SUFFICES ASSUME IInv, [Next]_vars PROVE IInv'
    OBVIOUS
  <2>1. CASE Next
    <3>1. PICK b \in Insns : InsnDispatch(b)
      BY <2>1 DEF Next
    <3>2. PICK d : InsnExecRIP(d, b) \/ GiveUp(d, b) \/ InsnExecNonRIP(d, b)
      BY <3>1 DEF InsnDispatch
    <3> QED
      BY <3>2, DispatchKeeps
  <2>2. CASE UNCHANGED vars
    BY <2>2 DEF vars, IInv, SlotsClear
  <2> QED
    BY <2>1, <2>2
<1> QED
  BY <1>1, <1>2, PTL DEF Spec

(***************************************************************************)
(* No byte of an instruction stays in a trampoline, for all instructions   *)
(* of up to 15 bytes: InsnExecNonRIP clears as many bytes as it copied,    *)
(* and no encoding of RewRIPInsn is longer than the twelve that            *)
(* InsnExecRIP clears (conexec.cpp).                                       *)
(***************************************************************************)
THEOREM SlotsAlwaysClear == Spec => []SlotsClear
<1>1. IInv => SlotsClear
  BY DEF IInv
<1> QED
  BY <1>1, Inductive, PTL

(* The slots hold bytes and keep their size of 15.                         *)
THEOREM TypeCorrect == Spec => []TypeOK
<1>1. NopBytes \in [1 .. SlotSize -> 0 .. 255]
  BY DEF NopBytes, NopByte, SlotSize
<1>2. IInv => TypeOK
  BY <1>1 DEF IInv, SlotsClear, TypeOK
<1> QED
  BY <1>2, Inductive, PTL

-----------------------------------------------------------------------------
(* What the decoder makes of bytes                                         *)

Bytes == 0 .. 255

(* A set of natural numbers has a least one.                               *)
LEMMA NatMin ==
    ASSUME NEW T, T \subseteq Nat, T # {}
    PROVE  \E n \in T : \A m \in T : n <= m
<1> DEFINE R == OpToRel(<, Nat)
<1>1. IsWellFoundedOn(R, Nat)
  BY NatLessThanWellFounded
<1>2. PICK x \in T : \A y \in T : ~ (<<y, x>> \in R)
  <2> HIDE DEF R
  <2> QED
    BY <1>1, WFMin
<1>3. \A y \in T : ~(y < x)
  BY <1>2 DEF OpToRel
<1> QED
  BY <1>3

LEMMA ByteFacts ==
    ASSUME NEW s \in Seqs(Bytes), NEW k \in Nat \ {0}
    PROVE  /\ ByteAt(s, k) = IF k <= Size(s) THEN At(s, k) ELSE 0
           /\ ByteAt(s, k) \in Bytes
<1>1. ByteAt(s, k) = IF k <= Size(s) THEN At(s, k) ELSE 0
  BY DEF ByteAt, Size, At
<1>2. k <= Size(s) => At(s, k) \in Bytes
  BY SizeFacts, AtFacts
<1>3. 0 \in Bytes
  BY DEF Bytes
<1> QED
  BY <1>1, <1>2, <1>3

(* n bytes of s are prefixes.                                              *)
Heading(s, n) ==
    /\ n \in 0 .. Size(s)
    /\ \A j \in 1 .. n : ByteAt(s, j) \in Prefix \cup Rex
    /\ ByteAt(s, n + 1) \notin Prefix \cup Rex

LEMMA HeadsIs ==
    ASSUME NEW s \in Seqs(Bytes)
    PROVE  Heading(s, Heads(s)) /\ \A n : Heading(s, n) => Heads(s) = n
<1> DEFINE P == Prefix \cup Rex
           l == Size(s)
           T == { k \in 1 .. l + 1 : ByteAt(s, k) \notin P }
<1>1. l \in Nat /\ Len(s) = l
  BY SizeFacts DEF Size
<1>2. ByteAt(s, l + 1) = 0 /\ 0 \notin P
  <2>1. ~(l + 1 <= l) /\ l + 1 \in Nat \ {0}
    BY <1>1
  <2> QED
    BY <2>1, ByteFacts DEF Prefix, Rex
<1> HIDE DEF P, l
<1>3. l + 1 \in T
  BY <1>1, <1>2
<1>4. PICK k \in T : \A m \in T : k <= m
  <2>1. T \subseteq Nat /\ T # {}
    BY <1>1, <1>3
  <2> QED
    BY <2>1, NatMin
<1>5. /\ k - 1 \in 0 .. l /\ (k - 1) + 1 = k
      /\ \A j \in 1 .. k - 1 : ByteAt(s, j) \in P
      /\ ByteAt(s, k) \notin P
  BY <1>1, <1>4
<1>6. Heading(s, k - 1)
  BY <1>5 DEF Heading, P, l
<1>7. ASSUME NEW m, NEW n, Heading(s, m), Heading(s, n) PROVE ~(m < n)
  <2>1. m \in 0 .. l /\ n \in 0 .. l
    BY <1>7 DEF Heading, l
  <2>2. m < n => m + 1 \in 1 .. n
    BY <1>1, <2>1
  <2> QED
    BY <1>7, <2>2 DEF Heading
<1>8. \A m, n : Heading(s, m) /\ Heading(s, n) => m = n
  <2> SUFFICES ASSUME NEW m, NEW n, Heading(s, m), Heading(s, n) PROVE m = n
    OBVIOUS
  <2>1. m \in 0 .. l /\ n \in 0 .. l
    BY DEF Heading, l
  <2>2. ~(m < n) /\ ~(n < m)
    BY <1>7
  <2> QED
    BY <1>1, <2>1, <2>2
<1>9. Heads(s) = CHOOSE n \in 0 .. l : Heading(s, n)
  BY <1>1 DEF Heads, Heading, l
<1>10. Heading(s, Heads(s))
  BY <1>5, <1>6, <1>9
<1> QED
  BY <1>8, <1>10

LEMMA NopIs ==
    ASSUME NEW s \in Seqs(Bytes), NEW n, Heading(s, n), KeyOf(s, n) = 144
    PROVE  Decode(s).op = "nop" /\ Decode(s).len = n + Opcode(s, n)
<1>1. Heads(s) = n
  BY HeadsIs
<1>2. Decode(s) = [op |-> "nop", len |-> n + Opcode(s, n)]
  BY <1>1 DEF Decode, NopByte
<1> QED
  BY <1>2

LEMMA DecodeIs ==
    ASSUME NEW s \in Seqs(Bytes), NEW n, Heading(s, n),
           NEW rex, rex = RexOf(s, n), NEW key, key = KeyOf(s, n),
           NEW o \in Nat, o = n + Opcode(s, n), NEW m, m = ByteAt(s, o + 1),
           NEW d, d = Decode(s)
    PROVE  /\ key = 144 => d.op = "nop" /\ d.len = o
           /\ key # 144 =>
                /\ d.op = Operation(key, (m \div 8) % 8) /\ d.key = key
                /\ d.wide = (rex \div 8 = 1) /\ d.prefix = Marks(s, n) /\ d.rex = rex
                /\ d.reg = RegOf(m, rex) /\ d.base = BaseOf(m, rex) /\ d.high = HighByte(s, n, m)
                /\ d.disp = SignExtend(Field(s, o + 2, DispSize(m)))
                /\ d.imm = Field(s, o + 2 + DispSize(m), ImmSize(s, n, m))
                /\ d.len = ((o + 2 + DispSize(m)) - 1) + ImmSize(s, n, m)
<1>1. Heads(s) = n
  BY HeadsIs
<1> DEFINE r == [op   |-> Operation(key, (m \div 8) % 8), key |-> key,
                 wide |-> rex \div 8 = 1, rex |-> rex, prefix |-> Marks(s, n),
                 reg  |-> RegOf(m, rex), high |-> HighByte(s, n, m), base |-> BaseOf(m, rex),
                 disp |-> SignExtend(Field(s, o + 2, DispSize(m))),
                 imm  |-> Field(s, o + 2 + DispSize(m), ImmSize(s, n, m)),
                 len |-> ((o + 2 + DispSize(m)) - 1) + ImmSize(s, n, m)]
<1>2. d = IF key = 144 THEN [op |-> "nop", len |-> o] ELSE r
  <2>1. d = IF KeyOf(s, n) = 144 THEN [op |-> "nop", len |-> n + Opcode(s, n)]
            ELSE r
    BY <1>1 DEF Decode, NopByte
  <2> QED
    BY <2>1
<1> DEFINE op1 == Operation(key, (m \div 8) % 8)
           w1  == (rex \div 8 = 1)
           l1  == ((o + 2 + DispSize(m)) - 1) + ImmSize(s, n, m)
           i1  == Field(s, o + 2 + DispSize(m), ImmSize(s, n, m))
           d1  == SignExtend(Field(s, o + 2, DispSize(m)))
<1>3. r = [op |-> op1, key |-> key, wide |-> w1, rex |-> rex, prefix |-> Marks(s, n),
           reg |-> RegOf(m, rex), high |-> HighByte(s, n, m), base |-> BaseOf(m, rex),
           disp |-> d1, imm |-> i1, len |-> l1]
  OBVIOUS
<1> HIDE DEF r, op1, w1, l1, i1, d1
<1>4. /\ r.op = op1 /\ r.key = key /\ r.wide = w1 /\ r.rex = rex /\ r.prefix = Marks(s, n)
      /\ r.reg = RegOf(m, rex) /\ r.high = HighByte(s, n, m) /\ r.base = BaseOf(m, rex)
      /\ r.disp = d1 /\ r.imm = i1 /\ r.len = l1
  BY <1>3
<1> QED
  BY <1>2, <1>4 DEF op1, w1, l1, i1, d1

(* The parts of an instruction are small numbers.                          *)
LEMMA PartsAre ==
    ASSUME NEW s \in Seqs(Bytes), NEW n, Heading(s, n)
    PROVE  /\ n \in Nat /\ Opcode(s, n) \in {1, 2} /\ KeyOf(s, n) \in Nat
           /\ RexOf(s, n) \in 0 .. 15
<1>1. n \in Nat
  BY SizeFacts DEF Heading
<1>2. Opcode(s, n) \in {1, 2}
  BY DEF Opcode
<1>3. ByteAt(s, n + Opcode(s, n)) \in Bytes
  BY <1>1, <1>2, ByteFacts
<1>4. KeyOf(s, n) \in Nat
  BY <1>3 DEF KeyOf, Bytes
<1>5. RexOf(s, n) \in 0 .. 15
  <2>1. ByteAt(s, n) \in Rex => ByteAt(s, n) - 64 \in 0 .. 15
    BY DEF Rex
  <2> QED
    BY <2>1 DEF RexOf
<1> QED
  BY <1>1, <1>2, <1>4, <1>5

LEMMA SizesAre ==
    ASSUME NEW m \in Bytes, NEW s, NEW n
    PROVE  DispSize(m) \in {0, 1, 4} /\ ImmSize(s, n, m) \in {0, 1, 2, 4}
<1>1. m \div 64 \in {0, 1, 2, 3}
  BY DEF Bytes
<1>2. DispSize(m) \in {0, 1, 4}
  BY <1>1 DEF DispSize
<1>3. ImmSize(s, n, m) \in {0, 1, 2, 4}
  BY DEF ImmSize
<1> QED
  BY <1>2, <1>3

(* An immediate has the size that opcode, prefixes and reg give it.        *)
LEMMA SameImm ==
    ASSUME NEW s, NEW n, NEW m, NEW t, NEW c, NEW x,
           KeyOf(t, c) = KeyOf(s, n), Marks(t, c) = Marks(s, n),
           RexOf(t, c) \div 8 = RexOf(s, n) \div 8, (x \div 8) % 8 = (m \div 8) % 8
    PROVE  ImmSize(t, c, x) = ImmSize(s, n, m)
  BY DEF ImmSize

(* Fields are what their bytes are.                                        *)
LEMMA SameField ==
    ASSUME NEW s, NEW t, NEW a \in Int, NEW b \in Int, NEW z \in Nat,
           \A k \in 1 .. z : ByteAt(s, a + k) = ByteAt(t, b + k)
    PROVE  Field(s, a + 1, z) = Field(t, b + 1, z)
<1>1. \A k \in 1 .. z : (a + 1) - 1 + k = a + k /\ (b + 1) - 1 + k = b + k
  OBVIOUS
<1> QED
  BY <1>1 DEF Field

(***************************************************************************)
(* Where two sequences have the same bytes after their prefixes, and       *)
(* prefixes that say the same, up to a size that covers the instruction,   *)
(* they hold the same instruction.                                         *)
(***************************************************************************)
LEMMA SameStart ==
    ASSUME NEW s \in Seqs(Bytes), NEW t \in Seqs(Bytes), NEW n, NEW c, NEW z \in Nat,
           Heading(s, n), Heading(t, c),
           \A k \in 1 .. z : ByteAt(s, n + k) = ByteAt(t, c + k),
           Opcode(s, n) <= z
    PROVE  Opcode(s, n) = Opcode(t, c) /\ KeyOf(s, n) = KeyOf(t, c)
<1>1. n \in Nat /\ c \in Nat /\ Opcode(s, n) \in {1, 2}
  BY PartsAre
<1>2. 1 \in 1 .. z
  BY <1>1
<1>3. Opcode(s, n) = Opcode(t, c)
  BY <1>2 DEF Opcode
<1>4. Opcode(s, n) \in 1 .. z
  BY <1>1
<1>5. ByteAt(s, n + Opcode(s, n)) = ByteAt(t, c + Opcode(t, c))
  BY <1>3, <1>4
<1> QED
  BY <1>3, <1>5 DEF KeyOf

(* What two decoded instructions have in common when they do the same.     *)
Alike(d, e) ==
    /\ d.key = e.key /\ d.wide = e.wide /\ d.prefix = e.prefix /\ d.reg = e.reg
    /\ d.high = e.high /\ d.imm = e.imm /\ d.disp = e.disp

LEMMA AlikeEffect ==
    ASSUME NEW d, NEW e, NEW denv, NEW eenv, Alike(d, e), denv[d.base] = eenv[e.base]
    PROVE  Effect(d, denv) = Effect(e, eenv)
  BY DEF Effect, Alike

(* No operation is a nop, and few have an opcode of two bytes.             *)
LEMMA OperationIs ==
    ASSUME NEW key \in Nat, NEW g \in 0 .. 7
    PROVE  /\ Operation(key, g) # "nop"
           /\ key >= 256 => Operation(key, g) \in {"xadd", "other"}
           /\ Operation(key, g) = "xadd" => key \in {448, 449}
<1>1. \A k \in 1 .. 8 : Arithmetic[k] \notin {"nop", "xadd"}
  BY DEF Arithmetic
<1>2. key < 64 => key \div 8 + 1 \in 1 .. 8
  OBVIOUS
<1>3. g + 1 \in 1 .. 8
  OBVIOUS
<1> HIDE DEF Arithmetic
<1>4. Operation(key, g) # "nop"
  BY <1>1, <1>2, <1>3 DEF Operation
<1>5. key >= 256 => Operation(key, g) \in {"xadd", "other"}
  BY DEF Operation
<1>6. key \notin {448, 449} => Operation(key, g) # "xadd"
  BY <1>1, <1>2, <1>3 DEF Operation
<1> QED
  BY <1>4, <1>5, <1>6

(* The length of an instruction, and what it covers.                       *)
LEMMA LenIs ==
    ASSUME NEW s \in Seqs(Bytes), NEW n, Heading(s, n),
           NEW o, o = n + Opcode(s, n), NEW m, m = ByteAt(s, o + 1), NEW key, key = KeyOf(s, n)
    PROVE  /\ o \in Nat \ {0} /\ m \in Bytes
           /\ key = 144 => Decode(s).op = "nop" /\ Decode(s).len = o
           /\ key # 144 => /\ Decode(s).op # "nop"
                           /\ Decode(s).len = o + 1 + DispSize(m) + ImmSize(s, n, m)
<1>1. o \in Nat \ {0} /\ m \in Bytes
  BY PartsAre, ByteFacts
<1>2. ASSUME key = 144 PROVE Decode(s).op = "nop" /\ Decode(s).len = o
  <2>1. KeyOf(s, n) = 144
    BY <1>2
  <2>2. Decode(s).op = "nop" /\ Decode(s).len = n + Opcode(s, n)
    BY <2>1, NopIs
  <2> QED
    BY <2>2
<1>3. ASSUME key # 144
      PROVE  Decode(s).op = Operation(key, (m \div 8) % 8)
             /\ Decode(s).len = ((o + 2 + DispSize(m)) - 1) + ImmSize(s, n, m)
  BY <1>1, <1>3, DecodeIs
<1>4. key # 144 => Operation(key, (m \div 8) % 8) # "nop"
  BY <1>1, OperationIs, PartsAre DEF Bytes
<1>5. ((o + 2 + DispSize(m)) - 1) + ImmSize(s, n, m) = o + 1 + DispSize(m) + ImmSize(s, n, m)
  BY <1>1, SizesAre
<1> QED
  BY <1>1, <1>2, <1>3, <1>4, <1>5

(***************************************************************************)
(* A whole instruction is the same wherever its bytes stand at the head.   *)
(***************************************************************************)
LEMMA SameInsn ==
    ASSUME NEW s \in Seqs(Bytes), NEW t \in Seqs(Bytes),
           Decode(t).op # "nop", Decode(t).len = Size(t), Size(t) <= Size(s),
           \A k \in 1 .. Size(t) : ByteAt(s, k) = ByteAt(t, k)
    PROVE  /\ Alike(Decode(s), Decode(t)) /\ Decode(s).base = Decode(t).base
           /\ Decode(s).op # "nop" /\ Decode(s).len = Size(t)
<1> DEFINE n == Heads(t)
           o == n + Opcode(t, n)
           m == ByteAt(t, o + 1)
           key == KeyOf(t, n)
           z == Size(t)
           rex == RexOf(t, n)
<1>1. Heading(t, n)
  BY HeadsIs
<1>2. o \in Nat \ {0} /\ m \in Bytes /\ n \in Nat /\ Opcode(t, n) \in {1, 2}
  BY <1>1, LenIs, PartsAre
<1>3. key # 144
  BY <1>1, LenIs
<1>4. z = o + 1 + DispSize(m) + ImmSize(t, n, m)
  BY <1>1, <1>3, LenIs
<1>5. DispSize(m) \in {0, 1, 4} /\ ImmSize(t, n, m) \in {0, 1, 2, 4}
  BY <1>2, SizesAre
<1>6. z \in Nat /\ n + Opcode(t, n) + 1 <= z /\ Size(s) \in Nat /\ z <= Size(s)
  BY <1>2, <1>4, <1>5, SizeFacts
<1> HIDE DEF n
<1>7. Heading(s, n)
  <2>1. n \in 0 .. Size(s)
    BY <1>2, <1>6
  <2>2. \A j \in 1 .. n + 1 : ByteAt(s, j) = ByteAt(t, j)
    BY <1>2, <1>6
  <2> QED
    BY <1>1, <1>2, <2>1, <2>2 DEF Heading
<1>8. \A k \in 1 .. z - n : ByteAt(s, n + k) = ByteAt(t, n + k)
  BY <1>2, <1>6
<1>9. Opcode(s, n) = Opcode(t, n) /\ KeyOf(s, n) = key
  <2>1. z - n \in Nat /\ Opcode(t, n) <= z - n
    BY <1>2, <1>6
  <2> QED
    BY <1>1, <1>7, <1>8, <2>1, SameStart
<1>10. RexOf(s, n) = rex /\ Marks(s, n) = Marks(t, n) /\ HasRex(s, n) = HasRex(t, n)
  <2>1. \A j \in 1 .. n : ByteAt(s, j) = ByteAt(t, j)
    BY <1>2, <1>6
  <2>2. n > 0 => ByteAt(s, n) = ByteAt(t, n)
    BY <1>2, <2>1
  <2> QED
    BY <2>1, <2>2 DEF RexOf, Marks, HasRex
<1>11. ByteAt(s, o + 1) = m
  BY <1>2, <1>6
<1>12. Field(s, o + 2, DispSize(m)) = Field(t, o + 2, DispSize(m))
  <2> DEFINE a == o + 1
  <2>1. \A k \in 1 .. DispSize(m) : ByteAt(s, a + k) = ByteAt(t, a + k)
    BY <1>2, <1>4, <1>5
  <2>2. a \in Int /\ DispSize(m) \in Nat /\ o + 2 = a + 1
    BY <1>2, <1>5
  <2> HIDE DEF a
  <2> QED
    BY <2>1, <2>2, SameField
<1>13. Field(s, o + 2 + DispSize(m), ImmSize(t, n, m)) = Field(t, o + 2 + DispSize(m), ImmSize(t, n, m))
  <2> DEFINE a == o + 1 + DispSize(m)
  <2>1. \A k \in 1 .. ImmSize(t, n, m) : a + k \in 1 .. z
    BY <1>2, <1>4, <1>5
  <2>2. \A k \in 1 .. ImmSize(t, n, m) : ByteAt(s, a + k) = ByteAt(t, a + k)
    BY <2>1
  <2>3. a \in Int /\ ImmSize(t, n, m) \in Nat /\ o + 2 + DispSize(m) = a + 1
    BY <1>2, <1>5
  <2> HIDE DEF a
  <2> QED
    BY <2>2, <2>3, SameField
<1> HIDE DEF o, m, key, z, rex
<1>14. /\ Decode(t).op = Operation(key, (m \div 8) % 8) /\ Decode(t).wide = (rex \div 8 = 1)
       /\ Decode(t).prefix = Marks(t, n) /\ Decode(t).reg = RegOf(m, rex) /\ Decode(t).base = BaseOf(m, rex)
       /\ Decode(t).key = key /\ Decode(t).high = HighByte(t, n, m)
       /\ Decode(t).disp = SignExtend(Field(t, o + 2, DispSize(m)))
       /\ Decode(t).imm = Field(t, o + 2 + DispSize(m), ImmSize(t, n, m))
  BY <1>1, <1>2, <1>3, DecodeIs DEF o, m, key, rex
<1>15. o = n + Opcode(s, n) /\ m = ByteAt(s, o + 1) /\ key = KeyOf(s, n) /\ rex = RexOf(s, n)
  BY <1>9, <1>10, <1>11 DEF o
<1>16. /\ Decode(s).op = Operation(key, (m \div 8) % 8) /\ Decode(s).wide = (rex \div 8 = 1)
       /\ Decode(s).prefix = Marks(s, n) /\ Decode(s).reg = RegOf(m, rex) /\ Decode(s).base = BaseOf(m, rex)
       /\ Decode(s).key = key /\ Decode(s).high = HighByte(s, n, m)
       /\ Decode(s).disp = SignExtend(Field(s, o + 2, DispSize(m)))
       /\ Decode(s).imm = Field(s, o + 2 + DispSize(m), ImmSize(s, n, m))
  BY <1>2, <1>3, <1>7, <1>15, DecodeIs
<1>17. Decode(s).op # "nop" /\ Decode(s).len = o + 1 + DispSize(m) + ImmSize(s, n, m)
  BY <1>3, <1>7, <1>15, LenIs
<1>18. ImmSize(s, n, m) = ImmSize(t, n, m) /\ HighByte(s, n, m) = HighByte(t, n, m)
  <2>1. KeyOf(s, n) = KeyOf(t, n) /\ RexOf(s, n) = RexOf(t, n)
    BY <1>9, <1>10 DEF key, rex
  <2>2. ImmSize(s, n, m) = ImmSize(t, n, m)
    BY <1>10, <2>1, SameImm
  <2> QED
    BY <1>10, <2>1, <2>2 DEF HighByte
<1> QED
  BY <1>4, <1>10, <1>12, <1>13, <1>14, <1>16, <1>17, <1>18 DEF Alike, z

-----------------------------------------------------------------------------
(* What a slot does                                                        *)

LEMMA DecodeLen ==
    ASSUME NEW s \in Seqs(Bytes) PROVE Decode(s).len \in Nat \ {0}
<1> DEFINE n == Heads(s)
           o == n + Opcode(s, n)
           m == ByteAt(s, o + 1)
<1>1. Heading(s, n)
  BY HeadsIs
<1>2. /\ o \in Nat \ {0} /\ m \in Bytes
      /\ Decode(s).len = o \/ Decode(s).len = o + 1 + DispSize(m) + ImmSize(s, n, m)
  BY <1>1, LenIs
<1>3. DispSize(m) \in {0, 1, 4} /\ ImmSize(s, n, m) \in {0, 1, 2, 4}
  BY <1>2, SizesAre
<1> HIDE DEF n, o, m
<1> QED
  BY <1>2, <1>3

(* A step looks only at what comes after it.                               *)
LEMMA OnwardLocal ==
    ASSUME NEW s \in Seqs(Bytes), Size(s) = 15, NEW env, NEW k \in 0 .. 15, NEW f, NEW g,
           \A j \in 0 .. 15 : j > k => f[j] = g[j]
    PROVE  Onward(f, s, env, k) = Onward(g, s, env, k)
<1>1. CASE k = 15
  BY <1>1 DEF Onward, SlotSize
<1>2. CASE k # 15
  <2> DEFINE d == Decode(Part(s, k + 1, 15))
  <2>1. d.len \in Nat \ {0}
    BY SlotSuffix, DecodeLen
  <2>2. \A h : Onward(h, s, env, k) =
                 IF k + d.len > 15 THEN <<"overrun">>
                 ELSE (IF d.op = "nop" THEN <<>> ELSE <<Effect(d, env)>>) \o h[k + d.len]
    BY <1>2 DEF Onward, SlotSize, Part
  <2> HIDE DEF d
  <2>3. ~(k + d.len > 15) => f[k + d.len] = g[k + d.len]
    BY <2>1
  <2> QED
    BY <2>2, <2>3
<1> QED
  BY <1>1, <1>2

(* f is what the slot does from its last n bytes on.                       *)
RunsLast(f, s, env, n) == \A k \in 0 .. 15 : 15 - k <= n => f[k] = Onward(f, s, env, k)

LEMMA RunsOneMore ==
    ASSUME NEW s \in Seqs(Bytes), Size(s) = 15, NEW env, NEW f, NEW n \in Nat,
           RunsLast(f, s, env, n)
    PROVE  \E g : RunsLast(g, s, env, n + 1)
<1> DEFINE g == [k \in 0 .. 15 |-> Onward(f, s, env, k)]
<1>1. \A k \in 0 .. 15 : g[k] = Onward(f, s, env, k)
  OBVIOUS
<1> HIDE DEF g
<1>2. ASSUME NEW k \in 0 .. 15, 15 - k <= n + 1 PROVE g[k] = Onward(g, s, env, k)
  <2>1. ASSUME NEW j \in 0 .. 15, j > k PROVE f[j] = g[j]
    <3>1. 15 - j <= n
      BY <1>2, <2>1
    <3> QED
      BY <1>1, <3>1 DEF RunsLast
  <2>2. Onward(f, s, env, k) = Onward(g, s, env, k)
    BY <2>1, OnwardLocal
  <2> QED
    BY <1>1, <2>2
<1> QED
  BY <1>2 DEF RunsLast

LEMMA RunsAny ==
    ASSUME NEW s \in Seqs(Bytes), Size(s) = 15, NEW env, NEW n \in Nat
    PROVE  \E f : RunsLast(f, s, env, n)
<1> DEFINE T == { k \in Nat : ~\E f : RunsLast(f, s, env, k) }
<1> SUFFICES ASSUME T # {} PROVE FALSE
  OBVIOUS
<1>1. PICK k \in T : \A m \in T : k <= m
  <2>1. T \subseteq Nat
    OBVIOUS
  <2> HIDE DEF T
  <2> QED
    BY <2>1, NatMin
<1>2. k # 0
  <2> DEFINE f == [j \in 0 .. 15 |-> <<>>]
  <2>1. RunsLast(f, s, env, 0)
    <3>1. ASSUME NEW j \in 0 .. 15, 15 - j <= 0 PROVE f[j] = Onward(f, s, env, j)
      <4>1. j = 15 /\ f[j] = <<>>
        BY <3>1
      <4> QED
        BY <4>1 DEF Onward, SlotSize
    <3> QED
      BY <3>1 DEF RunsLast
  <2> HIDE DEF f
  <2> QED
    BY <2>1
<1>3. k - 1 \in Nat /\ k - 1 \notin T /\ (k - 1) + 1 = k
  BY <1>1, <1>2
<1>4. PICK f : RunsLast(f, s, env, k - 1)
  BY <1>3
<1>5. \E g : RunsLast(g, s, env, (k - 1) + 1)
  BY <1>3, <1>4, RunsOneMore
<1> QED
  BY <1>1, <1>3, <1>5

(* The recursive function of RunSlot exists, so the slot is run to its end.*)
LEMMA SlotLoops ==
    ASSUME NEW s \in Seqs(Bytes), Size(s) = 15, NEW env
    PROVE  \E f : RunSlot(s, env) = f[0] /\ \A k \in 0 .. 15 : f[k] = Onward(f, s, env, k)
<1> DEFINE Solves(g) == g = [k \in 0 .. SlotSize |-> Onward(g, s, env, k)]
<1>1. PICK f : RunsLast(f, s, env, 15)
  BY RunsAny
<1>2. \A k \in 0 .. 15 : f[k] = Onward(f, s, env, k)
  BY <1>1 DEF RunsLast
<1> DEFINE f1 == [k \in 0 .. 15 |-> Onward(f, s, env, k)]
<1>3. \A k \in 0 .. 15 : f1[k] = f[k]
  BY <1>2
<1>4. f1 = [k \in 0 .. 15 |-> Onward(f1, s, env, k)]
  <2>1. \A k \in 0 .. 15 : Onward(f, s, env, k) = Onward(f1, s, env, k)
    <3> HIDE DEF f1
    <3> QED
      BY <1>3, OnwardLocal
  <2> QED
    BY <2>1
<1>5. Solves(f1)
  BY <1>4 DEF SlotSize
<1>6. RunSlot(s, env) = (CHOOSE g : Solves(g))[0]
  BY DEF RunSlot
<1> DEFINE from == CHOOSE g : Solves(g)
<1> HIDE DEF f1
<1>7. Solves(from)
  <2> HIDE DEF Solves
  <2> QED
    BY <1>5
<1> HIDE DEF from
<1>8. \A k \in 0 .. 15 : from[k] = Onward(from, s, env, k)
  BY <1>7 DEF SlotSize
<1> QED
  BY <1>6, <1>8 DEF from

(* A slot of nops with the bytes t at its head                             *)
LEMMA SlotBytes ==
    ASSUME NEW t \in Seqs(Bytes), Size(t) <= 15
    PROVE  /\ Put(NopBytes, t) \in Seqs(Bytes) /\ Size(Put(NopBytes, t)) = 15
           /\ \A k \in 1 .. Size(t) : ByteAt(Put(NopBytes, t), k) = ByteAt(t, k)
           /\ \A k \in 1 .. 15 - Size(t) : ByteAt(Put(NopBytes, t), Size(t) + k) = 144
<1>1. PICK z \in 0 .. 15 : z = Size(t)
  BY SizeFacts
<1>2. NopBytes \in Seqs(Bytes) /\ Size(NopBytes) = 15 /\ \A k \in 1 .. 15 : At(NopBytes, k) = 144
  <2>1. NopBytes \in Seq(Bytes) /\ Len(NopBytes) = 15 /\ \A k \in 1 .. 15 : NopBytes[k] = 144
    BY DEF NopBytes, SlotSize, NopByte, Bytes
  <2> QED
    BY <2>1 DEF Seqs, Size, At
<1> DEFINE rest == Part(NopBytes, z + 1, 15)
           slot == Join(t, rest)
<1>3. Put(NopBytes, t) = slot
  BY <1>1 DEF Put, SlotSize, Join, Part, Size
<1>4. rest \in Seqs(Bytes) /\ Size(rest) = 15 - z /\ \A k \in 1 .. 15 - z : At(rest, k) = 144
  <2>1. /\ rest \in Seqs(Bytes) /\ Size(rest) = 15 - z
        /\ \A k \in 1 .. 15 - z : At(rest, k) = At(NopBytes, z + k)
    BY <1>2, SlotSuffix
  <2> HIDE DEF rest
  <2> QED
    BY <1>2, <2>1
<1> HIDE DEF rest
<1>5. /\ slot \in Seqs(Bytes) /\ Size(slot) = 15
      /\ \A k \in 1 .. z : At(slot, k) = At(t, k)
      /\ \A k \in 1 .. 15 - z : At(slot, z + k) = At(rest, k)
  <2>1. /\ slot \in Seqs(Bytes) /\ Size(slot) = z + Size(rest)
        /\ \A k \in 1 .. z : At(slot, k) = At(t, k)
        /\ \A k \in 1 .. Size(rest) : At(slot, z + k) = At(rest, k)
    BY <1>1, <1>4, JoinFacts
  <2> HIDE DEF slot
  <2> QED
    BY <1>4, <2>1
<1> HIDE DEF slot
<1>6. ASSUME NEW k \in 1 .. z PROVE ByteAt(slot, k) = ByteAt(t, k)
  <2>1. ByteAt(slot, k) = At(slot, k)
    BY <1>5, ByteFacts
  <2>2. ByteAt(t, k) = At(t, k)
    BY <1>1, ByteFacts
  <2> QED
    BY <1>5, <2>1, <2>2
<1>7. ASSUME NEW k \in 1 .. 15 - z PROVE ByteAt(slot, z + k) = 144
  <2>1. z + k \in Nat \ {0} /\ z + k <= 15
    OBVIOUS
  <2>2. ByteAt(slot, z + k) = At(slot, z + k)
    BY <1>5, <2>1, ByteFacts
  <2> QED
    BY <1>4, <1>5, <2>2
<1> QED
  BY <1>1, <1>3, <1>5, <1>6, <1>7

(* A slot that holds one instruction does what the instruction does.       *)
LEMMA SlotRuns ==
    ASSUME NEW t \in Seqs(Bytes), Size(t) <= 15, Decode(t).op # "nop", Decode(t).len = Size(t), NEW env
    PROVE  RunSlot(Put(NopBytes, t), env) = <<Effect(Decode(t), env)>>
<1> DEFINE s == Put(NopBytes, t)
           z == Size(t)
<1>1. /\ s \in Seqs(Bytes) /\ Size(s) = 15
      /\ \A k \in 1 .. z : ByteAt(s, k) = ByteAt(t, k)
      /\ \A k \in 1 .. 15 - z : ByteAt(s, z + k) = 144
  BY SlotBytes
<1>2. z \in 1 .. 15
  BY SizeFacts, DecodeLen
<1> HIDE DEF s
<1>3. PICK f : RunSlot(s, env) = f[0] /\ \A k \in 0 .. 15 : f[k] = Onward(f, s, env, k)
  BY <1>1, SlotLoops
<1>4. \A k \in 0 .. 15 :
         f[k] = IF k = 15 THEN <<>>
                ELSE LET d == Decode(Part(s, k + 1, 15))
                     IN  IF k + d.len > 15 THEN <<"overrun">>
                         ELSE (IF d.op = "nop" THEN <<>> ELSE <<Effect(d, env)>>) \o f[k + d.len]
  BY <1>3 DEF Onward, SlotSize, Part
<1>12. ASSUME NEW k \in 0 .. 14, NEW d, d = Decode(Part(s, k + 1, 15)), ~(k + d.len > 15)
       PROVE  f[k] = (IF d.op = "nop" THEN <<>> ELSE <<Effect(d, env)>>) \o f[k + d.len]
  <2>1. k # 15 /\ k \in 0 .. 15
    OBVIOUS
  <2>2. f[k] = IF k + d.len > 15 THEN <<"overrun">>
               ELSE (IF d.op = "nop" THEN <<>> ELSE <<Effect(d, env)>>) \o f[k + d.len]
    BY <1>4, <1>12, <2>1, Zenon
  <2> QED
    BY <1>12, <2>2, Zenon
<1>5. ASSUME NEW k \in z .. 14
      PROVE  Decode(Part(s, k + 1, 15)).op = "nop" /\ Decode(Part(s, k + 1, 15)).len = 1
  <2> DEFINE u == Part(s, k + 1, 15)
  <2>1. u \in Seqs(Bytes) /\ Size(u) = 15 - k /\ \A j \in 1 .. 15 - k : At(u, j) = At(s, k + j)
    BY <1>1, <1>2, SlotSuffix
  <2> HIDE DEF u
  <2>2. ByteAt(u, 1) = 144
    <3>1. ByteAt(u, 1) = At(s, k + 1)
      BY <1>2, <2>1, ByteFacts
    <3>2. ByteAt(s, k + 1) = At(s, k + 1)
      BY <1>1, <1>2, ByteFacts
    <3>3. k + 1 - z \in 1 .. 15 - z /\ z + (k + 1 - z) = k + 1
      BY <1>2
    <3> QED
      BY <1>1, <3>1, <3>2, <3>3
  <2>3. Heading(u, 0)
    BY <1>2, <2>1, <2>2 DEF Heading, Prefix, Rex
  <2>4. Opcode(u, 0) = 1 /\ KeyOf(u, 0) = 144
    BY <2>2 DEF Opcode, KeyOf
  <2>5. Decode(u).op = "nop" /\ Decode(u).len = 0 + Opcode(u, 0)
    BY <2>1, <2>3, <2>4, NopIs
  <2> QED
    BY <2>4, <2>5 DEF u
<1>6. \A k \in z .. 15 : f[k] = <<>>
  <2> DEFINE T == { j \in 0 .. 15 - z : f[15 - j] # <<>> }
  <2>1. T = {}
    <3> SUFFICES ASSUME T # {} PROVE FALSE
      OBVIOUS
    <3>1. PICK j \in T : \A i \in T : j <= i
      <4>1. T \subseteq Nat
        BY <1>2
      <4> HIDE DEF T
      <4> QED
        BY <4>1, NatMin
    <3>2. j # 0
      <4>1. f[15] = <<>>
        <5>1. 15 \in 0 .. 15
          OBVIOUS
        <5> QED
          BY <1>4, <5>1, Zenon
      <4> QED
        BY <3>1, <4>1
    <3>3. j - 1 \notin T /\ j - 1 \in 0 .. 15 - z /\ 15 - (j - 1) = 15 - j + 1
      BY <1>2, <3>1, <3>2
    <3>4. 15 - j \in z .. 14
      BY <1>2, <3>1, <3>2
    <3>5. PICK k \in z .. 14 : k = 15 - j
      BY <3>4
    <3>6. f[k + 1] = <<>>
      BY <3>3, <3>5
    <3>7. f[k] = <<>> \o f[k + 1]
      <4>1. PICK d : d = Decode(Part(s, k + 1, 15))
        OBVIOUS
      <4>2. d.op = "nop" /\ d.len = 1
        BY <1>5, <4>1
      <4>3. k \in 0 .. 14 /\ ~(k + d.len > 15)
        BY <1>2, <4>2
      <4>4. f[k] = (IF d.op = "nop" THEN <<>> ELSE <<Effect(d, env)>>) \o f[k + d.len]
        BY <1>12, <4>1, <4>3
      <4> QED
        BY <4>2, <4>4
    <3> QED
      BY <3>1, <3>5, <3>6, <3>7
  <2>2. ASSUME NEW k \in z .. 15 PROVE f[k] = <<>>
    <3>1. 15 - k \in 0 .. 15 - z /\ 15 - (15 - k) = k
      BY <1>2
    <3> QED
      BY <2>1, <3>1
  <2> QED
    BY <2>2
<1>7. Part(s, 1, 15) = s
  <2>1. /\ Part(s, 1, 15) \in Seqs(Bytes) /\ Size(Part(s, 1, 15)) = 15
        /\ \A k \in 1 .. 15 : At(Part(s, 1, 15), k) = At(s, k)
    BY <1>1, PrefixFacts
  <2> QED
    BY <1>1, <2>1, SameSeq
<1>8. /\ Alike(Decode(s), Decode(t)) /\ Decode(s).base = Decode(t).base
      /\ Decode(s).op # "nop" /\ Decode(s).len = z
  BY <1>1, <1>2, SameInsn
<1>9. f[0] = <<Effect(Decode(s), env)>> \o f[z]
  <2>1. PICK d : d = Decode(Part(s, 0 + 1, 15))
    OBVIOUS
  <2>2. d = Decode(s)
    BY <1>7, <2>1
  <2>3. d.op # "nop" /\ d.len = z
    BY <1>8, <2>2
  <2>4. 0 \in 0 .. 14 /\ ~(0 + d.len > 15) /\ 0 + d.len = z
    BY <1>2, <2>3
  <2>5. f[0] = (IF d.op = "nop" THEN <<>> ELSE <<Effect(d, env)>>) \o f[0 + d.len]
    BY <1>12, <2>1, <2>4
  <2> QED
    BY <2>2, <2>3, <2>4, <2>5
<1>10. Effect(Decode(s), env) = Effect(Decode(t), env)
  BY <1>8, AlikeEffect
<1>11. f[0] = <<Effect(Decode(t), env)>>
  <2>1. f[z] = <<>>
    BY <1>2, <1>6
  <2>2. \A e : <<e>> \o <<>> = <<e>>
    OBVIOUS
  <2> QED
    BY <1>9, <1>10, <2>1, <2>2, Zenon
<1> QED
  BY <1>3, <1>11 DEF s

-----------------------------------------------------------------------------
(* What the rewriting makes of the bytes                                   *)

(* ModRM: rm is 7, reg stays, mod is what the name says.                   *)
LEMMA ModRMFacts ==
    ASSUME NEW m \in Bytes, m \div 64 = 0, m % 8 = 5
    PROVE  /\ NoDisp(m) = m + 2 /\ ShortDisp(m) = m + 66 /\ LongDisp(m) = m + 130
           /\ \A x \in {NoDisp(m), ShortDisp(m), LongDisp(m)} :
                 x \in Bytes /\ x % 8 = 7 /\ (x \div 8) % 8 = (m \div 8) % 8
           /\ NoDisp(m) \div 64 = 0 /\ ShortDisp(m) \div 64 = 1 /\ LongDisp(m) \div 64 = 2
           /\ DispSize(m) = 4 /\ DispSize(NoDisp(m)) = 0
           /\ DispSize(ShortDisp(m)) = 1 /\ DispSize(LongDisp(m)) = 4
<1>1. m \in 0 .. 63
  BY DEF Bytes
<1>2. Or(m, 2) = m + 2
  <2>1. (m \div 2) % 2 = 0
    BY <1>1
  <2> QED
    BY <2>1 DEF Or
<1>3. Or(m + 2, 64) = m + 66
  <2>1. ((m + 2) \div 64) % 2 = 0
    BY <1>1
  <2>2. m + 2 + 64 = m + 66
    BY <1>1
  <2> QED
    BY <2>1, <2>2 DEF Or
<1>4. Or(m + 2, 128) = m + 130
  <2>1. ((m + 2) \div 128) % 2 = 0
    BY <1>1
  <2>2. m + 2 + 128 = m + 130
    BY <1>1
  <2> QED
    BY <2>1, <2>2 DEF Or
<1>5. NoDisp(m) = m + 2 /\ ShortDisp(m) = m + 66 /\ LongDisp(m) = m + 130
  BY <1>2, <1>3, <1>4 DEF NoDisp, ShortDisp, LongDisp
<1>6. \A x \in {m + 2, m + 66, m + 130} :
         x \in Bytes /\ x % 8 = 7 /\ (x \div 8) % 8 = (m \div 8) % 8
  BY <1>1 DEF Bytes
<1>7. (m + 2) \div 64 = 0 /\ (m + 66) \div 64 = 1 /\ (m + 130) \div 64 = 2 /\ (m + 2) % 8 = 7
  BY <1>1
<1>8. DispSize(m) = 4 /\ DispSize(m + 2) = 0 /\ DispSize(m + 66) = 1 /\ DispSize(m + 130) = 4
  BY <1>7 DEF DispSize
<1> QED
  BY <1>5, <1>6, <1>7, <1>8

(* REX: the lowest bit is set, wide and the extension of reg stay.         *)
LEMMA RexBits ==
    ASSUME NEW x \in Rex
    PROVE  /\ Or(x, 1) \in Rex /\ (Or(x, 1) - 64) % 2 = 1
           /\ (Or(x, 1) - 64) \div 8 = (x - 64) \div 8
           /\ ((Or(x, 1) - 64) \div 4) % 2 = ((x - 64) \div 4) % 2
<1>1. PICK y \in 0 .. 15 : y = x - 64 /\ x = y + 64
  BY DEF Rex
<1>2. CASE y % 2 = 1
  <2>1. (x \div 1) % 2 = 1
    BY <1>1, <1>2
  <2> QED
    BY <1>1, <1>2, <2>1 DEF Or
<1>3. CASE y % 2 = 0
  <2>1. (x \div 1) % 2 = 0
    BY <1>1, <1>3
  <2>2. Or(x, 1) = y + 65
    BY <1>1, <2>1 DEF Or
  <2>3. y + 65 \in Rex /\ (y + 65) - 64 = y + 1
    BY <1>1, <1>3 DEF Rex
  <2>4. (y + 1) % 2 = 1 /\ (y + 1) \div 8 = y \div 8 /\ ((y + 1) \div 4) % 2 = (y \div 4) % 2
    BY <1>1, <1>3
  <2> QED
    BY <1>1, <2>2, <2>3, <2>4
<1>4. y % 2 = 0 \/ y % 2 = 1
  OBVIOUS
<1> QED
  BY <1>2, <1>3, <1>4

(* c prefixes of t say what n prefixes of b say, and select r15.           *)
Selects(t, c, b, n) ==
    /\ Heading(t, c) /\ Heading(b, n) /\ Marks(t, c) = Marks(b, n)
    /\ RexOf(t, c) % 2 = 1 /\ RexOf(t, c) \div 8 = RexOf(b, n) \div 8
    /\ (RexOf(t, c) \div 4) % 2 = (RexOf(b, n) \div 4) % 2

(* t is b with another ModRM byte and as much of the displacement as that  *)
(* announces.                                                              *)
Respells(t, b) ==
    /\ t \in Seqs(Bytes) /\ Decode(t).op # "nop" /\ Decode(t).len = Size(t)
    /\ Alike(Decode(t), Decode(b)) /\ Decode(t).base = "r15"

LEMMA SelectsStart ==
    ASSUME NEW t \in Seqs(Bytes), NEW p \in Seqs(Bytes), NEW c, NEW b, NEW n,
           NEW z \in Nat, Selects(p, c, b, n), c < z, z <= Size(t),
           \A k \in 1 .. z : ByteAt(t, k) = ByteAt(p, k)
    PROVE  Selects(t, c, b, n)
<1>1. c \in Nat /\ Heading(p, c)
  BY PartsAre DEF Selects
<1>2. Size(t) \in Nat
  BY SizeFacts
<1>3. \A k \in 1 .. c + 1 : ByteAt(t, k) = ByteAt(p, k)
  BY <1>1
<1>4. Heading(t, c)
  BY <1>1, <1>2, <1>3 DEF Heading
<1>5. RexOf(t, c) = RexOf(p, c)
  <2>1. c > 0 => ByteAt(t, c) = ByteAt(p, c)
    BY <1>1, <1>3
  <2> QED
    BY <2>1 DEF RexOf
<1>6. Marks(t, c) = Marks(p, c)
  <2>1. \A k \in 1 .. c : ByteAt(t, k) = ByteAt(p, k)
    BY <1>1, <1>3
  <2> QED
    BY <2>1 DEF Marks
<1> QED
  BY <1>4, <1>5, <1>6 DEF Selects

(* A displacement is four bytes, however few of them are written.          *)
LEMMA SameDisp ==
    ASSUME NEW b, NEW t, NEW i \in Nat, NEW j \in Nat, NEW z \in {0, 1, 4},
           \A k \in 1 .. z : ByteAt(t, i + k) = ByteAt(b, j + k),
           \A k \in 1 .. 4 : k > z => ByteAt(b, j + k) = 0,
           \A k \in 1 .. 4 : ByteAt(b, j + k) \in Bytes,
           z = 1 => ByteAt(b, j + 1) < 128
    PROVE  SignExtend(Field(t, i + 1, z)) = SignExtend(Field(b, j + 1, 4))
<1> DEFINE f == Field(t, i + 1, z)
           g == Field(b, j + 1, 4)
<1>1. Len(f) = z /\ \A k \in 1 .. z : f[k] = ByteAt(t, i + k)
  <2>1. \A k \in 1 .. z : (i + 1) - 1 + k = i + k
    OBVIOUS
  <2> QED
    BY <2>1 DEF Field
<1>2. Len(g) = 4 /\ \A k \in 1 .. 4 : g[k] = ByteAt(b, j + k)
  <2>1. \A k \in 1 .. 4 : (j + 1) - 1 + k = j + k
    OBVIOUS
  <2> QED
    BY <2>1 DEF Field
<1>3. \A k \in 1 .. 4 : k <= z => f[k] = g[k]
  BY <1>1, <1>2
<1>4. \A k \in 1 .. 4 : k > z => g[k] = 0
  BY <1>2
<1>5. ASSUME z = 1 PROVE ~(f[Len(f)] >= 128)
  <2>1. f[1] = g[1] /\ g[1] < 128 /\ g[1] \in Bytes
    BY <1>2, <1>3, <1>5
  <2>2. PICK y \in Bytes : y = f[1] /\ y < 128
    BY <2>1
  <2>3. f[Len(f)] = y
    BY <1>1, <1>5, <2>2
  <2> QED
    BY <2>2, <2>3 DEF Bytes
<1> HIDE DEF f, g
<1>6. SignExtend(g) = [k \in 1 .. 4 |-> g[k]]
  BY <1>2 DEF SignExtend
<1>7. SignExtend(f) = [k \in 1 .. 4 |-> IF k <= z THEN f[k] ELSE 0]
  BY <1>1, <1>5 DEF SignExtend
<1> QED
  BY <1>3, <1>4, <1>6, <1>7 DEF f, g

(***************************************************************************)
(* With the prefixes that select r15, the same opcode, one of the three    *)
(* ModRM bytes and what follows it, t respells b.                          *)
(***************************************************************************)
LEMMA Spelling ==
    ASSUME NEW b \in Seqs(Bytes), NEW t \in Seqs(Bytes), NEW c, NEW n, Selects(t, c, b, n),
           NEW o, o = Opcode(b, n), NEW key, key = KeyOf(b, n), key # 144,
           NEW m, m = ByteAt(b, n + o + 1), m \div 64 = 0, m % 8 = 5, ~HighByte(b, n, m),
           NEW x \in {NoDisp(m), ShortDisp(m), LongDisp(m)}, x = ByteAt(t, c + o + 1),
           \A k \in 1 .. o : ByteAt(t, c + k) = ByteAt(b, n + k),
           Size(t) = c + o + 1 + DispSize(x) + ImmSize(b, n, m),
           SignExtend(Field(t, c + o + 2, DispSize(x))) = SignExtend(Field(b, n + o + 2, 4)),
           Field(t, c + o + 2 + DispSize(x), ImmSize(b, n, m)) = Field(b, n + o + 6, ImmSize(b, n, m))
    PROVE  Respells(t, b)
<1>1. Heading(t, c) /\ Heading(b, n)
  BY DEF Selects
<1>2. c \in Nat /\ n \in Nat /\ o \in {1, 2} /\ RexOf(t, c) \in 0 .. 15 /\ RexOf(b, n) \in 0 .. 15
  BY <1>1, PartsAre
<1>3. Opcode(t, c) = o /\ KeyOf(t, c) = key
  <2>1. o \in Nat /\ Opcode(b, n) <= o
    BY <1>2
  <2>2. \A k \in 1 .. o : ByteAt(b, n + k) = ByteAt(t, c + k)
    OBVIOUS
  <2> QED
    BY <1>1, <2>1, <2>2, SameStart
<1>4. m \in Bytes
  BY <1>2, ByteFacts
<1>5. x \in Bytes /\ x % 8 = 7 /\ (x \div 8) % 8 = (m \div 8) % 8 /\ DispSize(m) = 4
      /\ x \div 64 \in {0, 1, 2}
  BY <1>4, ModRMFacts
<1>6. ImmSize(t, c, x) = ImmSize(b, n, m)
  <2>1. KeyOf(t, c) = KeyOf(b, n)
    BY <1>3
  <2> QED
    BY <1>5, <2>1, SameImm DEF Selects
<1>7. ~HighByte(t, c, x)
  <2>1. RexOf(t, c) % 2 = 1
    BY DEF Selects
  <2>2. HasRex(t, c)
    BY <2>1 DEF HasRex, RexOf
  <2> QED
    BY <2>2 DEF HighByte
<1> DEFINE oc == c + o
           on == n + o
           rt == RexOf(t, c)
           rb == RexOf(b, n)
<1>8. oc \in Nat /\ on \in Nat /\ oc = c + Opcode(t, c) /\ on = n + Opcode(b, n)
  BY <1>2, <1>3
<1>9. /\ Decode(t).op = Operation(key, (x \div 8) % 8) /\ Decode(t).wide = (rt \div 8 = 1)
      /\ Decode(t).prefix = Marks(t, c) /\ Decode(t).reg = RegOf(x, rt) /\ Decode(t).base = BaseOf(x, rt)
      /\ Decode(t).key = key /\ Decode(t).high = HighByte(t, c, x)
      /\ Decode(t).disp = SignExtend(Field(t, oc + 2, DispSize(x)))
      /\ Decode(t).imm = Field(t, oc + 2 + DispSize(x), ImmSize(t, c, x))
  <2>1. x = ByteAt(t, oc + 1) /\ key = KeyOf(t, c)
    BY <1>3
  <2> HIDE DEF oc
  <2> QED
    BY <1>1, <1>8, <2>1, DecodeIs
<1>10. /\ Decode(b).op = Operation(key, (m \div 8) % 8) /\ Decode(b).wide = (rb \div 8 = 1)
      /\ Decode(b).prefix = Marks(b, n) /\ Decode(b).reg = RegOf(m, rb)
      /\ Decode(b).key = key /\ Decode(b).high = HighByte(b, n, m)
      /\ Decode(b).disp = SignExtend(Field(b, on + 2, 4))
      /\ Decode(b).imm = Field(b, on + 2 + 4, ImmSize(b, n, m))
  <2>1. m = ByteAt(b, on + 1)
    OBVIOUS
  <2> HIDE DEF on
  <2> QED
    BY <1>1, <1>5, <1>8, <2>1, DecodeIs
<1>11. on + 2 + 4 = n + o + 6
  BY <1>2
<1>12. RegOf(x, rt) = RegOf(m, rb) /\ Marks(t, c) = Marks(b, n) /\ rt \div 8 = rb \div 8
  BY <1>5 DEF RegOf, Selects
<1>13. BaseOf(x, rt) = "r15"
  <2>1. x \div 64 # 3 /\ x % 8 # 5 /\ (x % 8) + (8 * (rt % 2)) = 15
    BY <1>5 DEF Selects
  <2> QED
    BY <2>1 DEF BaseOf
<1>14. Decode(t).op # "nop" /\ Decode(t).len = Size(t)
  <2>1. x = ByteAt(t, oc + 1) /\ key = KeyOf(t, c)
    BY <1>3
  <2>2. Decode(t).op # "nop" /\ Decode(t).len = oc + 1 + DispSize(x) + ImmSize(t, c, x)
    <3> HIDE DEF oc
    <3> QED
      BY <1>1, <1>8, <2>1, LenIs
  <2> QED
    BY <1>6, <2>2
<1> HIDE DEF rt, rb
<1>15. Alike(Decode(t), Decode(b))
  <2>1. Decode(t).imm = Decode(b).imm
    BY <1>9, <1>10, <1>11, <1>6
  <2>2. Decode(t).disp = Decode(b).disp
    BY <1>9, <1>10
  <2>3. HighByte(t, c, x) = HighByte(b, n, m)
    BY <1>7 DEF HighByte
  <2>4. Decode(t).key = Decode(b).key /\ Decode(t).high = Decode(b).high
    BY <1>9, <1>10, <2>3
  <2> QED
    BY <1>9, <1>10, <1>12, <2>1, <2>2, <2>4 DEF Alike
<1> QED
  BY <1>9, <1>13, <1>14, <1>15 DEF Respells

(* Replacing a byte of a sequence of bytes, and cutting its end            *)
LEMMA ReplaceByte ==
    ASSUME NEW p \in Seqs(Bytes), NEW i \in 1 .. Size(p), NEW x \in Bytes
    PROVE  /\ [p EXCEPT ![i] = x] \in Seqs(Bytes) /\ Size([p EXCEPT ![i] = x]) = Size(p)
           /\ \A k \in 1 .. Size(p) : ByteAt([p EXCEPT ![i] = x], k) = IF k = i THEN x ELSE ByteAt(p, k)
<1> DEFINE q == [p EXCEPT ![i] = x]
<1>1. q \in Seqs(Bytes \cup {x}) /\ Size(q) = Size(p)
  BY ReplaceFacts
<1>2. Bytes \cup {x} = Bytes
  OBVIOUS
<1>3. q \in Seqs(Bytes)
  BY <1>1, <1>2
<1>4. PICK l \in Nat : l = Size(p)
  BY SizeFacts
<1>5. ASSUME NEW k \in 1 .. l PROVE At(q, k) = IF k = i THEN x ELSE At(p, k)
  <2>1. p \in Seq(Bytes) /\ k \in 1 .. Len(p) /\ i \in 1 .. Len(p)
    BY <1>4 DEF Seqs, Size
  <2>2. [p EXCEPT ![i] = x][k] = IF k = i THEN x ELSE p[k]
    BY <2>1
  <2> QED
    BY <2>2 DEF At
<1> HIDE DEF q
<1>6. ASSUME NEW k \in 1 .. l PROVE ByteAt(q, k) = IF k = i THEN x ELSE ByteAt(p, k)
  <2>1. k \in Nat \ {0} /\ k <= Size(p) /\ k <= Size(q)
    BY <1>1, <1>4
  <2>2. ByteAt(q, k) = At(q, k)
    BY <1>3, <2>1, ByteFacts
  <2>3. ByteAt(p, k) = At(p, k)
    BY <2>1, ByteFacts
  <2> QED
    BY <1>5, <2>2, <2>3
<1> QED
  BY <1>1, <1>3, <1>4, <1>6 DEF q

LEMMA CutBytes ==
    ASSUME NEW q \in Seqs(Bytes), NEW z \in 0 .. Size(q)
    PROVE  /\ Part(q, 1, z) \in Seqs(Bytes) /\ Size(Part(q, 1, z)) = z
           /\ \A k \in 1 .. z : ByteAt(Part(q, 1, z), k) = ByteAt(q, k)
<1> DEFINE t == Part(q, 1, z)
<1>1. t \in Seqs(Bytes) /\ Size(t) = z /\ \A k \in 1 .. z : At(t, k) = At(q, k)
  BY PrefixFacts
<1> HIDE DEF t
<1>2. ASSUME NEW k \in 1 .. z PROVE ByteAt(t, k) = ByteAt(q, k)
  <2>1. k \in Nat \ {0} /\ k <= Size(q)
    BY SizeFacts
  <2>2. ByteAt(t, k) = At(t, k)
    BY <1>1, <2>1, ByteFacts
  <2>3. ByteAt(q, k) = At(q, k)
    BY <2>1, ByteFacts
  <2> QED
    BY <1>1, <2>2, <2>3
<1> QED
  BY <1>1, <1>2 DEF t

(***************************************************************************)
(* p is b with other prefixes, which select r15.  b is relative to rip and *)
(* has its opcode, of o bytes, after n prefixes, then the ModRM byte m.    *)
(***************************************************************************)
Prepared(p, c, b, n, o, m, key) ==
    /\ p \in Seqs(Bytes) /\ b \in Seqs(Bytes) /\ Selects(p, c, b, n)
    /\ o = Opcode(b, n) /\ m = ByteAt(b, n + o + 1) /\ key = KeyOf(b, n)
    /\ m \div 64 = 0 /\ m % 8 = 5 /\ key # 144 /\ ~HighByte(b, n, m)
    /\ Size(b) = n + o + 5 + ImmSize(b, n, m) /\ Size(p) = c + o + 5 + ImmSize(b, n, m)
    /\ \A k \in 1 .. o + 5 + ImmSize(b, n, m) : ByteAt(p, c + k) = ByteAt(b, n + k)

LEMMA PreparedFacts ==
    ASSUME NEW p, NEW c, NEW b, NEW n, NEW o, NEW m, NEW key, Prepared(p, c, b, n, o, m, key)
    PROVE  /\ c \in Nat /\ n \in Nat /\ o \in {1, 2} /\ m \in Bytes
           /\ ImmSize(b, n, m) \in {0, 1, 2, 4}
<1>1. p \in Seqs(Bytes) /\ b \in Seqs(Bytes) /\ Heading(p, c) /\ Heading(b, n) /\ o = Opcode(b, n)
  BY DEF Prepared, Selects
<1>2. c \in Nat /\ n \in Nat /\ o \in {1, 2}
  BY <1>1, PartsAre
<1>3. m \in Bytes
  <2>1. n + o + 1 \in Nat \ {0} /\ m = ByteAt(b, n + o + 1)
    BY <1>2 DEF Prepared
  <2> QED
    BY <1>1, <2>1, ByteFacts
<1>4. ImmSize(b, n, m) \in {0, 1, 2, 4}
  BY <1>3, SizesAre
<1> QED
  BY <1>2, <1>3, <1>4

(* A byte replaced and the end cut off                                     *)
Cut(p, i, x, z) == Part([p EXCEPT ![i] = x], 1, z)

LEMMA CutReplaced ==
    ASSUME NEW p \in Seqs(Bytes), NEW i \in 1 .. Size(p), NEW x \in Bytes, NEW z \in i .. Size(p)
    PROVE  /\ Cut(p, i, x, z) \in Seqs(Bytes) /\ Size(Cut(p, i, x, z)) = z
           /\ \A k \in 1 .. z : ByteAt(Cut(p, i, x, z), k) = IF k = i THEN x ELSE ByteAt(p, k)
<1> DEFINE q == [p EXCEPT ![i] = x]
           t == Part(q, 1, z)
<1>1. /\ q \in Seqs(Bytes) /\ Size(q) = Size(p)
      /\ \A k \in 1 .. Size(p) : ByteAt(q, k) = IF k = i THEN x ELSE ByteAt(p, k)
  BY ReplaceByte
<1> HIDE DEF q
<1>2. Size(p) \in Nat
  BY SizeFacts
<1>3. z \in 0 .. Size(q)
  BY <1>1, <1>2
<1>4. t \in Seqs(Bytes) /\ Size(t) = z /\ \A k \in 1 .. z : ByteAt(t, k) = ByteAt(q, k)
  BY <1>1, <1>3, CutBytes
<1> HIDE DEF t
<1>5. \A k \in 1 .. z : k \in 1 .. Size(p)
  BY <1>2
<1>6. \A k \in 1 .. z : ByteAt(t, k) = IF k = i THEN x ELSE ByteAt(p, k)
  BY <1>1, <1>4, <1>5
<1> QED
  BY <1>4, <1>6 DEF t, q, Cut

(* The displacement and the immediate, where t has d bytes of four         *)
DispAt(t, u, d) == SignExtend(Field(t, u + 1, d))

ImmAt(t, u, d, z) == Field(t, u + 1 + d, z)

SameBytes(b, t, u, v, d, z) ==
    /\ u \in Nat /\ v \in Nat /\ d \in {0, 1, 4} /\ z \in {0, 1, 2, 4}
    /\ \A k \in 1 .. d + z : ByteAt(t, u + k) = ByteAt(b, v + k)
    /\ \A k \in 1 .. 4 : ByteAt(b, v + k) \in Bytes
    /\ d = 4 \/ z = 0
    /\ \A k \in 1 .. 4 : k > d => ByteAt(b, v + k) = 0
    /\ d = 1 => ByteAt(b, v + 1) < 128

LEMMA SameTail ==
    ASSUME NEW b, NEW t, NEW u, NEW v, NEW d, NEW z, SameBytes(b, t, u, v, d, z)
    PROVE  DispAt(t, u, d) = DispAt(b, v, 4) /\ ImmAt(t, u, d, z) = ImmAt(b, v, 4, z)
<1>1. /\ u \in Nat /\ v \in Nat /\ d \in {0, 1, 4} /\ z \in {0, 1, 2, 4}
      /\ \A k \in 1 .. d + z : ByteAt(t, u + k) = ByteAt(b, v + k)
      /\ \A k \in 1 .. 4 : ByteAt(b, v + k) \in Bytes
      /\ d = 4 \/ z = 0
      /\ \A k \in 1 .. 4 : k > d => ByteAt(b, v + k) = 0
      /\ d = 1 => ByteAt(b, v + 1) < 128
  BY DEF SameBytes
<1>2. \A k \in 1 .. d : ByteAt(t, u + k) = ByteAt(b, v + k)
  BY <1>1
<1>3. SignExtend(Field(t, u + 1, d)) = SignExtend(Field(b, v + 1, 4))
  BY <1>2, <1>1, SameDisp
<1>4. Field(t, u + 1 + d, z) = Field(b, v + 5, z)
  <2>1. CASE z = 0
    BY <2>1 DEF Field
  <2>2. CASE z # 0
    <3>1. d = 4
      BY <1>1, <2>2
    <3>2. ASSUME NEW k \in 1 .. z PROVE ByteAt(t, (u + 4) + k) = ByteAt(b, (v + 4) + k)
      <4>1. 4 + k \in 1 .. d + z /\ (u + 4) + k = u + (4 + k) /\ (v + 4) + k = v + (4 + k)
        BY <1>1, <3>1
      <4> QED
        BY <1>1, <4>1
    <3>3. \A k \in 1 .. z : ByteAt(t, (u + 4) + k) = ByteAt(b, (v + 4) + k)
      BY <3>2
    <3> DEFINE u4 == u + 4
               v4 == v + 4
    <3>4. /\ u4 \in Int /\ v4 \in Int /\ z \in Nat /\ u + 1 + d = u4 + 1 /\ v + 5 = v4 + 1
          /\ \A k \in 1 .. z : ByteAt(t, u4 + k) = ByteAt(b, v4 + k)
      BY <1>1, <3>1, <3>3
    <3> HIDE DEF u4, v4
    <3>5. Field(t, u4 + 1, z) = Field(b, v4 + 1, z)
      BY <3>4, SameField
    <3> QED
      BY <3>4, <3>5
  <2> QED
    BY <1>1, <2>1, <2>2
<1>5. v + 1 + 4 = v + 5
  BY <1>1
<1> QED
  BY <1>3, <1>4, <1>5 DEF DispAt, ImmAt

(***************************************************************************)
(* The ModRM byte replaced and the end cut off, p respells b: with no      *)
(* displacement where b's is 0, with one byte where the others are those   *)
(* of its sign, or with all of it.                                         *)
(***************************************************************************)
LEMMA Displaced ==
    ASSUME NEW p, NEW c, NEW b, NEW n, NEW o, NEW m, NEW key, Prepared(p, c, b, n, o, m, key),
           NEW x \in {NoDisp(m), ShortDisp(m), LongDisp(m)},
           DispSize(x) = 4 \/ ImmSize(b, n, m) = 0,
           \A k \in 1 .. 4 : k > DispSize(x) => ByteAt(b, (n + o + 1) + k) = 0,
           DispSize(x) = 1 => ByteAt(b, (n + o + 1) + 1) < 128
    PROVE  Respells(Cut(p, c + o + 1, x, c + o + 1 + DispSize(x) + ImmSize(b, n, m)), b)
<1> DEFINE i == ImmSize(b, n, m)
           D == DispSize(x)
           u == c + o + 1
           v == n + o + 1
           z == c + o + 1 + D + i
           t == Cut(p, u, x, z)
<1>1. c \in Nat /\ n \in Nat /\ o \in {1, 2} /\ m \in Bytes /\ i \in {0, 1, 2, 4}
  BY PreparedFacts
<1>2. p \in Seqs(Bytes) /\ b \in Seqs(Bytes) /\ Selects(p, c, b, n)
  BY DEF Prepared
<1>3. /\ o = Opcode(b, n) /\ m = ByteAt(b, n + o + 1) /\ key = KeyOf(b, n)
      /\ m \div 64 = 0 /\ m % 8 = 5 /\ key # 144 /\ ~HighByte(b, n, m)
  BY DEF Prepared
<1>4. Size(p) = c + o + 5 + i
  BY DEF Prepared
<1>5. \A k \in 1 .. o + 5 + i : ByteAt(p, c + k) = ByteAt(b, n + k)
  BY DEF Prepared
<1>6. x \in Bytes /\ D \in {0, 1, 4}
  BY <1>1, <1>3, ModRMFacts
<1> HIDE DEF i, D
<1>7. z \in u .. Size(p) /\ u \in 1 .. Size(p) /\ u \in Nat /\ v \in Nat /\ z = u + (D + i)
  BY <1>1, <1>4, <1>6
<1> HIDE DEF z
<1>8. t \in Seqs(Bytes) /\ Size(t) = z /\ \A k \in 1 .. z : ByteAt(t, k) = IF k = u THEN x ELSE ByteAt(p, k)
  <2> HIDE DEF u
  <2>1. p \in Seqs(Bytes) /\ u \in 1 .. Size(p) /\ x \in Bytes /\ z \in u .. Size(p)
    BY <1>2, <1>6, <1>7
  <2> QED
    BY <2>1, CutReplaced
<1> HIDE DEF t
<1>9. Selects(t, c, b, n)
  <2>1. c + o \in Nat /\ c < c + o /\ c + o <= Size(t)
    BY <1>1, <1>7, <1>8
  <2>2. \A k \in 1 .. c + o : k \in 1 .. z /\ k # u
    BY <1>1, <1>7
  <2>3. \A k \in 1 .. c + o : ByteAt(t, k) = ByteAt(p, k)
    BY <1>8, <2>2
  <2> QED
    BY <1>2, <1>8, <2>1, <2>3, SelectsStart
<1>10. \A k \in 1 .. o : ByteAt(t, c + k) = ByteAt(b, n + k)
  <2> SUFFICES ASSUME NEW k \in 1 .. o PROVE ByteAt(t, c + k) = ByteAt(b, n + k)
    OBVIOUS
  <2>1. c + k \in 1 .. z /\ c + k # u /\ k \in 1 .. o + 5 + i
    BY <1>1, <1>7
  <2> QED
    BY <1>5, <1>8, <2>1
<1>11. ByteAt(t, u) = x
  <2>1. u \in 1 .. z
    BY <1>7
  <2> HIDE DEF u
  <2> QED
    BY <1>8, <2>1
<1>12. ASSUME NEW k \in 1 .. D + i PROVE ByteAt(t, u + k) = ByteAt(b, v + k)
  <2>1. u + k \in 1 .. z /\ u + k # u
    BY <1>1, <1>6, <1>7
  <2>2. o + 1 + k \in 1 .. o + 5 + i
    BY <1>1, <1>6
  <2>3. c + (o + 1 + k) = u + k /\ n + (o + 1 + k) = v + k
    BY <1>1, <1>6
  <2>4. ByteAt(p, c + (o + 1 + k)) = ByteAt(b, n + (o + 1 + k))
    BY <1>5, <2>2
  <2>5. ByteAt(t, u + k) = ByteAt(p, u + k)
    BY <1>8, <2>1
  <2> QED
    BY <2>3, <2>4, <2>5
<1>13. DispAt(t, u, D) = DispAt(b, v, 4) /\ ImmAt(t, u, D, i) = ImmAt(b, v, 4, i)
  <2>1. \A k \in 1 .. D + i : ByteAt(t, u + k) = ByteAt(b, v + k)
    BY <1>12
  <2>2. D = 4 \/ i = 0
    BY DEF D, i
  <2>3. \A k \in 1 .. 4 : k > D => ByteAt(b, v + k) = 0
    BY DEF D
  <2>4. D = 1 => ByteAt(b, v + 1) < 128
    BY DEF D
  <2> HIDE DEF u, v
  <2>5. \A k \in 1 .. 4 : v + k \in Nat \ {0}
    BY <1>7
  <2>6. \A k \in 1 .. 4 : ByteAt(b, v + k) \in Bytes
    BY <1>2, <2>5, ByteFacts
  <2>7. u \in Nat /\ v \in Nat /\ D \in {0, 1, 4} /\ i \in {0, 1, 2, 4}
    BY <1>1, <1>6, <1>7
  <2>8. SameBytes(b, t, u, v, D, i)
    BY <2>1, <2>2, <2>3, <2>4, <2>6, <2>7 DEF SameBytes
  <2> QED
    BY <2>8, SameTail
<1>14. /\ c + o + 2 = u + 1 /\ n + o + 2 = v + 1
       /\ c + o + 2 + D = u + 1 + D /\ n + o + 6 = v + 1 + 4
  BY <1>1, <1>6
<1>15. /\ Size(t) = c + o + 1 + D + i
       /\ SignExtend(Field(t, c + o + 2, D)) = SignExtend(Field(b, n + o + 2, 4))
       /\ Field(t, c + o + 2 + D, i) = Field(b, n + o + 6, i)
       /\ x = ByteAt(t, c + o + 1)
  BY <1>8, <1>11, <1>13, <1>14 DEF z, DispAt, ImmAt
<1>16. Respells(t, b)
  <2>1. /\ Size(t) = c + o + 1 + DispSize(x) + ImmSize(b, n, m)
        /\ SignExtend(Field(t, c + o + 2, DispSize(x))) = SignExtend(Field(b, n + o + 2, 4))
        /\ Field(t, c + o + 2 + DispSize(x), ImmSize(b, n, m)) = Field(b, n + o + 6, ImmSize(b, n, m))
    BY <1>15 DEF D, i
  <2>2. t \in Seqs(Bytes)
    BY <1>8
  <2> QED
    BY <1>2, <1>3, <1>9, <1>10, <1>15, <2>1, <2>2, Spelling
<1> QED
  BY <1>16 DEF t, z, D, i

(* Shorten, for an instruction without an immediate                        *)
LEMMA Shortens ==
    ASSUME NEW p, NEW c, NEW b, NEW n, NEW o, NEW m, NEW key, Prepared(p, c, b, n, o, m, key),
           ImmSize(b, n, m) = 0,
           (\A k \in 2 .. 4 : ByteAt(b, (n + o + 1) + k) = 0) => ByteAt(b, (n + o + 1) + 1) < 128
    PROVE  Respells(Shorten(p, c + o + 1, c + o + 2), b)
<1> DEFINE u == c + o + 1
           v == n + o + 1
           f == u + 1
<1>1. c \in Nat /\ n \in Nat /\ o \in {1, 2} /\ m \in Bytes
  BY PreparedFacts
<1>2. p \in Seqs(Bytes) /\ Size(p) = u + 4 /\ m \div 64 = 0 /\ m % 8 = 5 /\ m = ByteAt(b, v)
  <2>1. Size(p) = c + o + 5 + 0
    BY DEF Prepared
  <2>2. c + o + 5 + 0 = u + 4
    BY <1>1
  <2> QED
    BY <2>1, <2>2 DEF Prepared
<1>3. \A k \in 0 .. 4 : ByteAt(p, u + k) = ByteAt(b, v + k)
  <2> SUFFICES ASSUME NEW k \in 0 .. 4 PROVE ByteAt(p, u + k) = ByteAt(b, v + k)
    OBVIOUS
  <2>1. o + 1 + k \in 1 .. o + 5 + ImmSize(b, n, m)
    BY <1>1
  <2>2. c + (o + 1 + k) = u + k /\ n + (o + 1 + k) = v + k
    BY <1>1
  <2>3. ByteAt(p, c + (o + 1 + k)) = ByteAt(b, n + (o + 1 + k))
    BY <2>1 DEF Prepared
  <2> QED
    BY <2>2, <2>3
<1>4. \A k \in 0 .. 4 : p[u + k] = ByteAt(b, v + k)
  <2> SUFFICES ASSUME NEW k \in 0 .. 4 PROVE p[u + k] = ByteAt(b, v + k)
    OBVIOUS
  <2>1. u + k \in Nat \ {0} /\ u + k <= Size(p)
    BY <1>1, <1>2
  <2>2. ByteAt(p, u + k) = At(p, u + k)
    BY <1>2, <2>1, ByteFacts
  <2> QED
    BY <1>3, <2>2 DEF At
<1>5. p[u] = m
  <2>1. u + 0 = u /\ v + 0 = v
    BY <1>1
  <2>2. p[u + 0] = ByteAt(b, v + 0)
    BY <1>4
  <2> QED
    BY <1>2, <2>1, <2>2
<1>6. /\ DispSize(NoDisp(m)) = 0 /\ DispSize(ShortDisp(m)) = 1 /\ DispSize(LongDisp(m)) = 4
  BY <1>1, <1>2, ModRMFacts
<1>7. /\ f - 1 = c + o + 1 + 0 + 0 /\ f = c + o + 1 + 1 + 0 /\ f + 3 = c + o + 1 + 4 + 0
      /\ f = c + o + 2
  BY <1>1
<1>8. (\A j \in f .. f + 3 : p[j] = 0) => \A k \in 1 .. 4 : ByteAt(b, v + k) = 0
  <2> SUFFICES ASSUME \A j \in f .. f + 3 : p[j] = 0, NEW k \in 1 .. 4 PROVE ByteAt(b, v + k) = 0
    OBVIOUS
  <2>1. u + k \in f .. f + 3 /\ k \in 0 .. 4
    BY <1>1
  <2> QED
    BY <1>4, <2>1
<1>9. (\A j \in f + 1 .. f + 3 : p[j] = 0) => \A k \in 2 .. 4 : ByteAt(b, v + k) = 0
  <2> SUFFICES ASSUME \A j \in f + 1 .. f + 3 : p[j] = 0, NEW k \in 2 .. 4 PROVE ByteAt(b, v + k) = 0
    OBVIOUS
  <2>1. u + k \in f + 1 .. f + 3 /\ k \in 0 .. 4
    BY <1>1
  <2> QED
    BY <1>4, <2>1
<1>10. Shorten(p, u, f) =
         IF \A j \in f .. f + 3 : p[j] = 0 THEN Cut(p, u, NoDisp(m), f - 1)
         ELSE IF \A j \in f + 1 .. f + 3 : p[j] = 0 THEN Cut(p, u, ShortDisp(m), f)
         ELSE Cut(p, u, LongDisp(m), f + 3)
  <2> HIDE DEF u, f
  <2> QED
    BY <1>5 DEF Shorten, Cut, Part
<1>11. CASE \A j \in f .. f + 3 : p[j] = 0
  <2>1. \A k \in 1 .. 4 : k > DispSize(NoDisp(m)) => ByteAt(b, (n + o + 1) + k) = 0
    BY <1>8, <1>11
  <2>2. DispSize(NoDisp(m)) = 1 => ByteAt(b, (n + o + 1) + 1) < 128
    BY <1>6
  <2>3. Respells(Cut(p, c + o + 1, NoDisp(m), c + o + 1 + DispSize(NoDisp(m)) + ImmSize(b, n, m)), b)
    BY <2>1, <2>2, Displaced
  <2>4. Shorten(p, u, f) = Cut(p, u, NoDisp(m), f - 1)
    BY <1>10, <1>11
  <2> QED
    BY <1>6, <1>7, <2>3, <2>4
<1>12. CASE ~(\A j \in f .. f + 3 : p[j] = 0) /\ \A j \in f + 1 .. f + 3 : p[j] = 0
  <2>1. \A k \in 1 .. 4 : k > DispSize(ShortDisp(m)) => ByteAt(b, (n + o + 1) + k) = 0
    BY <1>6, <1>9, <1>12
  <2>2. DispSize(ShortDisp(m)) = 1 => ByteAt(b, (n + o + 1) + 1) < 128
    BY <1>9, <1>12
  <2>3. Respells(Cut(p, c + o + 1, ShortDisp(m), c + o + 1 + DispSize(ShortDisp(m)) + ImmSize(b, n, m)), b)
    BY <2>1, <2>2, Displaced
  <2>4. Shorten(p, u, f) = Cut(p, u, ShortDisp(m), f)
    BY <1>10, <1>12
  <2> QED
    BY <1>6, <1>7, <2>3, <2>4
<1>13. CASE ~(\A j \in f .. f + 3 : p[j] = 0) /\ ~(\A j \in f + 1 .. f + 3 : p[j] = 0)
  <2>1. \A k \in 1 .. 4 : k > DispSize(LongDisp(m)) => ByteAt(b, (n + o + 1) + k) = 0
    BY <1>6
  <2>2. DispSize(LongDisp(m)) = 1 => ByteAt(b, (n + o + 1) + 1) < 128
    BY <1>6
  <2>3. Respells(Cut(p, c + o + 1, LongDisp(m), c + o + 1 + DispSize(LongDisp(m)) + ImmSize(b, n, m)), b)
    BY <2>1, <2>2, Displaced
  <2>4. Shorten(p, u, f) = Cut(p, u, LongDisp(m), f + 3)
    BY <1>10, <1>13
  <2> QED
    BY <1>6, <1>7, <2>3, <2>4
<1> QED
  BY <1>11, <1>12, <1>13

(* All of the displacement stays, and so does what follows it.             *)
LEMMA Lengthens ==
    ASSUME NEW p, NEW c, NEW b, NEW n, NEW o, NEW m, NEW key, Prepared(p, c, b, n, o, m, key)
    PROVE  /\ Respells([p EXCEPT ![c + o + 1] = LongDisp(m)], b)
           /\ Respells(Cut(p, c + o + 1, LongDisp(m), Size(p)), b)
           /\ p[c + o + 1] = m
<1> DEFINE u == c + o + 1
           q == [p EXCEPT ![u] = LongDisp(m)]
<1>1. c \in Nat /\ n \in Nat /\ o \in {1, 2} /\ m \in Bytes /\ ImmSize(b, n, m) \in {0, 1, 2, 4}
  BY PreparedFacts
<1>2. /\ p \in Seqs(Bytes) /\ Size(p) = c + o + 5 + ImmSize(b, n, m)
      /\ m \div 64 = 0 /\ m % 8 = 5 /\ m = ByteAt(b, n + o + 1)
  BY DEF Prepared
<1>3. LongDisp(m) \in Bytes /\ DispSize(LongDisp(m)) = 4
  BY <1>1, <1>2, ModRMFacts
<1>4. u \in 1 .. Size(p) /\ u \in Nat \ {0} /\ u <= Size(p) /\ Size(p) \in Nat
  BY <1>1, <1>2
<1>5. Respells(Cut(p, u, LongDisp(m), Size(p)), b)
  <2>1. \A k \in 1 .. 4 : k > DispSize(LongDisp(m)) => ByteAt(b, (n + o + 1) + k) = 0
    BY <1>3
  <2>2. DispSize(LongDisp(m)) = 1 => ByteAt(b, (n + o + 1) + 1) < 128
    BY <1>3
  <2>3. Respells(Cut(p, c + o + 1, LongDisp(m), c + o + 1 + DispSize(LongDisp(m)) + ImmSize(b, n, m)), b)
    BY <1>3, <2>1, <2>2, Displaced
  <2>4. c + o + 1 + DispSize(LongDisp(m)) + ImmSize(b, n, m) = Size(p)
    BY <1>1, <1>2, <1>3
  <2> QED
    BY <2>3, <2>4
<1>6. Cut(p, u, LongDisp(m), Size(p)) = q
  <2> HIDE DEF u
  <2>1. q \in Seqs(Bytes) /\ Size(q) = Size(p)
    BY <1>2, <1>3, <1>4, ReplaceByte
  <2>2. Cut(p, u, LongDisp(m), Size(p)) = Part(q, 1, Size(q))
    BY <2>1 DEF Cut
  <2> HIDE DEF q
  <2>3. Size(q) \in 0 .. Size(q)
    BY <1>4, <2>1
  <2>4. /\ Part(q, 1, Size(q)) \in Seqs(Bytes) /\ Size(Part(q, 1, Size(q))) = Size(q)
        /\ \A k \in 1 .. Size(q) : At(Part(q, 1, Size(q)), k) = At(q, k)
    BY <2>1, <2>3, PrefixFacts
  <2>5. Part(q, 1, Size(q)) = q
    BY <2>1, <2>4, SameSeq
  <2> QED
    BY <2>2, <2>5
<1>7. p[u] = m
  <2>1. ByteAt(p, u) = At(p, u)
    BY <1>2, <1>4, ByteFacts
  <2>2. o + 1 \in 1 .. o + 5 + ImmSize(b, n, m) /\ c + (o + 1) = u /\ n + (o + 1) = n + o + 1
    BY <1>1
  <2>3. ByteAt(p, c + (o + 1)) = ByteAt(b, n + (o + 1))
    BY <2>2 DEF Prepared
  <2> QED
    BY <1>2, <2>1, <2>2, <2>3 DEF At
<1> QED
  BY <1>5, <1>6, <1>7

-----------------------------------------------------------------------------
(* The prefixes                                                            *)

(* b is relative to rip; n, o, m and key are as in Prepared.               *)
Relative(b, n, o, m, key) ==
    /\ b \in Seqs(Bytes) /\ Heading(b, n)
    /\ o = Opcode(b, n) /\ m = ByteAt(b, n + o + 1) /\ key = KeyOf(b, n)
    /\ m \div 64 = 0 /\ m % 8 = 5 /\ key # 144 /\ ~HighByte(b, n, m)
    /\ Size(b) = n + o + 5 + ImmSize(b, n, m)

LEMMA RelativeFacts ==
    ASSUME NEW b, NEW n, NEW o, NEW m, NEW key, Relative(b, n, o, m, key)
    PROVE  n \in Nat /\ o \in {1, 2} /\ m \in Bytes /\ ImmSize(b, n, m) \in {0, 1, 2, 4}
<1>1. b \in Seqs(Bytes) /\ Heading(b, n) /\ o = Opcode(b, n)
  BY DEF Relative
<1>2. n \in Nat /\ o \in {1, 2}
  BY <1>1, PartsAre
<1>3. m \in Bytes
  <2>1. n + o + 1 \in Nat \ {0} /\ m = ByteAt(b, n + o + 1)
    BY <1>2 DEF Relative
  <2> QED
    BY <1>1, <2>1, ByteFacts
<1> QED
  BY <1>2, <1>3, SizesAre

(* What is left to show of a sequence that has b after other prefixes      *)
LEMMA Prepares ==
    ASSUME NEW b, NEW n, NEW o, NEW m, NEW key, Relative(b, n, o, m, key),
           NEW p \in Seqs(Bytes), NEW c \in Nat, Size(p) = c + (Size(b) - n),
           \A j \in 1 .. c : ByteAt(p, j) \in Prefix \cup Rex,
           \A k \in 1 .. Size(b) - n : ByteAt(p, c + k) = ByteAt(b, n + k),
           Marks(p, c) = Marks(b, n), RexOf(p, c) % 2 = 1, RexOf(p, c) \div 8 = RexOf(b, n) \div 8,
           (RexOf(p, c) \div 4) % 2 = (RexOf(b, n) \div 4) % 2
    PROVE  Prepared(p, c, b, n, o, m, key)
<1>1. n \in Nat /\ o \in {1, 2} /\ m \in Bytes /\ ImmSize(b, n, m) \in {0, 1, 2, 4}
  BY RelativeFacts
<1>2. Size(b) = n + o + 5 + ImmSize(b, n, m) /\ b \in Seqs(Bytes) /\ Heading(b, n)
  BY DEF Relative
<1>3. Size(b) - n = o + 5 + ImmSize(b, n, m) /\ Size(p) = c + o + 5 + ImmSize(b, n, m)
  BY <1>1, <1>2
<1>4. Heading(p, c)
  <2>1. 1 \in 1 .. Size(b) - n /\ c \in 0 .. Size(p)
    BY <1>1, <1>3
  <2>2. ByteAt(p, c + 1) = ByteAt(b, n + 1)
    BY <2>1
  <2> QED
    BY <1>2, <2>1, <2>2 DEF Heading
<1>5. Selects(p, c, b, n)
  BY <1>2, <1>4 DEF Selects
<1>6. \A k \in 1 .. o + 5 + ImmSize(b, n, m) : ByteAt(p, c + k) = ByteAt(b, n + k)
  BY <1>3
<1>7. /\ o = Opcode(b, n) /\ m = ByteAt(b, n + o + 1) /\ key = KeyOf(b, n)
      /\ m \div 64 = 0 /\ m % 8 = 5 /\ key # 144 /\ ~HighByte(b, n, m)
  BY DEF Relative
<1> QED
  BY <1>2, <1>3, <1>5, <1>6, <1>7 DEF Prepared

(* The bytes of a sequence behind another                                  *)
LEMMA JoinBytes ==
    ASSUME NEW h \in Seqs(Bytes), NEW t \in Seqs(Bytes)
    PROVE  /\ Join(h, t) \in Seqs(Bytes) /\ Size(Join(h, t)) = Size(h) + Size(t)
           /\ \A k \in 1 .. Size(h) : ByteAt(Join(h, t), k) = At(h, k)
           /\ \A k \in 1 .. Size(t) : ByteAt(Join(h, t), Size(h) + k) = ByteAt(t, k)
<1> DEFINE s == Join(h, t)
<1>1. /\ s \in Seqs(Bytes) /\ Size(s) = Size(h) + Size(t)
      /\ \A k \in 1 .. Size(h) : At(s, k) = At(h, k)
      /\ \A k \in 1 .. Size(t) : At(s, Size(h) + k) = At(t, k)
  BY JoinFacts
<1>2. Size(h) \in Nat /\ Size(t) \in Nat
  BY SizeFacts
<1> HIDE DEF s
<1>3. ASSUME NEW k \in 1 .. Size(h) PROVE ByteAt(s, k) = At(h, k)
  <2>1. k \in Nat \ {0} /\ k <= Size(s)
    BY <1>1, <1>2
  <2>2. ByteAt(s, k) = At(s, k)
    BY <1>1, <2>1, ByteFacts
  <2> QED
    BY <1>1, <2>2
<1>4. ASSUME NEW k \in 1 .. Size(t) PROVE ByteAt(s, Size(h) + k) = ByteAt(t, k)
  <2> DEFINE i == Size(h) + k
  <2>1. k \in Nat \ {0} /\ k <= Size(t) /\ i \in Nat \ {0} /\ i <= Size(s)
    BY <1>1, <1>2
  <2>2. At(s, i) = At(t, k)
    BY <1>1
  <2> HIDE DEF i
  <2>3. ByteAt(s, i) = At(s, i)
    BY <1>1, <2>1, ByteFacts
  <2>4. ByteAt(t, k) = At(t, k)
    BY <2>1, ByteFacts
  <2> QED
    BY <2>2, <2>3, <2>4 DEF i
<1> QED
  BY <1>1, <1>3, <1>4 DEF s

(* REX in front of an instruction without prefixes                         *)
LEMMA PrependsRex ==
    ASSUME NEW b, NEW o, NEW m, NEW key, Relative(b, 0, o, m, key)
    PROVE  Prepared(<<65>> \o b, 1, b, 0, o, m, key) /\ Size(<<65>> \o b) = Size(b) + 1
<1> DEFINE h == <<65>>
           p == Join(h, b)
<1>1. h \in Seqs(Bytes) /\ Size(h) = 1 /\ At(h, 1) = 65
  <2>1. <<65>> \in Seq(Bytes) /\ Len(<<65>>) = 1 /\ <<65>>[1] = 65
    BY DEF Bytes
  <2> QED
    BY <2>1 DEF Seqs, Size, At
<1>2. b \in Seqs(Bytes) /\ Size(b) \in Nat
  BY SizeFacts DEF Relative
<1> HIDE DEF h
<1>3. /\ p \in Seqs(Bytes) /\ Size(p) = 1 + Size(b)
      /\ \A k \in 1 .. 1 : ByteAt(p, k) = At(h, k)
      /\ \A k \in 1 .. Size(b) : ByteAt(p, 1 + k) = ByteAt(b, k)
  <2>1. /\ p \in Seqs(Bytes) /\ Size(p) = Size(h) + Size(b)
        /\ \A k \in 1 .. Size(h) : ByteAt(p, k) = At(h, k)
        /\ \A k \in 1 .. Size(b) : ByteAt(p, Size(h) + k) = ByteAt(b, k)
    BY <1>1, <1>2, JoinBytes
  <2> HIDE DEF p
  <2> QED
    BY <1>1, <2>1
<1> HIDE DEF p
<1>4. ByteAt(p, 1) = 65
  BY <1>1, <1>3
<1>5. RexOf(p, 1) = 1 /\ RexOf(b, 0) = 0
  BY <1>4 DEF RexOf, Rex
<1>6. Marks(p, 1) = {} /\ Marks(b, 0) = {}
  <2>1. \A j \in 1 .. 1 : ByteAt(p, j) = 65
    BY <1>4
  <2>2. 65 \notin Prefix
    BY DEF Prefix
  <2> QED
    BY <2>1, <2>2 DEF Marks
<1>7. \A j \in 1 .. 1 : ByteAt(p, j) \in Prefix \cup Rex
  BY <1>4 DEF Rex
<1>8. /\ \A k \in 1 .. Size(b) - 0 : ByteAt(p, 1 + k) = ByteAt(b, 0 + k)
      /\ Size(p) = 1 + (Size(b) - 0)
  <2>1. \A k \in 1 .. Size(b) : 0 + k = k
    OBVIOUS
  <2> QED
    BY <1>2, <1>3, <2>1
<1>9. Prepared(p, 1, b, 0, o, m, key)
  <2>1. /\ RexOf(p, 1) % 2 = 1 /\ RexOf(p, 1) \div 8 = RexOf(b, 0) \div 8
        /\ (RexOf(p, 1) \div 4) % 2 = (RexOf(b, 0) \div 4) % 2
    BY <1>5
  <2>3. Marks(p, 1) = Marks(b, 0)
    BY <1>6
  <2>2. p \in Seqs(Bytes) /\ 1 \in Nat
    BY <1>3
  <2> QED
    BY <1>7, <1>8, <2>1, <2>2, <2>3, Prepares
<1> QED
  BY <1>2, <1>3, <1>9 DEF p, h, Join

(* REX between the only prefix and the opcode                              *)
LEMMA InsertsRex ==
    ASSUME NEW b, NEW o, NEW m, NEW key, Relative(b, 1, o, m, key), RexOf(b, 1) = 0
    PROVE  Prepared(WithRex(b), 2, b, 1, o, m, key) /\ Size(WithRex(b)) = Size(b) + 1
<1> DEFINE h == <<b[1], 65>>
           r == Part(b, 1 + 1, Size(b))
           p == Join(h, r)
<1>1. PICK l \in Nat : l = Size(b) /\ l >= 1
  <2>1. 1 \in Nat /\ Size(b) \in Nat /\ Size(b) = 1 + o + 5 + ImmSize(b, 1, m)
    BY SizeFacts DEF Relative
  <2> QED
    BY <2>1, RelativeFacts
<1>2. b \in Seqs(Bytes) /\ Heading(b, 1)
  BY DEF Relative
<1>3. b[1] \in Bytes /\ ByteAt(b, 1) = b[1]
  <2>1. 1 \in 1 .. Size(b) /\ 1 \in Nat \ {0} /\ 1 <= Size(b)
    BY <1>1
  <2>2. At(b, 1) \in Bytes /\ ByteAt(b, 1) = At(b, 1)
    BY <1>2, <2>1, AtFacts, ByteFacts
  <2> QED
    BY <2>2 DEF At
<1>4. h \in Seqs(Bytes) /\ Size(h) = 2 /\ At(h, 1) = b[1] /\ At(h, 2) = 65
  <2>1. PICK x \in Bytes : x = b[1]
    BY <1>3
  <2>2. <<x, 65>> \in Seq(Bytes) /\ Len(<<x, 65>>) = 2 /\ <<x, 65>>[1] = x /\ <<x, 65>>[2] = 65
    BY DEF Bytes
  <2> QED
    BY <2>1, <2>2 DEF Seqs, Size, At
<1> HIDE DEF h
<1>5. r \in Seqs(Bytes) /\ Size(r) = l - 1 /\ \A k \in 1 .. l - 1 : At(r, k) = At(b, 1 + k)
  <2>1. 1 \in 0 .. Size(b)
    BY <1>1
  <2>2. r \in Seqs(Bytes) /\ Size(r) = Size(b) - 1 /\ \A k \in 1 .. Size(b) - 1 : At(r, k) = At(b, 1 + k)
    BY <1>2, <2>1, SuffixFacts
  <2> QED
    BY <1>1, <2>2
<1> HIDE DEF r
<1>6. ASSUME NEW k \in 1 .. l - 1 PROVE ByteAt(r, k) = ByteAt(b, 1 + k)
  <2> DEFINE i == 1 + k
  <2>1. k \in Nat \ {0} /\ k <= Size(r) /\ i \in Nat \ {0} /\ i <= Size(b)
    BY <1>1, <1>5
  <2>2. At(r, k) = At(b, i)
    BY <1>5
  <2> HIDE DEF i
  <2>3. ByteAt(r, k) = At(r, k)
    BY <1>5, <2>1, ByteFacts
  <2>4. ByteAt(b, i) = At(b, i)
    BY <1>2, <2>1, ByteFacts
  <2> QED
    BY <2>2, <2>3, <2>4 DEF i
<1>7. /\ p \in Seqs(Bytes) /\ Size(p) = 2 + (l - 1)
      /\ \A k \in 1 .. 2 : ByteAt(p, k) = At(h, k)
      /\ \A k \in 1 .. l - 1 : ByteAt(p, 2 + k) = ByteAt(r, k)
  <2>1. /\ p \in Seqs(Bytes) /\ Size(p) = Size(h) + Size(r)
        /\ \A k \in 1 .. Size(h) : ByteAt(p, k) = At(h, k)
        /\ \A k \in 1 .. Size(r) : ByteAt(p, Size(h) + k) = ByteAt(r, k)
    BY <1>4, <1>5, JoinBytes
  <2> HIDE DEF p
  <2> QED
    BY <1>4, <1>5, <2>1
<1>8. WithRex(b) = p
  BY DEF WithRex, p, h, r, Join, Part, Size
<1> HIDE DEF p
<1>9. ByteAt(p, 1) = ByteAt(b, 1) /\ ByteAt(p, 2) = 65
  BY <1>3, <1>4, <1>7
<1>10. ByteAt(b, 1) \in Prefix \cup Rex
  BY <1>2 DEF Heading
<1>11. RexOf(p, 2) = 1
  BY <1>9 DEF RexOf, Rex
<1>12. Marks(p, 2) = Marks(b, 1)
  <2>1. Marks(p, 2) = {ByteAt(p, 1), ByteAt(p, 2)} \cap Prefix /\ Marks(b, 1) = {ByteAt(b, 1)} \cap Prefix
    <3>1. 1 .. 2 = {1, 2} /\ 1 .. 1 = {1}
      OBVIOUS
    <3> QED
      BY <3>1 DEF Marks
  <2>2. 65 \notin Prefix
    BY DEF Prefix
  <2> QED
    BY <1>9, <2>1, <2>2
<1>13. \A j \in 1 .. 2 : ByteAt(p, j) \in Prefix \cup Rex
  <2>1. 65 \in Rex /\ \A j \in 1 .. 2 : j = 1 \/ j = 2
    BY DEF Rex
  <2> QED
    BY <1>9, <1>10, <2>1
<1>14. /\ \A k \in 1 .. Size(b) - 1 : ByteAt(p, 2 + k) = ByteAt(b, 1 + k)
       /\ Size(p) = 2 + (Size(b) - 1) /\ Size(p) = Size(b) + 1
  BY <1>1, <1>6, <1>7
<1>15. Prepared(p, 2, b, 1, o, m, key)
  <2>1. /\ RexOf(p, 2) % 2 = 1 /\ RexOf(p, 2) \div 8 = RexOf(b, 1) \div 8
        /\ (RexOf(p, 2) \div 4) % 2 = (RexOf(b, 1) \div 4) % 2
    BY <1>11
  <2>2. p \in Seqs(Bytes) /\ 2 \in Nat
    BY <1>7
  <2> QED
    BY <1>12, <1>13, <1>14, <2>1, <2>2, Prepares
<1> QED
  BY <1>8, <1>14, <1>15

(* The REX that the instruction has                                        *)
LEMMA ExtendsRex ==
    ASSUME NEW b, NEW n, NEW o, NEW m, NEW key, Relative(b, n, o, m, key), n > 0, ByteAt(b, n) \in Rex
    PROVE  /\ Prepared([b EXCEPT ![n] = Or(b[n], 1)], n, b, n, o, m, key)
           /\ Size([b EXCEPT ![n] = Or(b[n], 1)]) = Size(b)
<1> DEFINE x == Or(b[n], 1)
           p == [b EXCEPT ![n] = x]
<1>1. b \in Seqs(Bytes) /\ Heading(b, n) /\ n \in Nat
  BY RelativeFacts DEF Relative
<1>2. n \in 1 .. Size(b) /\ Size(b) \in Nat
  BY <1>1, SizeFacts DEF Heading
<1>3. ByteAt(b, n) = b[n]
  <2>1. n \in Nat \ {0} /\ n <= Size(b)
    BY <1>2
  <2>2. ByteAt(b, n) = At(b, n)
    BY <1>1, <2>1, ByteFacts
  <2> QED
    BY <2>2 DEF At
<1>4. b[n] \in Rex
  BY <1>3
<1>5. /\ x \in Rex /\ (x - 64) % 2 = 1 /\ (x - 64) \div 8 = (b[n] - 64) \div 8
      /\ ((x - 64) \div 4) % 2 = ((b[n] - 64) \div 4) % 2
  BY <1>4, RexBits
<1> HIDE DEF x
<1>6. x \in Bytes
  BY <1>5 DEF Rex, Bytes
<1>7. /\ p \in Seqs(Bytes) /\ Size(p) = Size(b)
      /\ \A k \in 1 .. Size(b) : ByteAt(p, k) = IF k = n THEN x ELSE ByteAt(b, k)
  <2>1. b \in Seqs(Bytes) /\ n \in 1 .. Size(b) /\ x \in Bytes
    BY <1>1, <1>2, <1>6
  <2>2. /\ [b EXCEPT ![n] = x] \in Seqs(Bytes) /\ Size([b EXCEPT ![n] = x]) = Size(b)
        /\ \A k \in 1 .. Size(b) : ByteAt([b EXCEPT ![n] = x], k) = IF k = n THEN x ELSE ByteAt(b, k)
    BY ONLY <2>1, ReplaceByte, Zenon
  <2> QED
    BY <2>2
<1> HIDE DEF p
<1>8. ByteAt(p, n) = x
  BY <1>2, <1>7
<1>9. RexOf(p, n) = x - 64 /\ RexOf(b, n) = b[n] - 64
  BY <1>3, <1>4, <1>5, <1>8 DEF RexOf
<1>10. Marks(p, n) = Marks(b, n)
  <2>1. Prefix \cap Rex = {}
    BY DEF Prefix, Rex
  <2>2. ASSUME NEW j \in 1 .. n
        PROVE  ByteAt(p, j) = ByteAt(b, j) \/ (ByteAt(p, j) \notin Prefix /\ ByteAt(b, j) \notin Prefix)
    <3>1. j \in 1 .. Size(b)
      BY <1>2
    <3> QED
      BY <1>5, <1>7, <1>8, <2>1, <3>1
  <2> QED
    BY <2>2 DEF Marks
<1>11. \A j \in 1 .. n : ByteAt(p, j) \in Prefix \cup Rex
  <2> SUFFICES ASSUME NEW j \in 1 .. n PROVE ByteAt(p, j) \in Prefix \cup Rex
    OBVIOUS
  <2>1. j \in 1 .. Size(b)
    BY <1>2
  <2>2. ByteAt(b, j) \in Prefix \cup Rex
    BY <1>1 DEF Heading
  <2> QED
    BY <1>5, <1>7, <2>1, <2>2
<1>12. \A k \in 1 .. Size(b) - n : ByteAt(p, n + k) = ByteAt(b, n + k)
  <2>1. \A k \in 1 .. Size(b) - n : n + k \in 1 .. Size(b) /\ n + k # n
    BY <1>2
  <2> QED
    BY <1>7, <2>1
<1>13. Prepared(p, n, b, n, o, m, key)
  <2>1. /\ RexOf(p, n) % 2 = 1 /\ RexOf(p, n) \div 8 = RexOf(b, n) \div 8
        /\ (RexOf(p, n) \div 4) % 2 = (RexOf(b, n) \div 4) % 2
    BY <1>5, <1>9
  <2>2. Size(p) = n + (Size(b) - n)
    BY <1>2, <1>7
  <2> QED
    BY <1>1, <1>7, <1>10, <1>11, <1>12, <2>1, <2>2, Prepares
<1> QED
  BY <1>7, <1>13 DEF p, x

-----------------------------------------------------------------------------
(* The instructions of Insns                                               *)

(* What the decoder says of b, in terms of its bytes                       *)
Says(d, b, n, o, m, key) ==
    /\ d.op = Operation(key, (m \div 8) % 8) /\ d.key = key
    /\ d.prefix = Marks(b, n) /\ d.rex = RexOf(b, n)
    /\ d.disp = SignExtend(Field(b, n + o + 2, 4))
    /\ d.imm = Field(b, n + o + 6, ImmSize(b, n, m))

LEMMA InsnBytes ==
    ASSUME NEW b \in Insns
    PROVE  b \in Seqs(Bytes) /\ Size(b) \in 1 .. 15 /\ Len(b) = Size(b) /\ WellFormed(b)
  BY ConExecAssumption, EncodingAssumption DEF Seqs, Size, SlotSize, Bytes

(* An instruction relative to rip has a ModRM byte that says so.           *)
LEMMA IsRelative ==
    ASSUME NEW b \in Insns, NEW d, d = Decode(b), d.base = "rip", ~d.high
    PROVE  \E n, o, m, key : /\ Relative(b, n, o, m, key) /\ Says(d, b, n, o, m, key)
<1> DEFINE n == Heads(b)
           o == n + Opcode(b, n)
           m == ByteAt(b, o + 1)
           key == KeyOf(b, n)
           rex == RexOf(b, n)
<1>1. b \in Seqs(Bytes) /\ Size(b) \in 1 .. 15 /\ Len(b) = Size(b) /\ WellFormed(b)
  BY InsnBytes
<1>2. Heading(b, n)
  BY <1>1, HeadsIs
<1>3. d.op # "nop" /\ d.len = Size(b)
  BY <1>1 DEF WellFormed
<1>4. n \in Nat /\ Opcode(b, n) \in {1, 2} /\ o \in Nat /\ m \in Bytes
  BY <1>1, <1>2, PartsAre, LenIs
<1>5. key # 144 /\ d.len = o + 1 + DispSize(m) + ImmSize(b, n, m)
  BY <1>1, <1>2, <1>3, LenIs
<1> HIDE DEF n
<1>6. /\ d.op = Operation(key, (m \div 8) % 8) /\ d.key = key
      /\ d.prefix = Marks(b, n) /\ d.rex = rex /\ d.base = BaseOf(m, rex)
      /\ d.high = HighByte(b, n, m)
      /\ d.disp = SignExtend(Field(b, o + 2, DispSize(m)))
      /\ d.imm = Field(b, o + 2 + DispSize(m), ImmSize(b, n, m))
  <2> HIDE DEF o, m, key, rex
  <2> QED
    BY <1>1, <1>2, <1>4, <1>5, DecodeIs DEF o, m, key, rex
<1>7. m \div 64 = 0 /\ m % 8 = 5
  BY <1>6 DEF BaseOf
<1>8. DispSize(m) = 4
  BY <1>4, <1>7, ModRMFacts
<1> DEFINE oc == Opcode(b, n)
<1>9. m = ByteAt(b, n + oc + 1)
  OBVIOUS
<1>10. ImmSize(b, n, m) \in {0, 1, 2, 4}
  BY <1>4, SizesAre
<1>11. Size(b) = n + oc + 5 + ImmSize(b, n, m)
  BY <1>3, <1>4, <1>5, <1>8, <1>10
<1>12. Relative(b, n, oc, m, key)
  BY <1>1, <1>2, <1>5, <1>6, <1>7, <1>9, <1>11 DEF Relative
<1>13. Says(d, b, n, oc, m, key)
  <2>1. o + 2 = n + oc + 2 /\ o + 2 + 4 = n + oc + 6
    BY <1>4
  <2> HIDE DEF o, m, key, oc
  <2> QED
    BY <1>6, <1>8, <2>1 DEF Says
<1> HIDE DEF m, key, oc
<1> QED
  BY <1>12, <1>13

(* One byte of opcode or two                                               *)
LEMMA OpcodeSize ==
    ASSUME NEW b, NEW n, NEW o, NEW m, NEW key, Relative(b, n, o, m, key)
    PROVE  (key < 256 => o = 1) /\ (key >= 256 => o = 2)
<1>1. n \in Nat /\ o \in {1, 2} /\ b \in Seqs(Bytes) /\ o = Opcode(b, n) /\ key = KeyOf(b, n)
  BY RelativeFacts DEF Relative
<1>2. PICK x \in Bytes : x = ByteAt(b, n + o)
  <2>1. n + o \in Nat \ {0}
    BY <1>1
  <2> QED
    BY <1>1, <2>1, ByteFacts
<1>3. key = x + (IF o = 2 THEN 256 ELSE 0)
  BY <1>1, <1>2 DEF KeyOf
<1> QED
  BY <1>1, <1>2, <1>3 DEF Bytes

(* What is rewritten, other than xadd, has an opcode of one byte.          *)
LEMMA OperationKeys ==
    ASSUME NEW d, NEW b, NEW n, NEW o, NEW m, NEW key,
           Relative(b, n, o, m, key), Says(d, b, n, o, m, key)
    PROVE  /\ d.op \in Rewritten \cup {"and", "test"} => o = 1
           /\ d.op = "xadd" => o = 2 /\ key \in {448, 449}
<1>1. Heading(b, n) /\ b \in Seqs(Bytes) /\ key = KeyOf(b, n) /\ d.op = Operation(key, (m \div 8) % 8)
  BY DEF Relative, Says
<1>2. key \in Nat
  BY <1>1, PartsAre
<1>3. m \in Bytes
  BY RelativeFacts
<1>4. (m \div 8) % 8 \in 0 .. 7
  BY <1>3 DEF Bytes
<1>5. /\ key >= 256 => d.op \in {"xadd", "other"}
      /\ d.op = "xadd" => key \in {448, 449}
  BY <1>1, <1>2, <1>4, OperationIs
<1>6. (key < 256 => o = 1) /\ (key >= 256 => o = 2)
  BY OpcodeSize
<1>7. key < 256 \/ key >= 256
  BY <1>2
<1> QED
  BY <1>5, <1>6, <1>7 DEF Rewritten

(* The bytes of the displacement and of an immediate                       *)
LEMMA DispBytes ==
    ASSUME NEW b, NEW n \in Nat, NEW o \in {1, 2}
    PROVE  /\ \A k \in 1 .. 4 : SignExtend(Field(b, n + o + 2, 4))[k] = ByteAt(b, (n + o + 1) + k)
           /\ ByteAt(b, n + o + 6) = 0 => Field(b, n + o + 6, 1) = <<0>>
<1>1. \A k \in 1 .. 4 : (n + o + 2) - 1 + k = (n + o + 1) + k
  OBVIOUS
<1>2. Len(Field(b, n + o + 2, 4)) = 4 /\ \A k \in 1 .. 4 : Field(b, n + o + 2, 4)[k] = ByteAt(b, (n + o + 1) + k)
  BY <1>1 DEF Field
<1>3. \A k \in 1 .. 4 : SignExtend(Field(b, n + o + 2, 4))[k] = ByteAt(b, (n + o + 1) + k)
  BY <1>2 DEF SignExtend
<1>4. (n + o + 6) - 1 + 1 = n + o + 6
  OBVIOUS
<1>5. ASSUME ByteAt(b, n + o + 6) = 0 PROVE Field(b, n + o + 6, 1) = <<0>>
  <2>1. \A k \in 1 .. 1 : ByteAt(b, (n + o + 6) - 1 + k) = 0
    BY <1>4, <1>5
  <2>2. Field(b, n + o + 6, 1) = [k \in 1 .. 1 |-> 0]
    BY <2>1 DEF Field
  <2> QED
    BY <2>2
<1> QED
  BY <1>3, <1>5

(* The operations whose rewriting depends on the length alone have an      *)
(* opcode of one byte.                                                     *)
LEMMA PlainShape ==
    ASSUME NEW b, NEW d, NEW n, NEW o, NEW m, NEW key,
           Relative(b, n, o, m, key), Says(d, b, n, o, m, key), d.op \in Rewritten
    PROVE  o = 1 /\ Size(b) = n + 6 + ImmSize(b, n, m)
<1>1. n \in Nat /\ ImmSize(b, n, m) \in {0, 1, 2, 4}
  BY RelativeFacts
<1>2. o = 1
  BY OperationKeys
<1>3. Size(b) = n + o + 5 + ImmSize(b, n, m)
  BY DEF Relative
<1> QED
  BY <1>1, <1>2, <1>3

(* A byte in the instruction                                               *)
LEMMA InsnByte ==
    ASSUME NEW b \in Seqs(Bytes), NEW j \in 1 .. Size(b)
    PROVE  ByteAt(b, j) = b[j]
<1>1. j \in Nat \ {0} /\ j <= Size(b)
  BY SizeFacts
<1>2. ByteAt(b, j) = At(b, j)
  BY <1>1, ByteFacts
<1> QED
  BY <1>2 DEF At

(* A displacement of one byte is not negative.                             *)
LEMMA ShortPositive ==
    ASSUME NEW b, NEW d, NEW n, NEW o, NEW m, NEW key,
           Relative(b, n, o, m, key), Says(d, b, n, o, m, key),
           d.op \in Rewritten, ~ShortNegative(d)
    PROVE  (\A k \in 2 .. 4 : ByteAt(b, (n + o + 1) + k) = 0) => ByteAt(b, (n + o + 1) + 1) < 128
<1>1. n \in Nat /\ o \in {1, 2} /\ b \in Seqs(Bytes)
  <2>1. n \in Nat /\ o \in {1, 2}
    BY RelativeFacts
  <2> QED
    BY <2>1 DEF Relative
<1>2. \A k \in 1 .. 4 : d.disp[k] = ByteAt(b, (n + o + 1) + k)
  BY <1>1, DispBytes DEF Says
<1>3. ~(d.disp[1] >= 128 /\ \A k \in 2 .. 4 : d.disp[k] = 0)
  BY DEF ShortNegative
<1>4. PICK x \in Bytes : x = ByteAt(b, (n + o + 1) + 1)
  <2>1. (n + o + 1) + 1 \in Nat \ {0}
    BY <1>1
  <2> QED
    BY <1>1, <2>1, ByteFacts
<1>5. d.disp[1] = x
  BY <1>2, <1>4
<1>6. SUFFICES ASSUME \A k \in 2 .. 4 : ByteAt(b, (n + o + 1) + k) = 0 PROVE x < 128
  BY <1>4
<1>7. \A k \in 2 .. 4 : d.disp[k] = 0
  BY <1>2, <1>6
<1>8. ~(x >= 128)
  BY <1>3, <1>5, <1>7
<1> QED
  BY <1>8 DEF Bytes

(* mov, cmp, lea, add and sub without gs                                   *)
LEMMA PlainRight ==
    ASSUME NEW b, NEW d, NEW n, NEW o, NEW m, NEW key,
           Relative(b, n, o, m, key), Says(d, b, n, o, m, key),
           d.op \in Rewritten, 101 \notin d.prefix,
           ~ShortNegative(d), ~Vmcall(d, b), ~NotRex(d, b)
    PROVE  Respells(RewPlain(b), b)
<1>1. Size(b) \in {6, 7} /\ Size(b) = Len(b)
  BY DEF Vmcall, Size
<1>2. n \in Nat /\ ImmSize(b, n, m) \in {0, 1, 2, 4} /\ b \in Seqs(Bytes) /\ Heading(b, n)
  BY RelativeFacts DEF Relative
<1>3. o = 1 /\ Size(b) = n + 6 + ImmSize(b, n, m)
  BY PlainShape
<1>4. (\A k \in 2 .. 4 : ByteAt(b, (n + o + 1) + k) = 0) => ByteAt(b, (n + o + 1) + 1) < 128
  BY ShortPositive
<1>5. CASE Size(b) = 7
  <2> DEFINE p == [b EXCEPT ![1] = Or(b[1], 1)]
  <2>1. ByteAt(b, 1) \in Rex
    <3>1. 1 \in 1 .. Size(b)
      BY <1>5
    <3>2. b[1] \in Rex
      BY <1>1, <1>5 DEF NotRex
    <3> QED
      BY <1>2, <3>1, <3>2, InsnByte
  <2>2. n = 1 /\ ImmSize(b, n, m) = 0
    <3>1. n # 0
      <4>1. ByteAt(b, 0 + 1) \in Rex
        BY <2>1
      <4>2. ByteAt(b, n + 1) \notin Rex
        BY <1>2 DEF Heading
      <4> QED
        BY <4>1, <4>2
    <3> QED
      BY <1>2, <1>3, <1>5, <3>1
  <2>3. Prepared(p, 1, b, 1, 1, m, key)
    <3>1. Relative(b, 1, 1, m, key) /\ 1 > 0
      BY <1>3, <2>2
    <3> QED
      BY <2>1, <3>1, ExtendsRex
  <2>4. RewPlain(b) = Shorten(p, 3, 4)
    BY <1>1, <1>5 DEF RewPlain
  <2> HIDE DEF p
  <2>5. (\A k \in 2 .. 4 : ByteAt(b, (1 + 1 + 1) + k) = 0) => ByteAt(b, (1 + 1 + 1) + 1) < 128
    BY <1>3, <1>4, <2>2
  <2>6. Respells(Shorten(p, 1 + 1 + 1, 1 + 1 + 2), b)
    BY <1>3, <2>2, <2>3, <2>5, Shortens
  <2>7. 1 + 1 + 1 = 3 /\ 1 + 1 + 2 = 4
    OBVIOUS
  <2> QED
    BY <2>4, <2>6, <2>7
<1>6. CASE Size(b) = 6
  <2> DEFINE p == <<65>> \o b
  <2>1. n = 0 /\ ImmSize(b, n, m) = 0
    BY <1>3, <1>2, <1>6
  <2>2. Prepared(p, 1, b, 0, 1, m, key)
    <3>1. Relative(b, 0, 1, m, key)
      BY <1>3, <2>1
    <3> QED
      BY <3>1, PrependsRex
  <2>3. RewPlain(b) = Shorten(p, 3, 4)
    BY <1>1, <1>6 DEF RewPlain
  <2> HIDE DEF p
  <2>4. (\A k \in 2 .. 4 : ByteAt(b, (0 + 1 + 1) + k) = 0) => ByteAt(b, (0 + 1 + 1) + 1) < 128
    BY <1>3, <1>4, <2>1
  <2>5. Respells(Shorten(p, 1 + 1 + 1, 1 + 1 + 2), b)
    BY <1>3, <2>1, <2>2, <2>4, Shortens
  <2>6. 1 + 1 + 1 = 3 /\ 1 + 1 + 2 = 4
    OBVIOUS
  <2> QED
    BY <2>3, <2>5, <2>6
<1> QED
  BY <1>1, <1>5, <1>6

(* The only prefix in front of an opcode is gs when there is gs.           *)
LEMMA OnlyGs ==
    ASSUME NEW b, 101 \in Marks(b, 1)
    PROVE  ByteAt(b, 1) = 101 /\ RexOf(b, 1) = 0
<1>1. ByteAt(b, 1) = 101
  <2>1. \A j \in 1 .. 1 : j = 1
    OBVIOUS
  <2> QED
    BY <2>1 DEF Marks
<1> QED
  BY <1>1 DEF RexOf, Rex

(* mov and add with gs                                                     *)
LEMMA GsRight ==
    ASSUME NEW b, NEW d, NEW n, NEW o, NEW m, NEW key,
           Relative(b, n, o, m, key), Says(d, b, n, o, m, key),
           d.op \in Rewritten, 101 \in d.prefix,
           ~ShortNegative(d), ~Vmcall(d, b), ~NotRex(d, b)
    PROVE  Respells(RewGs(d, b), b)
<1>1. d.op \in {"mov", "add"} /\ Size(b) \in {7, 8} /\ Size(b) = Len(b)
  BY DEF Vmcall, Size
<1>2. o = 1 /\ Size(b) = n + 6 + ImmSize(b, n, m)
  BY PlainShape
<1>3. /\ n \in Nat /\ ImmSize(b, n, m) \in {0, 1, 2, 4}
      /\ b \in Seqs(Bytes) /\ Heading(b, n) /\ 101 \in Marks(b, n) /\ n # 0
  <2>1. n \in Nat /\ ImmSize(b, n, m) \in {0, 1, 2, 4} /\ b \in Seqs(Bytes) /\ Heading(b, n)
    BY RelativeFacts DEF Relative
  <2>2. 101 \in Marks(b, n)
    BY DEF Says
  <2>3. n # 0
    BY <2>2 DEF Marks
  <2> QED
    BY <2>1, <2>2, <2>3
<1>4. (\A k \in 2 .. 4 : ByteAt(b, (n + o + 1) + k) = 0) => ByteAt(b, (n + o + 1) + 1) < 128
  BY ShortPositive
<1>5. CASE Size(b) = 7
  <2> DEFINE p == WithRex(b)
  <2>1. n = 1 /\ ImmSize(b, n, m) = 0
    BY <1>2, <1>3, <1>5
  <2>2. RexOf(b, 1) = 0
    BY <1>3, <2>1, OnlyGs
  <2>3. Prepared(p, 2, b, 1, 1, m, key)
    <3>1. Relative(b, 1, 1, m, key)
      BY <1>2, <2>1
    <3> QED
      BY <2>2, <3>1, InsertsRex
  <2>4. RewGs(d, b) = Shorten(p, 4, 5)
    BY <1>1, <1>5 DEF RewGs
  <2> HIDE DEF p
  <2>5. (\A k \in 2 .. 4 : ByteAt(b, (1 + 1 + 1) + k) = 0) => ByteAt(b, (1 + 1 + 1) + 1) < 128
    BY <1>2, <1>4, <2>1
  <2>6. Respells(Shorten(p, 2 + 1 + 1, 2 + 1 + 2), b)
    BY <1>2, <2>1, <2>3, <2>5, Shortens
  <2>7. 2 + 1 + 1 = 4 /\ 2 + 1 + 2 = 5
    OBVIOUS
  <2> QED
    BY <2>4, <2>6, <2>7
<1>6. CASE Size(b) = 8
  <2> DEFINE p == [b EXCEPT ![2] = Or(b[2], 1)]
  <2>1. ByteAt(b, 2) \in Rex
    <3>1. 2 \in 1 .. Size(b)
      BY <1>6
    <3>2. b[2] \in Rex
      BY <1>1, <1>6 DEF NotRex
    <3> QED
      BY <1>3, <3>1, <3>2, InsnByte
  <2>2. n = 2 /\ ImmSize(b, n, m) = 0
    <3>1. n # 1
      <4>1. ByteAt(b, 1 + 1) \in Rex
        BY <2>1
      <4>2. ByteAt(b, n + 1) \notin Rex
        BY <1>3 DEF Heading
      <4> QED
        BY <4>1, <4>2
    <3> QED
      BY <1>2, <1>3, <1>6, <3>1
  <2>3. Prepared(p, 2, b, 2, 1, m, key)
    <3>1. Relative(b, 2, 1, m, key) /\ 2 > 0
      BY <1>2, <2>2
    <3> QED
      BY <2>1, <3>1, ExtendsRex
  <2>4. RewGs(d, b) = Shorten(p, 4, 5)
    BY <1>1, <1>6 DEF RewGs
  <2> HIDE DEF p
  <2>5. (\A k \in 2 .. 4 : ByteAt(b, (2 + 1 + 1) + k) = 0) => ByteAt(b, (2 + 1 + 1) + 1) < 128
    BY <1>2, <1>4, <2>2
  <2>6. Respells(Shorten(p, 2 + 1 + 1, 2 + 1 + 2), b)
    BY <1>2, <2>2, <2>3, <2>5, Shortens
  <2>7. 2 + 1 + 1 = 4 /\ 2 + 1 + 2 = 5
    OBVIOUS
  <2> QED
    BY <2>4, <2>6, <2>7
<1> QED
  BY <1>1, <1>5, <1>6

(* and with gs, whose immediate has four bytes                             *)
LEMMA AndRight ==
    ASSUME NEW b, NEW d, NEW n, NEW o, NEW m, NEW key,
           Relative(b, n, o, m, key), Says(d, b, n, o, m, key),
           d.op = "and", 101 \in d.prefix, ~NotLast(d, b), Size(b) = 11, RewLong(b, 4) # Stop
    PROVE  Respells(RewLong(b, 4), b)
<1>1. n \in Nat /\ o \in {1, 2} /\ ImmSize(b, n, m) \in {0, 1, 2, 4}
  BY RelativeFacts
<1>2. o = 1
  BY OperationKeys
<1>3. n = 1
  <2>1. b \in Seqs(Bytes) /\ Heading(b, n) /\ Heads(b) = 1
    BY DEF Relative, NotLast
  <2> QED
    BY <2>1, HeadsIs
<1>4. RexOf(b, 1) = 0
  <2>1. 101 \in Marks(b, 1)
    BY <1>3 DEF Says
  <2> QED
    BY <2>1, OnlyGs
<1> DEFINE p == WithRex(b)
<1>5. Prepared(p, 2, b, 1, 1, m, key)
  <2>1. Relative(b, 1, 1, m, key)
    BY <1>2, <1>3
  <2> QED
    BY <1>4, <2>1, InsertsRex
<1>6. RewLong(b, 4) = [p EXCEPT ![4] = LongDisp(p[4])]
  BY DEF RewLong
<1> HIDE DEF p
<1>7. Respells([p EXCEPT ![2 + 1 + 1] = LongDisp(m)], b) /\ p[2 + 1 + 1] = m
  BY <1>5, Lengthens
<1>8. 2 + 1 + 1 = 4
  OBVIOUS
<1> QED
  BY <1>6, <1>7, <1>8

(* xadd, whose opcode has two bytes                                        *)
LEMMA XaddRight ==
    ASSUME NEW b, NEW d, NEW n, NEW o, NEW m, NEW key,
           Relative(b, n, o, m, key), Says(d, b, n, o, m, key),
           d.op = "xadd", ~TwoRex(d), Size(b) = 8, RewLong(b, 5) # Stop
    PROVE  Respells(RewLong(b, 5), b)
<1>1. n \in Nat /\ o \in {1, 2} /\ ImmSize(b, n, m) \in {0, 1, 2, 4}
  BY RelativeFacts
<1>2. o = 2 /\ key \in {448, 449}
  BY OperationKeys
<1>3. ImmSize(b, n, m) = 0
  <2>1. KeyOf(b, n) \in {448, 449}
    BY <1>2 DEF Relative
  <2> QED
    BY <2>1 DEF ImmSize
<1>4. n = 1
  <2>1. Size(b) = n + o + 5 + ImmSize(b, n, m)
    BY DEF Relative
  <2> QED
    BY <1>1, <1>2, <1>3, <2>1
<1>5. RexOf(b, 1) = 0
  BY <1>4 DEF Says, TwoRex
<1> DEFINE p == WithRex(b)
<1>6. Prepared(p, 2, b, 1, 2, m, key)
  <2>1. Relative(b, 1, 2, m, key)
    BY <1>2, <1>4
  <2> QED
    BY <1>5, <2>1, InsertsRex
<1>7. RewLong(b, 5) = [p EXCEPT ![5] = LongDisp(p[5])]
  BY DEF RewLong
<1> HIDE DEF p
<1>8. Respells([p EXCEPT ![2 + 2 + 1] = LongDisp(m)], b) /\ p[2 + 2 + 1] = m
  BY <1>6, Lengthens
<1>9. 2 + 2 + 1 = 5
  OBVIOUS
<1> QED
  BY <1>7, <1>8, <1>9

(* test with an immediate of one byte that is not zero                     *)
LEMMA TestRight ==
    ASSUME NEW b, NEW d, NEW n, NEW o, NEW m, NEW key,
           Relative(b, n, o, m, key), Says(d, b, n, o, m, key),
           d.op = "test", ~OtherTest(d, b)
    PROVE  Respells(RewTest(b), b)
<1>1. n \in Nat /\ o \in {1, 2} /\ ImmSize(b, n, m) \in {0, 1, 2, 4}
  BY RelativeFacts
<1>2. key = 246 /\ d.imm # <<0>> /\ Len(b) = 7
  BY DEF Says, OtherTest
<1>3. o = 1
  BY OperationKeys
<1>4. ImmSize(b, n, m) = 1
  <2>1. Operation(246, (m \div 8) % 8) = "test" /\ KeyOf(b, n) = 246
    BY <1>2 DEF Says, Relative
  <2>2. (m \div 8) % 8 < 2
    BY <2>1 DEF Operation
  <2> QED
    BY <2>1, <2>2 DEF ImmSize
<1>5. Size(b) = 7 /\ n = 0
  <2>1. Size(b) = n + o + 5 + ImmSize(b, n, m)
    BY DEF Relative
  <2>2. Size(b) = 7
    BY <1>2 DEF Size
  <2> QED
    BY <1>1, <1>3, <1>4, <2>1, <2>2
<1>6. ByteAt(b, 7) # 0
  <2>1. n + o + 6 = 7
    BY <1>3, <1>5
  <2>2. d.imm = Field(b, n + o + 6, 1)
    BY <1>4 DEF Says
  <2>3. ByteAt(b, n + o + 6) = 0 => Field(b, n + o + 6, 1) = <<0>>
    BY <1>1, DispBytes
  <2>4. ByteAt(b, n + o + 6) # 0
    BY <1>2, <2>2, <2>3
  <2> QED
    BY <2>1, <2>4
<1>7. b \in Seqs(Bytes)
  BY DEF Relative
<1> DEFINE p == <<65>> \o b
<1>8. Prepared(p, 1, b, 0, 1, m, key) /\ Size(p) = 8
  <2>1. Relative(b, 0, 1, m, key)
    BY <1>3, <1>5
  <2> QED
    BY <1>5, <2>1, PrependsRex
<1>9. RewTest(b) = Shorten(p, 3, 5)
  <2>1. [k \in 1 .. 7 |-> IF k <= Len(b) THEN b[k] ELSE After] = b
    <3>1. b \in Seq(Bytes) /\ Len(b) = 7
      BY <1>2, <1>7 DEF Seqs
    <3>2. b = [k \in 1 .. 7 |-> b[k]]
      BY <3>1
    <3>3. \A k \in 1 .. 7 : k <= Len(b)
      BY <1>2
    <3> QED
      BY <3>2, <3>3
  <2> QED
    BY <2>1 DEF RewTest, First
<1> HIDE DEF p
<1>10. p[8] # 0
  <2>1. p \in Seqs(Bytes) /\ 7 \in 1 .. 1 + 5 + ImmSize(b, n, m) /\ 8 \in Nat \ {0} /\ 8 <= Size(p)
    BY <1>4, <1>5, <1>8 DEF Prepared
  <2>2. \A k \in 1 .. 1 + 5 + ImmSize(b, n, m) : ByteAt(p, 1 + k) = ByteAt(b, 0 + k)
    BY <1>5, <1>8 DEF Prepared
  <2>3. ByteAt(p, 1 + 7) = ByteAt(b, 0 + 7)
    BY <2>1, <2>2
  <2>4. 1 + 7 = 8 /\ 0 + 7 = 7
    OBVIOUS
  <2>5. ByteAt(p, 8) = At(p, 8)
    BY <2>1, ByteFacts
  <2> QED
    BY <1>6, <2>3, <2>4, <2>5 DEF At
<1>11. Shorten(p, 3, 5) = Cut(p, 3, LongDisp(p[3]), 8)
  <2>1. ~\A j \in 5 .. 5 + 3 : p[j] = 0
    <3>1. 8 \in 5 .. 5 + 3
      OBVIOUS
    <3> QED
      BY <1>10, <3>1
  <2>2. ~\A j \in 5 + 1 .. 5 + 3 : p[j] = 0
    <3>1. 8 \in 5 + 1 .. 5 + 3
      OBVIOUS
    <3> QED
      BY <1>10, <3>1
  <2>3. Shorten(p, 3, 5) = SubSeq([p EXCEPT ![3] = LongDisp(p[3])], 1, 5 + 3)
    BY <2>1, <2>2, Zenon DEF Shorten
  <2>4. 5 + 3 = 8
    OBVIOUS
  <2> QED
    BY <2>3, <2>4 DEF Cut, Part
<1>12. Respells(Cut(p, 1 + 1 + 1, LongDisp(m), Size(p)), b) /\ p[1 + 1 + 1] = m
  BY <1>8, Lengthens
<1>13. 1 + 1 + 1 = 3
  OBVIOUS
<1> QED
  BY <1>8, <1>9, <1>11, <1>12, <1>13

(***************************************************************************)
(* What RewRIPInsn makes of an instruction does the same with r15 as its   *)
(* base, except for those that Deviates lists.                             *)
(***************************************************************************)
LEMMA RewritesRight ==
    ASSUME NEW b \in Insns, NEW d, d = Decode(b), d.base = "rip",
           RewRIPInsn(d, b) # Stop, ~Deviates(d, b)
    PROVE  Respells(RewRIPInsn(d, b), b)
<1>1. PICK n, o, m, key : Relative(b, n, o, m, key) /\ Says(d, b, n, o, m, key)
  BY IsRelative DEF Deviates, NewRegister
<1>2. /\ ~Vmcall(d, b) /\ ~ShortNegative(d) /\ ~NotRex(d, b)
      /\ ~NotLast(d, b) /\ ~OtherTest(d, b) /\ ~TwoRex(d)
  BY DEF Deviates
<1>3. CASE d.op \in Rewritten
  <2>1. CASE 101 \in d.prefix
    <3>1. RewRIPInsn(d, b) = RewGs(d, b)
      BY <1>3, <2>1 DEF RewRIPInsn, Rewritten
    <3>2. Respells(RewGs(d, b), b)
      BY <1>1, <1>2, <1>3, <2>1, GsRight
    <3> QED
      BY <3>1, <3>2
  <2>2. CASE 101 \notin d.prefix
    <3>1. RewRIPInsn(d, b) = RewPlain(b)
      BY <1>3, <2>2 DEF RewRIPInsn, Rewritten
    <3>2. Respells(RewPlain(b), b)
      BY <1>1, <1>2, <1>3, <2>2, PlainRight
    <3> QED
      BY <3>1, <3>2
  <2> QED
    BY <2>1, <2>2
<1>4. CASE d.op = "and"
  <2>1. 101 \in d.prefix /\ Len(b) = 11 /\ RewRIPInsn(d, b) = RewLong(b, 4)
    BY <1>4 DEF RewRIPInsn, Rewritten
  <2>2. Size(b) = 11 /\ RewLong(b, 4) # Stop
    BY <2>1 DEF Size
  <2>3. Respells(RewLong(b, 4), b)
    BY <1>1, <1>2, <1>4, <2>1, <2>2, AndRight
  <2> QED
    BY <2>1, <2>3
<1>5. CASE d.op = "xadd"
  <2>1. Len(b) = 8 /\ RewRIPInsn(d, b) = RewLong(b, 5)
    BY <1>5 DEF RewRIPInsn, Rewritten
  <2>2. Size(b) = 8 /\ RewLong(b, 5) # Stop
    BY <2>1 DEF Size
  <2>3. Respells(RewLong(b, 5), b)
    BY <1>1, <1>2, <1>5, <2>2, XaddRight
  <2> QED
    BY <2>1, <2>3
<1>6. CASE d.op = "test"
  <2>1. RewRIPInsn(d, b) = RewTest(b)
    BY <1>6 DEF RewRIPInsn, Rewritten
  <2>2. Respells(RewTest(b), b)
    BY <1>1, <1>2, <1>6, TestRight
  <2> QED
    BY <2>1, <2>2
<1>7. d.op \in Rewritten \/ d.op \in {"and", "xadd", "test"}
  BY DEF RewRIPInsn
<1> QED
  BY <1>3, <1>4, <1>5, <1>6, <1>7

(* A dispatch that does not end the run does what the instruction does.    *)
LEMMA DispatchRuns ==
    ASSUME IInv, NEW b \in Insns, NEW d, d = Decode(b), ~Deviates(d, b),
           InsnExecRIP(d, b) \/ InsnExecNonRIP(d, b)
    PROVE  ran' = <<Effect(d, Env("rip", "r15"))>>
<1>1. b \in Seqs(Bytes) /\ Size(b) \in 1 .. 15 /\ Len(b) = Size(b) /\ WellFormed(b)
  BY InsnBytes
<1>2. rip = NopBytes /\ non = NopBytes
  BY DEF IInv, SlotsClear
<1>3. CASE InsnExecRIP(d, b)
  <2> DEFINE r == RewRIPInsn(d, b)
  <2>1. d.base = "rip" /\ r # Stop /\ ran' = RunSlot(Put(rip, r), Env("slot", "rip"))
    BY <1>3 DEF InsnExecRIP
  <2>2. Respells(r, b)
    BY <2>1, RewritesRight
  <2>3. Size(r) <= 15
    <3>1. Fits(r)
      BY <1>1, <2>1, RewrittenFits
    <3> HIDE DEF r
    <3>2. r \in Seqs(Bytes) /\ Size(r) <= 12
      BY <2>2, <3>1 DEF Fits, Respells
    <3>3. Size(r) \in Nat
      BY <3>2, SizeFacts
    <3> QED
      BY <3>2, <3>3
  <2> HIDE DEF r
  <2>4. /\ r \in Seqs(Bytes) /\ Decode(r).op # "nop" /\ Decode(r).len = Size(r)
        /\ Alike(Decode(r), d) /\ Decode(r).base = "r15"
    BY <2>2 DEF Respells
  <2>5. RunSlot(Put(NopBytes, r), Env("slot", "rip")) = <<Effect(Decode(r), Env("slot", "rip"))>>
    BY <2>3, <2>4, SlotRuns
  <2>6. Env("slot", "rip")["r15"] = Env("rip", "r15")["rip"]
    BY DEF Env
  <2>7. Effect(Decode(r), Env("slot", "rip")) = Effect(d, Env("rip", "r15"))
    BY <2>1, <2>4, <2>6, AlikeEffect
  <2> QED
    BY <1>2, <2>1, <2>5, <2>7
<1>4. CASE InsnExecNonRIP(d, b)
  <2>1. d.base # "rip" /\ ran' = RunSlot(Put(non, b), Env("slot", "r15"))
    BY <1>4 DEF InsnExecNonRIP
  <2>2. d.op # "nop" /\ d.len = Size(b)
    BY <1>1 DEF WellFormed
  <2>3. RunSlot(Put(NopBytes, b), Env("slot", "r15")) = <<Effect(d, Env("slot", "r15"))>>
    BY <1>1, <2>2, SlotRuns
  <2>4. d.base \in {"direct", "r15", "other"}
    <3> DEFINE n == Heads(b)
               o == n + Opcode(b, n)
               m == ByteAt(b, o + 1)
    <3>1. Heading(b, n)
      BY <1>1, HeadsIs
    <3>2. o \in Nat /\ KeyOf(b, n) # 144
      BY <1>1, <2>2, <3>1, LenIs
    <3>3. d.base = BaseOf(m, RexOf(b, n))
      <4> HIDE DEF n, m
      <4> QED
        BY <1>1, <3>1, <3>2, DecodeIs DEF m
    <3> HIDE DEF n, m
    <3> QED
      BY <2>1, <3>3 DEF BaseOf
  <2>5. Env("slot", "r15")[d.base] = Env("rip", "r15")[d.base]
    BY <2>4 DEF Env
  <2>6. Effect(d, Env("slot", "r15")) = Effect(d, Env("rip", "r15"))
    <3>1. Alike(d, d)
      BY DEF Alike
    <3> QED
      BY <2>5, <3>1, AlikeEffect
  <2> QED
    BY <1>2, <2>1, <2>3, <2>6
<1> QED
  BY <1>3, <1>4

(***************************************************************************)
(* A trampoline does what the guest's instruction does at the guest's rip, *)
(* and nothing else, for all instructions that InsnDispatch takes, other   *)
(* than those that Deviates lists: the slots hold nothing but nops when    *)
(* the bytes are copied, and every case of RewRIPInsn puts REX and ModRM   *)
(* where the processor looks for them (conexec.cpp).                       *)
(***************************************************************************)
THEOREM AlwaysRunsTheInstruction == Spec => []RunsTheInstruction
<1>1. Init => RunsTheInstruction
  BY DEF Init, RunsTheInstruction
<1>2. IInv /\ RunsTheInstruction /\ [Next]_vars => RunsTheInstruction'
  <2> SUFFICES ASSUME IInv, RunsTheInstruction, [Next]_vars PROVE RunsTheInstruction'
    OBVIOUS
  <2>1. CASE Next
    <3>1. PICK b \in Insns : InsnDispatch(b)
      BY <2>1 DEF Next
    <3>2. PICK d : d = Decode(b)
      OBVIOUS
    <3>3. InsnExecRIP(d, b) \/ GiveUp(d, b) \/ InsnExecNonRIP(d, b)
      BY <3>1, <3>2 DEF InsnDispatch
    <3>4. CASE GiveUp(d, b)
      BY <3>4 DEF GiveUp, RunsTheInstruction
    <3>5. CASE InsnExecRIP(d, b) \/ InsnExecNonRIP(d, b)
      <4>1. ~Deviates(Decode(b), b) => ran' = <<Effect(Decode(b), Env("rip", "r15"))>>
        BY <3>2, <3>5, DispatchRuns
      <4>2. insn' = b
        BY <3>5 DEF InsnExecRIP, InsnExecNonRIP
      <4> QED
        BY <4>1, <4>2 DEF RunsTheInstruction
    <3> QED
      BY <3>3, <3>4, <3>5
  <2>2. CASE UNCHANGED vars
    BY <2>2 DEF vars, RunsTheInstruction
  <2> QED
    BY <2>1, <2>2
<1> QED
  BY <1>1, <1>2, Inductive, PTL DEF Spec

=============================================================================
