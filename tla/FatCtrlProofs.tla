---------------------------- MODULE FatCtrlProofs ----------------------------
(***************************************************************************)
(* For every database of calls, page size and table sizes: FindFuncCallInfo*)
(* finds what the database has, int3 bytes stay in their own pages and are *)
(* recorded, calls are emulated as the database has them, the tables keep  *)
(* their bounds, and no probe of a callee is lost.                         *)
(*                                                                         *)
(* Induction over the length of the range that is searched is done by      *)
(* least counterexample (NatMin).                                          *)
(***************************************************************************)
EXTENDS FatCtrl, SequenceTheorems, WellFoundedInduction, TLAPS

(* A set of natural numbers has a least one.                               *)
LEMMA NatMin ==
    ASSUME NEW T, T \subseteq Nat, T # {}
    PROVE  \E n \in T : \A m \in T : n <= m
<1> DEFINE R == OpToRel(<, Nat)
<1>1. IsWellFoundedOn(R, Nat)
  BY NatLessThanWellFounded
<1>2. PICK x \in T : \A y \in T : ~ (<<y, x>> \in R)
  <2> HIDE DEF R
  <2> QED
    BY <1>1, WFMin
<1>3. \A y \in T : ~(y < x)
  BY <1>2 DEF OpToRel
<1> QED
  BY <1>3

-----------------------------------------------------------------------------
(* FindFuncCallInfo                                                        *)

N == Len(FuncDB)

LEMMA DBFacts ==
    /\ N \in Nat /\ DOMAIN FuncDB = 1 .. N
    /\ \A i \in 1 .. N : FuncDB[i].func_addr \in Nat /\ FuncDB[i].calls \in Seq(CallSites)
    /\ \A i \in 1 .. N : FuncDB[i].calls # <<>>
    /\ \A i \in 1 .. N - 1 : FuncDB[i].func_addr < FuncDB[i + 1].func_addr
<1> DEFINE Func == [func_addr : Nat, calls : Seq(CallSites)]
<1>1. FuncDB \in Seq(Func)
  BY FatAssumption
<1> HIDE DEF Func
<1>2. N \in Nat /\ DOMAIN FuncDB = 1 .. N /\ \A i \in 1 .. N : FuncDB[i] \in Func
  BY <1>1, LenProperties, ElementOfSeq DEF N
<1>3. \A i \in 1 .. N : FuncDB[i].func_addr \in Nat /\ FuncDB[i].calls \in Seq(CallSites)
  BY <1>2 DEF Func
<1> QED
  BY <1>2, <1>3, FatAssumption DEF N

(* The middle lies in the range, and what is left on either side is less.  *)
LEMMA Middle ==
    ASSUME NEW low \in 1 .. N + 1, NEW high \in 0 .. N, low <= high,
           NEW mid, mid = (low + high) \div 2
    PROVE  /\ mid \in 1 .. N /\ low <= mid /\ mid <= high
           /\ mid + 1 \in 1 .. N + 1 /\ mid - 1 \in 0 .. N
           /\ high - (mid + 1) < high - low /\ (mid - 1) - low < high - low
<1>1. mid \in Int /\ low <= mid /\ mid <= high
  BY DBFacts
<1> QED
  BY <1>1, DBFacts

(* An iteration asks only about shorter ranges.                            *)
LEMMA NarrowLocal ==
    ASSUME NEW f, NEW g, NEW low \in 1 .. N + 1, NEW high \in 0 .. N, NEW addr \in Nat,
           \A l \in 1 .. N + 1, h \in 0 .. N :
               (low <= high /\ h - l < high - low) => f[<<l, h, addr>>] = g[<<l, h, addr>>]
    PROVE  Narrow(f, low, high, addr) = Narrow(g, low, high, addr)
<1>1. CASE low > high
  BY <1>1 DEF Narrow
<1>2. CASE low <= high
  <2> DEFINE mid == (low + high) \div 2
  <2>1. /\ mid + 1 \in 1 .. N + 1 /\ mid - 1 \in 0 .. N
        /\ high - (mid + 1) < high - low /\ (mid - 1) - low < high - low
    BY <1>2, Middle
  <2> HIDE DEF mid
  <2>2. /\ f[<<mid + 1, high, addr>>] = g[<<mid + 1, high, addr>>]
        /\ f[<<low, mid - 1, addr>>] = g[<<low, mid - 1, addr>>]
    BY <1>2, <2>1
  <2> QED
    BY <2>2 DEF Narrow, mid
<1> QED
  BY <1>1, <1>2, DBFacts

(* The number of entries between low and high.                             *)
Entries(low, high) == IF low <= high THEN high - low + 1 ELSE 0

(* f is the loop for the ranges of at most n entries.                      *)
LoopUpTo(f, n) ==
    \A low \in 1 .. N + 1, high \in 0 .. N, addr \in Nat :
        Entries(low, high) <= n => f[<<low, high, addr>>] = Narrow(f, low, high, addr)

LEMMA LoopExtends ==
    ASSUME NEW n \in Nat, NEW f, LoopUpTo(f, n)
    PROVE  \E g : LoopUpTo(g, n + 1)
<1> DEFINE val(q) == Narrow(f, q[1], q[2], q[3])
           g == [q \in SearchRanges |-> val(q)]
<1> HIDE DEF val
<1>1. \A low \in 1 .. N + 1, high \in 0 .. N, addr \in Nat :
        g[<<low, high, addr>>] = Narrow(f, low, high, addr)
  BY DEF SearchRanges, N, val
<1> HIDE DEF g
<1>2. ASSUME NEW low \in 1 .. N + 1, NEW high \in 0 .. N, NEW addr \in Nat,
             Entries(low, high) <= n + 1
      PROVE  Narrow(f, low, high, addr) = Narrow(g, low, high, addr)
  <2>1. ASSUME NEW l \in 1 .. N + 1, NEW h \in 0 .. N, low <= high, h - l < high - low
        PROVE  f[<<l, h, addr>>] = g[<<l, h, addr>>]
    <3>1. Entries(l, h) <= n
      BY <1>2, <2>1, DBFacts DEF Entries
    <3> QED
      BY <1>1, <3>1 DEF LoopUpTo
  <2> QED
    BY <2>1, NarrowLocal
<1>3. LoopUpTo(g, n + 1)
  BY <1>1, <1>2 DEF LoopUpTo
<1> QED
  BY <1>3

(* The recursive definition of Search has a solution, so it is one.        *)
LEMMA SearchLoops ==
    ASSUME NEW low \in 1 .. N + 1, NEW high \in 0 .. N, NEW addr \in Nat
    PROVE  Search[<<low, high, addr>>] = Narrow(Search, low, high, addr)
<1>1. \A n \in Nat : \E f : LoopUpTo(f, n)
  <2> DEFINE T == { n \in Nat : ~\E f : LoopUpTo(f, n) }
  <2> SUFFICES ASSUME T # {} PROVE FALSE
    OBVIOUS
  <2>1. PICK n \in T : \A m \in T : n <= m
    BY NatMin
  <2>2. n # 0
    <3> DEFINE f == [q \in SearchRanges |-> 0]
    <3>1. ASSUME NEW l \in 1 .. N + 1, NEW h \in 0 .. N, NEW a \in Nat, Entries(l, h) <= 0
          PROVE  f[<<l, h, a>>] = Narrow(f, l, h, a)
      <4>1. l > h
        BY <3>1, DBFacts DEF Entries
      <4> QED
        BY <4>1 DEF Narrow, SearchRanges, N
    <3> HIDE DEF f
    <3>2. LoopUpTo(f, 0)
      BY <3>1 DEF LoopUpTo
    <3> QED
      BY <3>2
  <2>3. n - 1 \in Nat /\ n - 1 \notin T
    BY <2>1, <2>2
  <2>4. PICK f : LoopUpTo(f, n - 1)
    BY <2>3
  <2>5. \E g : LoopUpTo(g, (n - 1) + 1)
    BY <2>3, <2>4, LoopExtends
  <2> QED
    BY <2>1, <2>3, <2>5
<1>2. PICK f : LoopUpTo(f, N + 1)
  <2>1. N + 1 \in Nat
    BY DBFacts
  <2> QED
    BY <1>1, <2>1
<1> DEFINE val(g, q) == Narrow(g, q[1], q[2], q[3])
           Solves(g) == g = [q \in SearchRanges |-> val(g, q)]
           f1 == [q \in SearchRanges |-> val(f, q)]
<1>3. Solves(f1)
  <2>1. ASSUME NEW q \in SearchRanges PROVE val(f, q) = val(f1, q)
    <3>1. /\ q[1] \in 1 .. N + 1 /\ q[2] \in 0 .. N /\ q[3] \in Nat
      BY DEF SearchRanges, N
    <3>2. ASSUME NEW l \in 1 .. N + 1, NEW h \in 0 .. N
          PROVE  f[<<l, h, q[3]>>] = f1[<<l, h, q[3]>>]
      <4>1. Entries(l, h) <= N + 1
        BY DBFacts DEF Entries
      <4>2. f1[<<l, h, q[3]>>] = Narrow(f, l, h, q[3])
        BY <3>1 DEF SearchRanges, N
      <4> QED
        BY <1>2, <3>1, <4>1, <4>2 DEF LoopUpTo
    <3> HIDE DEF f1, val
    <3>3. ASSUME NEW low1 \in 1 .. N + 1, NEW high1 \in 0 .. N, NEW addr1 \in Nat,
                 \A l \in 1 .. N + 1, h \in 0 .. N : f[<<l, h, addr1>>] = f1[<<l, h, addr1>>]
          PROVE  Narrow(f, low1, high1, addr1) = Narrow(f1, low1, high1, addr1)
      <4>1. \A l \in 1 .. N + 1, h \in 0 .. N :
                (low1 <= high1 /\ h - l < high1 - low1) => f[<<l, h, addr1>>] = f1[<<l, h, addr1>>]
        BY <3>3
      <4> QED
        BY <4>1, NarrowLocal
    <3> QED
      BY <3>1, <3>2, <3>3 DEF val
  <2> HIDE DEF val
  <2> QED
    BY <2>1
<1>4. Search = CHOOSE g : Solves(g)
  BY DEF Search
<1> HIDE DEF Solves, f1
<1>5. Solves(Search)
  BY <1>3, <1>4
<1>6. Search = [q \in SearchRanges |-> val(Search, q)]
  BY <1>5 DEF Solves
<1> HIDE DEF val
<1>7. Search[<<low, high, addr>>] = val(Search, <<low, high, addr>>)
  BY <1>6 DEF SearchRanges, N
<1> QED
  BY <1>7 DEF val
(* The database is sorted: not only neighbours are in order.               *)
LEMMA Sorted ==
    ASSUME NEW i \in 1 .. N, NEW j \in 1 .. N, i < j
    PROVE  FuncDB[i].func_addr < FuncDB[j].func_addr
<1> DEFINE A(k) == FuncDB[k].func_addr
           T == { k \in Nat : k \in i + 1 .. N /\ ~(A(i) < A(k)) }
<1>1. /\ N \in Nat /\ \A k \in 1 .. N : A(k) \in Nat
      /\ \A k \in 1 .. N - 1 : A(k) < A(k + 1)
  BY DBFacts
<1> SUFFICES A(i) < A(j)
  OBVIOUS
<1> HIDE DEF A
<1> SUFFICES ASSUME T # {} PROVE FALSE
  BY <1>1
<1>2. PICK k \in T : \A m \in T : k <= m
  BY NatMin
<1>3. k # i + 1
  BY <1>1, <1>2
<1>4. k - 1 \in i + 1 .. N /\ k - 1 \notin T
  BY <1>1, <1>2, <1>3
<1>5. A(i) < A(k - 1) /\ A(k - 1) < A((k - 1) + 1)
  BY <1>1, <1>4
<1>6. A(i) < A(k)
  BY <1>1, <1>2, <1>4, <1>5
<1> QED
  BY <1>2, <1>6

Found(low, high, addr) ==
    LET r == Search[<<low, high, addr>>]
    IN  IF \E k \in low .. high : FuncDB[k].func_addr = addr
        THEN r \in low .. high /\ FuncDB[r].func_addr = addr ELSE r = 0

(* What the search returns between any two places.                         *)
LEMMA SearchFound ==
    ASSUME NEW low \in 1 .. N + 1, NEW high \in 0 .. N, NEW addr \in Nat
    PROVE  Found(low, high, addr)
<1> DEFINE T == { n \in Nat : \E l \in 1 .. N + 1, h \in 0 .. N :
                                n = Entries(l, h) /\ ~Found(l, h, addr) }
<1>1. \A l \in 1 .. N + 1, h \in 0 .. N : Entries(l, h) \in Nat
  BY DBFacts DEF Entries
<1> SUFFICES ASSUME T # {} PROVE FALSE
  BY <1>1
<1>2. PICK n \in T : \A m \in T : n <= m
  BY NatMin
<1>3. PICK l \in 1 .. N + 1, h \in 0 .. N : n = Entries(l, h) /\ ~Found(l, h, addr)
  BY <1>2
<1>4. \A l1 \in 1 .. N + 1, h1 \in 0 .. N : Entries(l1, h1) < n => Found(l1, h1, addr)
  <2>1. ASSUME NEW l1 \in 1 .. N + 1, NEW h1 \in 0 .. N, Entries(l1, h1) < n, ~Found(l1, h1, addr)
        PROVE  FALSE
    <3>1. Entries(l1, h1) \in T
      BY <1>1, <2>1
    <3> QED
      BY <1>1, <1>2, <2>1, <3>1
  <2> QED
    BY <2>1
<1> HIDE DEF T
<1>5. Search[<<l, h, addr>>] = Narrow(Search, l, h, addr)
  BY SearchLoops
<1>6. CASE l > h
  <2>1. Search[<<l, h, addr>>] = 0
    BY <1>5, <1>6 DEF Narrow
  <2>2. ~\E k \in l .. h : FuncDB[k].func_addr = addr
    BY <1>6, DBFacts
  <2> QED
    BY <1>3, <2>1, <2>2 DEF Found
<1>7. CASE l <= h
  <2> DEFINE mid == (l + h) \div 2
  <2>1. /\ mid \in 1 .. N /\ l <= mid /\ mid <= h
        /\ mid + 1 \in 1 .. N + 1 /\ mid - 1 \in 0 .. N
    BY <1>7, Middle
  <2>2. Search[<<l, h, addr>>] =
            IF FuncDB[mid].func_addr < addr THEN Search[<<mid + 1, h, addr>>]
            ELSE IF FuncDB[mid].func_addr > addr THEN Search[<<l, mid - 1, addr>>]
            ELSE mid
    BY <1>5, <1>7, DBFacts DEF Narrow
  <2> HIDE DEF mid
  <2>3. Found(mid + 1, h, addr) /\ Found(l, mid - 1, addr)
    <3>1. Entries(mid + 1, h) < n /\ Entries(l, mid - 1) < n
      BY <1>3, <1>7, <2>1, DBFacts DEF Entries
    <3> QED
      BY <1>4, <2>1, <3>1
  <2>4. FuncDB[mid].func_addr \in Nat
    BY <2>1, DBFacts
  <2>5. CASE FuncDB[mid].func_addr < addr
    <3>1. \A k \in l .. mid : FuncDB[k].func_addr # addr
      BY <2>1, <2>4, <2>5, Sorted, DBFacts
    <3>2. Search[<<l, h, addr>>] = Search[<<mid + 1, h, addr>>]
      BY <2>2, <2>5
    <3>3. (\E k \in l .. h : FuncDB[k].func_addr = addr)
            <=> \E k \in mid + 1 .. h : FuncDB[k].func_addr = addr
      BY <2>1, <3>1, DBFacts
    <3>4. Found(l, h, addr)
      BY <2>1, <2>3, <3>2, <3>3, DBFacts DEF Found
    <3> QED
      BY <1>3, <3>4
  <2>6. CASE FuncDB[mid].func_addr > addr
    <3>1. \A k \in mid .. h : FuncDB[k].func_addr # addr
      BY <2>1, <2>4, <2>6, Sorted, DBFacts
    <3>2. Search[<<l, h, addr>>] = Search[<<l, mid - 1, addr>>]
      BY <2>2, <2>4, <2>6
    <3>3. (\E k \in l .. h : FuncDB[k].func_addr = addr)
            <=> \E k \in l .. mid - 1 : FuncDB[k].func_addr = addr
      BY <2>1, <3>1, DBFacts
    <3>4. Found(l, h, addr)
      BY <2>1, <2>3, <3>2, <3>3, DBFacts DEF Found
    <3> QED
      BY <1>3, <3>4
  <2>7. CASE FuncDB[mid].func_addr = addr
    <3>1. Search[<<l, h, addr>>] = mid
      BY <2>2, <2>4, <2>7
    <3>2. mid \in l .. h
      BY <2>1
    <3>3. Found(l, h, addr)
      BY <2>7, <3>1, <3>2 DEF Found
    <3> QED
      BY <1>3, <3>3
  <2> QED
    BY <2>4, <2>5, <2>6, <2>7
<1> QED
  BY <1>6, <1>7, DBFacts

(***************************************************************************)
(* FindFuncCallInfo is correct for every sorted database: it returns the   *)
(* place of the function if the database has it, and 0 (-1 in the code)    *)
(* only if it has not.                                                     *)
(***************************************************************************)
THEOREM SearchCorrect ==
    \A addr \in Nat :
        IF \E k \in DOMAIN FuncDB : FuncDB[k].func_addr = addr
        THEN /\ FindFuncCallInfo(addr) \in DOMAIN FuncDB
             /\ FuncDB[FindFuncCallInfo(addr)].func_addr = addr
        ELSE FindFuncCallInfo(addr) = 0
<1> SUFFICES ASSUME NEW addr \in Nat
             PROVE  IF \E k \in DOMAIN FuncDB : FuncDB[k].func_addr = addr
                    THEN /\ FindFuncCallInfo(addr) \in DOMAIN FuncDB
                         /\ FuncDB[FindFuncCallInfo(addr)].func_addr = addr
                    ELSE FindFuncCallInfo(addr) = 0
  OBVIOUS
<1>1. 1 \in 1 .. N + 1 /\ N \in 0 .. N
  BY DBFacts
<1>2. Found(1, N, addr)
  BY <1>1, SearchFound
<1>3. FindFuncCallInfo(addr) = Search[<<1, N, addr>>]
  BY DEF FindFuncCallInfo, N
<1> QED
  BY <1>2, <1>3, DBFacts DEF Found

(* So the calls of a function are calls of the database, in sequence.      *)
LEMMA CallsFacts ==
    ASSUME NEW addr \in Nat
    PROVE  CallsOf(addr) \in Seq(AllCalls)
<1> DEFINE idx == FindFuncCallInfo(addr)
<1>1. idx = 0 \/ idx \in 1 .. N
  BY SearchCorrect, DBFacts
<1> HIDE DEF idx
<1>2. CASE idx \in 1 .. N
  <2> DEFINE calls == FuncDB[idx].calls
  <2>1. calls \in Seq(CallSites) /\ ToSet(calls) \subseteq AllCalls
    BY <1>2, DBFacts DEF AllCalls
  <2> HIDE DEF calls
  <2>2. Len(calls) \in Nat /\ DOMAIN calls = 1 .. Len(calls)
    BY <2>1, LenProperties
  <2>3. \A k \in 1 .. Len(calls) : calls[k] \in AllCalls
    BY <2>1, <2>2 DEF ToSet
  <2>4. calls \in Seq(AllCalls)
    BY <2>1, <2>2, <2>3
  <2> QED
    BY <1>2, <2>4, DBFacts DEF CallsOf, calls, idx
<1>3. CASE idx = 0
  BY <1>3 DEF CallsOf, idx
<1> QED
  BY <1>1, <1>2, <1>3

-----------------------------------------------------------------------------
(* The invariant                                                           *)

Stops == {"int3 array used up", "new_pages used up", "memcpy to NULL", "addr not found",
          "need a disassembler"}

Shape ==
    /\ redir \in Seq(Int) /\ hooks \in Seq(SUBSET Nat) /\ Len(hooks) = Len(redir)
    /\ probes \in Seq(AllCalls) /\ todo \in Seq(AllCalls)
    /\ ept \in [ToSet(redir) -> DOMAIN redir]
    /\ first \in BOOLEAN /\ status \in {"run"} \cup Stops

(* A page leaves the pool for every copy.                                  *)
Pool == pool = MAX_Redir_Code_Page - 1 - Len(redir) /\ pool >= 0

(* The copy in use is the newest one, and the one its page is mapped to.   *)
Newest ==
    redir # <<>> => crt_redir_idx = Len(redir) /\ ept[redir[Len(redir)]] = Len(redir)

(* A page is mapped to a copy of itself.                                   *)
Mapped == \A p \in DOMAIN ept : redir[ept[p]] = p

(* After the first call of a function there is a copy to compare with.     *)
Started == status = "run" /\ todo # <<>> /\ ~first => redir # <<>>

(* Each call of the function entered last is probed or waits for it.       *)
Expected ==
    pushed # <<>> /\ status = "run" =>
        ToSet(CallsOf(pushed.dest)) \subseteq ToSet(probes) \cup ToSet(todo)

IInv ==
    /\ Shape /\ Pool /\ Newest /\ Mapped /\ Started
    /\ HooksInOwnPage /\ TablesBounded /\ EmulatesTheCall
    /\ Expected /\ ProbesStayArmed

LEMMA Sizes == MAX_INT3 \in Nat /\ MAX_Redir_Code_Page \in Nat
BY FatAssumption

LEMMA AllCallsFacts == \A call \in AllCalls : call.addr \in Nat /\ call.len \in Nat /\ call.dest \in Nat
<1>1. ASSUME NEW i \in DOMAIN FuncDB, NEW call \in ToSet(FuncDB[i].calls)
      PROVE  call \in CallSites
  <2>1. FuncDB[i].calls \in Seq(CallSites)
    BY DBFacts
  <2> QED
    BY <2>1 DEF ToSet
<1>2. \A call \in CallSites : call.addr \in Nat /\ call.len \in Nat /\ call.dest \in Nat
  BY DEF CallSites
<1>3. ASSUME NEW a \in Starts PROVE [addr |-> a, len |-> 5, dest |-> StartDest] \in CallSites
  BY FatAssumption DEF CallSites
<1>4. AllCalls \subseteq CallSites
  <2> SUFFICES ASSUME NEW call \in AllCalls PROVE call \in CallSites
    OBVIOUS
  <2>1. CASE call \in UNION { ToSet(FuncDB[i].calls) : i \in DOMAIN FuncDB }
    <3>1. PICK i \in DOMAIN FuncDB : call \in ToSet(FuncDB[i].calls)
      BY <2>1
    <3> QED
      BY <1>1, <3>1
  <2>2. CASE call \in { [addr |-> a, len |-> 5, dest |-> StartDest] : a \in Starts }
    <3>1. PICK a \in Starts : call = [addr |-> a, len |-> 5, dest |-> StartDest]
      BY <2>2
    <3> QED
      BY <1>3, <3>1
  <2> QED
    BY <2>1, <2>2 DEF AllCalls, StartCalls
<1> QED
  BY <1>2, <1>4

LEMMA PageInt == \A a \in Nat : PageOf(a) \in Int
BY FatAssumption DEF PageOf

(* Head and tail of a sequence, as sets.                                   *)
LEMMA TailSet ==
    ASSUME NEW S, NEW s \in Seq(S), s # <<>>
    PROVE  /\ Head(s) \in S /\ Tail(s) \in Seq(S)
           /\ ToSet(s) \subseteq {Head(s)} \cup ToSet(Tail(s))
<1>1. /\ Head(s) \in S /\ Tail(s) \in Seq(S) /\ Len(Tail(s)) = Len(s) - 1
      /\ \A i \in 1 .. Len(Tail(s)) : Tail(s)[i] = s[i + 1]
  BY HeadTailProperties
<1>2. Len(s) \in Nat /\ Len(s) # 0 /\ DOMAIN s = 1 .. Len(s) /\ DOMAIN Tail(s) = 1 .. Len(s) - 1
  BY <1>1, LenProperties, EmptySeq
<1>3. ASSUME NEW i \in 1 .. Len(s) PROVE s[i] \in {Head(s)} \cup ToSet(Tail(s))
  <2>1. CASE i = 1
    BY <2>1
  <2>2. CASE i # 1
    <3>1. i - 1 \in 1 .. Len(s) - 1 /\ Tail(s)[i - 1] = s[(i - 1) + 1]
      BY <1>1, <1>2, <2>2
    <3>2. s[i] = Tail(s)[i - 1]
      BY <1>2, <3>1
    <3> QED
      BY <1>2, <3>1, <3>2 DEF ToSet
  <2> QED
    BY <2>1, <2>2
<1> QED
  BY <1>1, <1>2, <1>3 DEF ToSet

LEMMA AppendSet ==
    ASSUME NEW S, NEW s \in Seq(S), NEW e \in S
    PROVE  /\ Append(s, e) \in Seq(S) /\ Len(Append(s, e)) = Len(s) + 1
           /\ \A i \in 1 .. Len(s) : Append(s, e)[i] = s[i]
           /\ Append(s, e)[Len(s) + 1] = e
           /\ ToSet(Append(s, e)) = ToSet(s) \cup {e}
<1>1. /\ Append(s, e) \in Seq(S) /\ Len(Append(s, e)) = Len(s) + 1
      /\ \A i \in 1 .. Len(s) : Append(s, e)[i] = s[i]
      /\ Append(s, e)[Len(s) + 1] = e
  BY AppendProperties
<1>2. /\ Len(s) \in Nat /\ DOMAIN s = 1 .. Len(s)
      /\ DOMAIN Append(s, e) = (1 .. Len(s)) \cup {Len(s) + 1}
  BY <1>1, LenProperties
<1> QED
  BY <1>1, <1>2 DEF ToSet

-----------------------------------------------------------------------------
(* The next call is probed in copy n, new or not, of its page.             *)
Probed(call, page, n) ==
    /\ n \in Nat \ {0} /\ n <= MAX_Redir_Code_Page - 1 /\ Len(redir) \in {n - 1, n}
    /\ redir' \in Seq(Int) /\ Len(redir') = n /\ redir'[n] = page
    /\ hooks' \in Seq(SUBSET Nat) /\ Len(hooks') = n
    /\ \A k \in 1 .. n - 1 : redir'[k] = redir[k] /\ hooks'[k] = hooks[k]
    /\ \A k \in DOMAIN redir : redir'[k] = redir[k] /\ hooks[k] \subseteq hooks'[k]
    /\ call.addr \in hooks'[n]
    /\ \A h \in hooks'[n] : h = call.addr \/ \E k \in DOMAIN redir : redir[k] = page /\ h \in hooks[k]
    /\ DOMAIN ept' = DOMAIN ept \cup {page} /\ ToSet(redir') = ToSet(redir) \cup {page}
    /\ ept' \in [DOMAIN ept' -> 1 .. n]
    /\ ept'[page] = n /\ \A p \in DOMAIN ept : p # page => ept'[p] = ept[p]
    /\ ReadsSeeCopy /\ page \in DOMAIN ept => hooks[ept[page]] \subseteq hooks'[n]
    /\ crt_redir_idx' = n /\ pool' = MAX_Redir_Code_Page - 1 - n
    /\ probes' = Append(probes, call)
    /\ status' = IF Len(probes) + 1 >= MAX_INT3 THEN "int3 array used up" ELSE status

(* The copy in use is of the page: the int3 is added to it.                *)
LEMMA SamePage ==
    ASSUME IInv, NEW call \in AllCalls, status = "run", todo # <<>>,
           ~NeedsRedirect(call.addr), InstallPerInt3(call, hooks, crt_redir_idx),
           UNCHANGED <<pool, redir, crt_redir_idx, ept>>
    PROVE  Probed(call, PageOf(call.addr), Len(redir))
<1> DEFINE page == PageOf(call.addr)
           n == Len(redir)
<1>1. redir \in Seq(Int) /\ hooks \in Seq(SUBSET Nat) /\ Len(hooks) = n
  BY DEF IInv, Shape
<1>2. n \in Nat /\ DOMAIN redir = 1 .. n /\ DOMAIN hooks = 1 .. n
  BY <1>1, LenProperties
<1>3. redir # <<>> /\ page = redir[crt_redir_idx]
  BY DEF IInv, Started, NeedsRedirect
<1>4. n # 0
  BY <1>1, <1>3, EmptySeq
<1>5. crt_redir_idx = n /\ ept[redir[n]] = n
  BY <1>3 DEF IInv, Newest
<1>6. call.addr \in Nat
  BY AllCallsFacts
<1>7. hooks' = [hooks EXCEPT ![n] = @ \cup {call.addr}]
  BY <1>5 DEF InstallPerInt3
<1>8. n \in 1 .. Len(hooks) /\ hooks[n] \cup {call.addr} \in SUBSET Nat
  BY <1>1, <1>2, <1>4, <1>6
<1>9. /\ hooks' \in Seq(SUBSET Nat) /\ Len(hooks') = n
      /\ hooks'[n] = hooks[n] \cup {call.addr}
      /\ \A k \in 1 .. n - 1 : hooks'[k] = hooks[k]
  <2> DEFINE e == hooks[n] \cup {call.addr}
  <2>1. hooks' = [hooks EXCEPT ![n] = e] /\ e \in SUBSET Nat
    BY <1>7, <1>8
  <2> HIDE DEF e, n
  <2>2. /\ hooks' \in Seq(SUBSET Nat) /\ Len(hooks') = Len(hooks)
        /\ \A k \in 1 .. Len(hooks) : hooks'[k] = IF k = n THEN e ELSE hooks[k]
    BY <1>1, <1>8, <2>1, ExceptSeq
  <2> QED
    BY <1>1, <1>2, <1>4, <2>2 DEF e
<1>10. ept \in [ToSet(redir) -> 1 .. n] /\ page \in ToSet(redir)
  BY <1>2, <1>3, <1>4, <1>5 DEF IInv, Shape, ToSet
<1>11. ept[page] = n
  BY <1>3, <1>5
<1>12. n <= MAX_Redir_Code_Page - 1 /\ pool = MAX_Redir_Code_Page - 1 - n
  BY <1>2, FatAssumption DEF IInv, Pool
<1>13. redir[n] = page
  BY <1>3, <1>5
<1>14. DOMAIN ept = ToSet(redir)
  BY <1>10
<1> HIDE DEF page, n
<1>15. Probed(call, page, n)
  <2>1. \A h \in hooks'[n] : h = call.addr \/ \E k \in DOMAIN redir : redir[k] = page /\ h \in hooks[k]
    BY <1>2, <1>4, <1>9, <1>13
  <2>2. /\ DOMAIN ept' = DOMAIN ept \cup {page} /\ ToSet(redir') = ToSet(redir) \cup {page}
        /\ ept' \in [DOMAIN ept' -> 1 .. n]
    BY <1>10, <1>14
  <2>3. hooks[ept[page]] \subseteq hooks'[n]
    BY <1>9, <1>11
  <2>4. /\ probes' = Append(probes, call)
        /\ status' = IF Len(probes) + 1 >= MAX_INT3 THEN "int3 array used up" ELSE status
    BY DEF InstallPerInt3
  <2>5. redir' = redir /\ Len(redir) = n
    BY DEF n
  <2>6. \A k \in DOMAIN redir : redir'[k] = redir[k] /\ hooks[k] \subseteq hooks'[k]
    BY <1>2, <1>9, <2>5
  <2> QED
    BY <1>1, <1>2, <1>4, <1>5, <1>9, <1>11, <1>12, <1>13, <2>1, <2>2, <2>3, <2>4, <2>5, <2>6 DEF Probed
<1> QED
  BY <1>15 DEF page, n

(* The page is copied: the copy has the int3 bytes that a read of the page *)
(* shows, and the new one.                                                 *)
LEMMA NewPage ==
    ASSUME IInv, NEW call \in AllCalls, RedirCodePageHyperCall = "run",
           Redirects(PageOf(call.addr)),
           InstallPerInt3(call, Append(hooks, HooksRead(PageOf(call.addr))), Len(hooks) + 1)
    PROVE  Probed(call, PageOf(call.addr), Len(redir) + 1)
<1> DEFINE page == PageOf(call.addr)
           m == Len(redir)
           read == HooksRead(page)
           copies == Append(hooks, read)
<1>1. redir \in Seq(Int) /\ hooks \in Seq(SUBSET Nat) /\ Len(hooks) = m
  BY DEF IInv, Shape
<1>2. m \in Nat /\ DOMAIN redir = 1 .. m /\ DOMAIN hooks = 1 .. m
  BY <1>1, LenProperties
<1>3. call.addr \in Nat /\ page \in Int
  BY AllCallsFacts, PageInt
<1>4. ept \in [ToSet(redir) -> 1 .. m]
  BY <1>2 DEF IInv, Shape
<1>5. \A p \in DOMAIN ept : ept[p] \in 1 .. m /\ redir[ept[p]] = p
  BY <1>4 DEF IInv, Mapped
<1>6. /\ read \in SUBSET Nat
      /\ \A h \in read : \E k \in DOMAIN redir : redir[k] = page /\ h \in hooks[k]
      /\ ReadsSeeCopy /\ page \in DOMAIN ept => hooks[ept[page]] \subseteq read
  BY <1>1, <1>2, <1>5 DEF HooksRead
<1> HIDE DEF page, m, read
<1>7. /\ copies \in Seq(SUBSET Nat) /\ Len(copies) = m + 1
      /\ \A k \in 1 .. m : copies[k] = hooks[k]
      /\ copies[m + 1] = read
  BY <1>1, <1>6, AppendSet
<1>8. hooks' = [copies EXCEPT ![m + 1] = @ \cup {call.addr}]
  BY <1>1 DEF InstallPerInt3, page, read
<1> HIDE DEF copies
<1>9. m + 1 \in 1 .. Len(copies) /\ read \cup {call.addr} \in SUBSET Nat
  BY <1>2, <1>3, <1>6, <1>7
<1>10. /\ hooks' \in Seq(SUBSET Nat) /\ Len(hooks') = m + 1
       /\ hooks'[m + 1] = read \cup {call.addr}
       /\ \A k \in 1 .. m : hooks'[k] = hooks[k]
  BY <1>2, <1>7, <1>8, <1>9, ExceptSeq
<1>11. redir' = Append(redir, page) /\ pool' = pool - 1 /\ crt_redir_idx' = m + 1
  BY DEF Redirects, crt_max_redir_idx, page, m
<1>12. /\ redir' \in Seq(Int) /\ Len(redir') = m + 1 /\ redir'[m + 1] = page
       /\ \A k \in 1 .. m : redir'[k] = redir[k]
       /\ ToSet(redir') = ToSet(redir) \cup {page}
  BY <1>1, <1>3, <1>11, AppendSet DEF m
<1>13. ept' = [p \in DOMAIN ept \cup {page} |-> IF p = page THEN m + 1 ELSE ept[p]]
  BY DEF Redirects, crt_max_redir_idx, page, m
<1>14. /\ DOMAIN ept' = DOMAIN ept \cup {page} /\ ept' \in [DOMAIN ept' -> 1 .. m + 1]
       /\ ept'[page] = m + 1 /\ \A p \in DOMAIN ept : p # page => ept'[p] = ept[p]
  BY <1>2, <1>5, <1>13
<1>15. pool \in Int /\ pool >= 1 /\ pool = MAX_Redir_Code_Page - 1 - m
  BY <1>2, FatAssumption DEF IInv, Pool, RedirCodePageHyperCall, m
<1>16. m + 1 \in Nat \ {0} /\ m + 1 <= MAX_Redir_Code_Page - 1
       /\ pool' = MAX_Redir_Code_Page - 1 - (m + 1)
  BY <1>2, <1>11, <1>15, FatAssumption
<1>17. /\ probes' = Append(probes, call)
       /\ status' = IF Len(probes) + 1 >= MAX_INT3 THEN "int3 array used up" ELSE status
  BY DEF InstallPerInt3
<1>18. Probed(call, page, m + 1)
  <2>1. \A h \in hooks'[m + 1] : h = call.addr \/ \E k \in DOMAIN redir : redir[k] = page /\ h \in hooks[k]
    BY <1>6, <1>10
  <2>2. /\ call.addr \in hooks'[m + 1]
        /\ ReadsSeeCopy /\ page \in DOMAIN ept => hooks[ept[page]] \subseteq hooks'[m + 1]
    BY <1>6, <1>10
  <2>3. Len(redir) \in {(m + 1) - 1, m + 1} /\ 1 .. (m + 1) - 1 = 1 .. m
    BY <1>2 DEF m
  <2> QED
    BY <1>2, <1>10, <1>11, <1>12, <1>14, <1>16, <1>17, <2>1, <2>2, <2>3 DEF Probed
<1> QED
  BY <1>18 DEF page, m

LEMMA ProbedKeeps ==
    ASSUME IInv, NEW call \in AllCalls, NEW n, Probed(call, PageOf(call.addr), n),
           status = "run", todo # <<>>, call = Head(todo), todo' = Tail(todo),
           first' = FALSE, UNCHANGED pushed
    PROVE  IInv'
<1> DEFINE page == PageOf(call.addr)
<1>1. /\ redir \in Seq(Int) /\ hooks \in Seq(SUBSET Nat) /\ Len(hooks) = Len(redir)
      /\ probes \in Seq(AllCalls) /\ todo \in Seq(AllCalls)
      /\ ept \in [ToSet(redir) -> DOMAIN redir]
  BY DEF IInv, Shape
<1>2. Len(redir) \in Nat /\ DOMAIN redir = 1 .. Len(redir)
  BY <1>1, LenProperties
<1>3. /\ todo' \in Seq(AllCalls) /\ ToSet(todo) \subseteq {call} \cup ToSet(todo')
  BY <1>1, TailSet
<1>4. /\ probes' = Append(probes, call) /\ probes' \in Seq(AllCalls)
      /\ Len(probes') = Len(probes) + 1 /\ ToSet(probes') = ToSet(probes) \cup {call}
      /\ \A i \in 1 .. Len(probes) : probes'[i] = probes[i]
      /\ probes'[Len(probes) + 1] = call
  <2>1. probes' = Append(probes, call)
    BY DEF Probed
  <2> QED
    BY <1>1, <2>1, AppendSet
<1>5. /\ Len(probes) \in Nat /\ DOMAIN probes = 1 .. Len(probes)
      /\ DOMAIN probes' = (1 .. Len(probes)) \cup {Len(probes) + 1}
  BY <1>1, <1>4, LenProperties
<1>6. /\ n \in Nat \ {0} /\ n <= MAX_Redir_Code_Page - 1 /\ Len(redir) \in {n - 1, n}
      /\ redir' \in Seq(Int) /\ Len(redir') = n /\ redir'[n] = page /\ DOMAIN redir' = 1 .. n
      /\ hooks' \in Seq(SUBSET Nat) /\ Len(hooks') = n
  BY LenProperties DEF Probed
<1>7. /\ \A k \in 1 .. n - 1 : redir'[k] = redir[k] /\ hooks'[k] = hooks[k]
      /\ \A k \in DOMAIN redir : redir'[k] = redir[k] /\ hooks[k] \subseteq hooks'[k]
      /\ call.addr \in hooks'[n]
      /\ \A h \in hooks'[n] : h = call.addr \/ \E k \in DOMAIN redir : redir[k] = page /\ h \in hooks[k]
  BY DEF Probed
<1>8. /\ DOMAIN ept' = DOMAIN ept \cup {page} /\ ToSet(redir') = ToSet(redir) \cup {page}
      /\ ept' \in [DOMAIN ept' -> 1 .. n]
      /\ ept'[page] = n /\ \A p \in DOMAIN ept : p # page => ept'[p] = ept[p]
      /\ ReadsSeeCopy /\ page \in DOMAIN ept => hooks[ept[page]] \subseteq hooks'[n]
  BY DEF Probed
<1>9. /\ crt_redir_idx' = n /\ pool' = MAX_Redir_Code_Page - 1 - n
      /\ status' = IF Len(probes) + 1 >= MAX_INT3 THEN "int3 array used up" ELSE status
  BY DEF Probed
<1> HIDE DEF page
<1>0. n \in Nat /\ n >= 1 /\ n <= MAX_Redir_Code_Page - 1 /\ (Len(redir) = n - 1 \/ Len(redir) = n)
  <2>1. n \in Nat /\ n # 0
    BY <1>6
  <2> QED
    BY <1>6, <2>1
<1>10. Shape'
  <2>1. DOMAIN ept = ToSet(redir)
    BY <1>1
  <2>2. ept' \in [ToSet(redir') -> DOMAIN redir']
    BY <1>6, <1>8, <2>1
  <2> QED
    BY <1>3, <1>4, <1>6, <1>9, <2>2 DEF Shape, Stops
<1>11. Pool' /\ Newest'
  <2>1. Pool'
    <3>1. Len(redir') = n /\ pool' = MAX_Redir_Code_Page - 1 - n
      BY <1>6, <1>9
    <3>2. MAX_Redir_Code_Page - 1 - n >= 0
      BY <1>0, Sizes
    <3> QED
      BY <3>1, <3>2 DEF Pool
  <2>2. Newest'
    BY <1>6, <1>8, <1>9 DEF Newest
  <2> QED
    BY <2>1, <2>2
<1>12. Mapped'
  BY <1>1, <1>6, <1>7, <1>8 DEF IInv, Mapped
<1>13. Started'
  <2>1. redir' # <<>>
    BY <1>6, EmptySeq
  <2> QED
    BY <2>1 DEF Started
<1>14. HooksInOwnPage'
  <2>1. \A h : ProbesAt(h) # {} => ProbesAt(h)' # {}
    BY <1>4, <1>5 DEF ProbesAt
  <2>2. ProbesAt(call.addr)' # {}
    BY <1>4, <1>5 DEF ProbesAt
  <2>3. \A k \in DOMAIN redir : \A h \in hooks[k] : PageOf(h) = redir[k] /\ ProbesAt(h) # {}
    BY DEF IInv, HooksInOwnPage
  <2>4. ASSUME NEW k \in 1 .. n - 1, NEW h \in hooks'[k]
        PROVE  PageOf(h) = redir'[k] /\ ProbesAt(h)' # {}
    <3>1. k \in DOMAIN redir
      <4>1. k \in 1 .. Len(redir)
        BY <1>0
      <4> QED
        BY <1>2, <4>1
    <3>2. h \in hooks[k] /\ redir'[k] = redir[k]
      BY <1>7, <2>4
    <3> QED
      BY <2>1, <2>3, <3>1, <3>2
  <2>5. ASSUME NEW h \in hooks'[n]
        PROVE  PageOf(h) = redir'[n] /\ ProbesAt(h)' # {}
    <3>1. CASE h = call.addr
      BY <1>6, <2>2, <3>1 DEF page
    <3>2. CASE \E k \in DOMAIN redir : redir[k] = page /\ h \in hooks[k]
      BY <1>6, <2>1, <2>3, <3>2
    <3> QED
      BY <1>7, <3>1, <3>2
  <2>6. \A k \in DOMAIN redir' : k \in 1 .. n - 1 \/ k = n
    BY <1>6
  <2> QED
    BY <2>4, <2>5, <2>6 DEF HooksInOwnPage, PageOf
<1>15. TablesBounded'
  <2>0. Len(probes) \in Nat
    BY <1>5
  <2>1. Len(probes) < MAX_INT3
    <3>1. TablesBounded
      BY DEF IInv
    <3>2. Len(probes) <= MAX_INT3 /\ Len(probes) # MAX_INT3
      BY <3>1 DEF TablesBounded
    <3> QED
      BY <2>0, <3>2, Sizes
  <2>2. Len(probes') <= MAX_INT3 /\ (Len(probes') = MAX_INT3 => status' # "run")
    <3>1. Len(probes') = Len(probes) + 1
      BY <1>4
    <3>2. Len(probes) + 1 = MAX_INT3 => status' # "run"
      <4>1. Len(probes) + 1 = MAX_INT3 => Len(probes) + 1 >= MAX_INT3
        BY <2>0, Sizes
      <4>2. Len(probes) + 1 >= MAX_INT3 => status' = "int3 array used up"
        BY <1>9
      <4> QED
        BY <4>1, <4>2
    <3> QED
      BY <2>0, <2>1, <3>1, <3>2, Sizes
  <2>3. Len(redir') <= MAX_Redir_Code_Page
    BY <1>6, Sizes
  <2> QED
    BY <2>2, <2>3 DEF TablesBounded
<1>16. EmulatesTheCall'
  BY DEF IInv, EmulatesTheCall, Probed
<1>17. Expected'
  <2>1. status' = "run" => status = "run"
    OBVIOUS
  <2> QED
    BY <1>3, <1>4 DEF IInv, Expected
<1>18. ProbesStayArmed'
  <2> SUFFICES ASSUME ReadsSeeCopy, NEW i \in DOMAIN probes' PROVE (probes'[i].addr \in Armed')
    BY DEF ProbesStayArmed
  <2>1. \A p \in DOMAIN ept : hooks[ept[p]] \subseteq Armed'
    <3> SUFFICES ASSUME NEW p \in DOMAIN ept, NEW h \in hooks[ept[p]] PROVE h \in Armed'
      OBVIOUS
    <3>1. p \in DOMAIN ept' /\ ept[p] \in DOMAIN redir
      BY <1>1, <1>8
    <3>2. h \in hooks'[ept'[p]]
      BY <1>7, <1>8, <3>1
    <3> QED
      BY <3>1, <3>2 DEF Armed
  <2>2. call.addr \in Armed'
    BY <1>7, <1>8 DEF Armed
  <2>3. CASE i \in 1 .. Len(probes)
    <3>1. probes[i].addr \in Armed /\ probes'[i] = probes[i]
      BY <1>4, <1>5, <2>3 DEF IInv, ProbesStayArmed
    <3>2. PICK p \in DOMAIN ept : probes[i].addr \in hooks[ept[p]]
      BY <3>1 DEF Armed
    <3> QED
      BY <2>1, <3>1, <3>2
  <2>4. CASE i = Len(probes) + 1
    BY <1>4, <2>2, <2>4
  <2> QED
    BY <1>5, <2>3, <2>4
<1> QED
  BY <1>10, <1>11, <1>12, <1>13, <1>14, <1>15, <1>16, <1>17, <1>18 DEF IInv

LEMMA InstallKeeps == ASSUME IInv, InstallNext PROVE IInv'
<1> DEFINE call == Head(todo)
<1>1. /\ status = "run" /\ todo # <<>> /\ todo' = Tail(todo) /\ first' = FALSE
      /\ UNCHANGED pushed
  BY DEF InstallNext
<1>2. todo \in Seq(AllCalls)
  BY DEF IInv, Shape
<1>3. call \in AllCalls
  BY <1>1, <1>2, TailSet
<1>4. CASE /\ ~NeedsRedirect(call.addr)
           /\ InstallPerInt3(call, hooks, crt_redir_idx)
           /\ UNCHANGED <<pool, redir, crt_redir_idx, ept>>
  <2>1. Probed(call, PageOf(call.addr), Len(redir))
    BY <1>1, <1>3, <1>4, SamePage
  <2> HIDE DEF call
  <2> QED
    BY <1>1, <1>3, <2>1, ProbedKeeps DEF call
<1>5. CASE /\ RedirCodePageHyperCall = "run"
           /\ Redirects(PageOf(call.addr))
           /\ InstallPerInt3(call, Append(hooks, HooksRead(PageOf(call.addr))), Len(hooks) + 1)
  <2>1. Probed(call, PageOf(call.addr), Len(redir) + 1)
    BY <1>3, <1>5, NewPage
  <2> HIDE DEF call
  <2> QED
    BY <1>1, <1>3, <2>1, ProbedKeeps DEF call
<1>6. CASE /\ RedirCodePageHyperCall # "run"
           /\ status' = RedirCodePageHyperCall
           /\ UNCHANGED <<pool, redir, crt_redir_idx, ept, probes, hooks>>
  <2>1. status' # "run" /\ status' \in Stops /\ status' # "addr not found"
    BY <1>6 DEF RedirCodePageHyperCall, Stops
  <2>2. todo' \in Seq(AllCalls)
    BY <1>1, <1>2, TailSet
  <2>3. Shape'
    BY <1>1, <1>6, <2>1, <2>2 DEF IInv, Shape
  <2>4. (Pool /\ Newest /\ Mapped /\ Started /\ Expected)'
    BY <1>1, <1>6, <2>1 DEF IInv, Pool, Newest, Mapped, Started, Expected
  <2>5. TablesBounded'
    BY <1>6, <2>1 DEF IInv, TablesBounded
  <2>7. HooksInOwnPage'
    BY <1>6 DEF IInv, HooksInOwnPage, ProbesAt, PageOf
  <2>8. ProbesStayArmed'
    BY <1>6 DEF IInv, ProbesStayArmed, Armed
  <2>6. EmulatesTheCall'
    BY <1>1, <2>1 DEF IInv, EmulatesTheCall
  <2> QED
    BY <2>3, <2>4, <2>5, <2>6, <2>7, <2>8 DEF IInv
<1> QED
  BY <1>4, <1>5, <1>6 DEF InstallNext

LEMMA StartKeeps == ASSUME IInv, NEW addr \in Starts, MoniStartOfSE(addr) PROVE IInv'
<1> DEFINE call == [addr |-> addr, len |-> 5, dest |-> StartDest]
<1>1. /\ status = "run" /\ todo = <<>> /\ todo' = <<call>> /\ first' = TRUE
      /\ UNCHANGED <<pool, redir, crt_redir_idx, hooks, ept, probes, pushed, status>>
  BY DEF MoniStartOfSE
<1>2. call \in AllCalls
  BY DEF AllCalls, StartCalls
<1> HIDE DEF call
<1>3. todo' \in Seq(AllCalls) /\ ToSet(todo) = {}
  BY <1>1, <1>2 DEF ToSet
<1>4. Shape'
  BY <1>1, <1>3 DEF IInv, Shape
<1>5. (Pool /\ Newest /\ Mapped /\ Started)'
  BY <1>1 DEF IInv, Pool, Newest, Mapped, Started
<1>6. Expected'
  <2>1. pushed # <<>> => ToSet(CallsOf(pushed.dest)) \subseteq ToSet(probes)
    BY <1>1, <1>3 DEF IInv, Expected
  <2> QED
    BY <1>1, <2>1 DEF Expected
<1>7. (HooksInOwnPage /\ TablesBounded /\ EmulatesTheCall /\ ProbesStayArmed)'
  BY <1>1 DEF IInv, HooksInOwnPage, ProbesAt, PageOf, TablesBounded, EmulatesTheCall, ProbesStayArmed, Armed
<1> QED
  BY <1>4, <1>5, <1>6, <1>7 DEF IInv

(* find_probe_idx returns a probe for the address, if there is one.        *)
LEMMA ProbeFound ==
    ASSUME IInv, NEW rip, ProbesAt(rip) # {}
    PROVE  /\ probes[find_probe_idx(rip)] \in AllCalls
           /\ probes[find_probe_idx(rip)].addr = rip
<1>1. probes \in Seq(AllCalls)
  BY DEF IInv, Shape
<1>2. ProbesAt(rip) \subseteq Nat
  BY <1>1, LenProperties DEF ProbesAt
<1>3. \E i \in ProbesAt(rip) : \A j \in ProbesAt(rip) : i <= j
  BY <1>2, NatMin
<1>4. find_probe_idx(rip) \in ProbesAt(rip)
  BY <1>3 DEF find_probe_idx
<1>5. find_probe_idx(rip) \in DOMAIN probes /\ probes[find_probe_idx(rip)].addr = rip
  BY <1>4 DEF ProbesAt
<1> QED
  BY <1>1, <1>5

(* An int3 that can trap is a recorded probe.                              *)
LEMMA ArmedKnown ==
    ASSUME IInv, NEW addr \in Armed
    PROVE  addr \in Nat /\ ProbesAt(addr) # {}
<1>1. PICK p \in DOMAIN ept : addr \in hooks[ept[p]]
  BY DEF Armed
<1>2. ept[p] \in DOMAIN redir
  BY <1>1 DEF IInv, Shape
<1>3. ProbesAt(addr) # {}
  BY <1>1, <1>2 DEF IInv, HooksInOwnPage
<1>4. probes[find_probe_idx(addr)] \in AllCalls /\ probes[find_probe_idx(addr)].addr = addr
  BY <1>3, ProbeFound
<1> QED
  BY <1>3, <1>4, AllCallsFacts

(* The step back leads from what the trap reports to the int3.             *)
LEMMA StepsBack == ASSUME NEW addr \in Nat PROVE saved_rip(SavedByTrap(addr)) = addr
BY DEF saved_rip, SavedByTrap

LEMMA TrapKeeps == ASSUME IInv, NEW addr \in Armed, INT3Handler(addr) PROVE IInv'
<1> DEFINE probe == probes[find_probe_idx(addr)]
<1>0. addr \in Nat /\ ProbesAt(addr) # {} /\ saved_rip(SavedByTrap(addr)) = addr
  BY ArmedKnown, StepsBack
<1>1. /\ status = "run" /\ todo = <<>> /\ status' = TrapOutcome(addr)
      /\ UNCHANGED <<pool, redir, crt_redir_idx, hooks, ept, probes>>
  BY <1>0 DEF INT3Handler
<1>2. status' \in {"run"} \cup Stops /\ status' # "addr not found"
  BY <1>0, <1>1 DEF TrapOutcome, Stops
<1>3. (Pool /\ Newest /\ Mapped /\ HooksInOwnPage /\ TablesBounded /\ ProbesStayArmed)'
  BY <1>1 DEF IInv, Pool, Newest, Mapped, HooksInOwnPage, ProbesAt, PageOf, TablesBounded,
              ProbesStayArmed, Armed
<1>4. CASE TrapOutcome(addr) # "run" /\ UNCHANGED <<pushed, todo, first>>
  <2>1. (Shape /\ Started /\ Expected /\ EmulatesTheCall)'
    BY <1>1, <1>2, <1>4 DEF IInv, Shape, Started, Expected, EmulatesTheCall
  <2> QED
    BY <1>3, <2>1 DEF IInv
<1>5. CASE /\ TrapOutcome(addr) = "run"
           /\ emulCall(addr, addr)
           /\ todo' = CallsOf(pushed'.dest)
           /\ first' = (todo' # <<>>)
  <2>2. probe \in AllCalls /\ probe.addr = addr
    BY <1>0, ProbeFound
  <2>6. pushed' = [trap |-> addr, dest |-> probe.dest, ret |-> addr + probe.len]
    BY <1>5 DEF emulCall
  <2> HIDE DEF probe
  <2>3. probe.dest \in Nat
    BY <2>2, AllCallsFacts
  <2>9. todo' = CallsOf(probe.dest)
    BY <1>5, <2>6
  <2>4. todo' \in Seq(AllCalls)
    BY <2>9, <2>3, CallsFacts
  <2>5. Shape'
    BY <1>1, <1>2, <1>5, <2>4 DEF IInv, Shape
  <2>7. EmulatesTheCall'
    BY <1>2, <2>2, <2>6 DEF EmulatesTheCall
  <2>8. Started' /\ Expected'
    BY <1>5, <2>6 DEF Started, Expected
  <2> QED
    BY <1>3, <2>5, <2>7, <2>8 DEF IInv
<1> QED
  BY <1>0, <1>4, <1>5 DEF INT3Handler

(* The invariant is inductive.                                             *)
LEMMA InvInductive == Spec => []IInv
<1>1. Init => IInv
  <2> SUFFICES ASSUME Init PROVE IInv
    OBVIOUS
  <2>1. redir = <<>> /\ hooks = <<>> /\ ept = <<>> /\ probes = <<>> /\ todo = <<>> /\ pushed = <<>>
    BY DEF Init
  <2>2. Len(<<>>) = 0 /\ DOMAIN <<>> = {} /\ ToSet(<<>>) = {}
    BY DEF ToSet
  <2>3. Shape
    <3>1. <<>> \in Seq(Int) /\ <<>> \in Seq(SUBSET Nat) /\ <<>> \in Seq(AllCalls)
      BY EmptySeq
    <3>2. ept \in [ToSet(redir) -> DOMAIN redir]
      BY <2>1, <2>2
    <3> QED
      BY <2>1, <2>2, <3>1, <3>2 DEF Init, Shape, Stops
  <2>4. Pool
    BY <2>1, <2>2, FatAssumption DEF Init, Pool
  <2>5. Newest /\ Mapped /\ Started /\ Expected
    BY <2>1, <2>2 DEF Newest, Mapped, Started, Expected
  <2>6. HooksInOwnPage /\ EmulatesTheCall /\ ProbesStayArmed
    BY <2>1, <2>2 DEF Init, HooksInOwnPage, EmulatesTheCall, ProbesStayArmed
  <2>7. TablesBounded
    BY <2>1, <2>2, FatAssumption DEF TablesBounded
  <2> QED
    BY <2>3, <2>4, <2>5, <2>6, <2>7 DEF IInv
<1>2. IInv /\ [Next]_vars => IInv'
  <2> SUFFICES ASSUME IInv, [Next]_vars PROVE IInv'
    OBVIOUS
  <2>1. CASE InstallNext
    BY <2>1, InstallKeeps
  <2>2. CASE \E addr \in Starts : MoniStartOfSE(addr)
    BY <2>2, StartKeeps
  <2>3. CASE \E addr \in Armed : INT3Handler(addr)
    BY <2>3, TrapKeeps
  <2>4. CASE UNCHANGED vars
    <3>1. (Shape /\ Pool /\ Newest /\ Mapped /\ Started /\ TablesBounded)'
      BY <2>4 DEF vars, IInv, Shape, Pool, Newest, Mapped, Started, TablesBounded
    <3>2. (Expected /\ HooksInOwnPage /\ ProbesStayArmed)'
      BY <2>4 DEF vars, IInv, Expected, HooksInOwnPage, ProbesAt, PageOf, ProbesStayArmed, Armed
    <3>3. EmulatesTheCall'
      BY <2>4 DEF vars, IInv, EmulatesTheCall
    <3> QED
      BY <3>1, <3>2, <3>3 DEF IInv
  <2> QED
    BY <2>1, <2>2, <2>3, <2>4 DEF Next
<1> QED
  BY <1>1, <1>2, PTL DEF Spec

-----------------------------------------------------------------------------
(* Types: the tables of copies and probes fit together.                    *)
THEOREM TypeCorrect == Spec => []TypeOK
<1>1. IInv => TypeOK
  <2> SUFFICES ASSUME IInv PROVE TypeOK
    OBVIOUS
  <2>1. pool \in 0 .. MAX_Redir_Code_Page
    <3>1. Len(redir) \in Nat
      BY LenProperties DEF IInv, Shape
    <3> QED
      BY <3>1, FatAssumption DEF IInv, Pool
  <2>2. ToSet(probes) \subseteq AllCalls /\ ToSet(todo) \subseteq AllCalls
    BY DEF IInv, Shape, ToSet
  <2> QED
    BY <2>1, <2>2 DEF TypeOK, IInv, Shape, Stops
<1> QED
  BY <1>1, InvInductive, PTL

(***************************************************************************)
(* For every database and sequence of traps: an int3 is written only into  *)
(* a copy of its own page and is a recorded probe.                         *)
(***************************************************************************)
THEOREM HooksAlwaysInOwnPage == Spec => []HooksInOwnPage
<1>1. IInv => HooksInOwnPage
  BY DEF IInv
<1> QED
  BY <1>1, InvInductive, PTL

(* probe_orig_inst and redir_code_pages are never written past their ends. *)
THEOREM TablesAlwaysBounded == Spec => []TablesBounded
<1>1. IInv => TablesBounded
  BY DEF IInv
<1> QED
  BY <1>1, InvInductive, PTL

(***************************************************************************)
(* However often pages were copied and probes planted, find_probe_idx      *)
(* knows every int3 that traps, and emulCall, stepping back from the       *)
(* reported rip, emulates the call that stands there.                      *)
(***************************************************************************)
THEOREM AlwaysEmulatesTheCall == Spec => []EmulatesTheCall
<1>1. IInv => EmulatesTheCall
  BY DEF IInv
<1> QED
  BY <1>1, InvInductive, PTL

(***************************************************************************)
(* If a redirected page reads as its copy, no probe is ever lost, however  *)
(* often its page is copied.                                               *)
(***************************************************************************)
THEOREM ProbesAlwaysArmed == Spec => []ProbesStayArmed
<1>1. IInv => ProbesStayArmed
  BY DEF IInv
<1> QED
  BY <1>1, InvInductive, PTL

(***************************************************************************)
(* With the same hypothesis, whenever the kernel runs on after a trap      *)
(* every call of the function it has entered is armed.                     *)
(***************************************************************************)
THEOREM CalleeAlwaysProbed == Spec => []CalleeProbed
<1>1. IInv => CalleeProbed
  <2> SUFFICES ASSUME IInv, ReadsSeeCopy, status = "run", todo = <<>>, pushed # <<>>,
                      NEW call \in ToSet(CallsOf(pushed.dest))
               PROVE  call.addr \in Armed
    BY DEF CalleeProbed
  <2>1. call \in ToSet(probes)
    BY DEF IInv, Expected, ToSet
  <2>2. PICK i \in DOMAIN probes : call = probes[i]
    BY <2>1 DEF ToSet
  <2> QED
    BY <2>2 DEF IInv, ProbesStayArmed
<1> QED
  BY <1>1, InvInductive, PTL

=============================================================================
