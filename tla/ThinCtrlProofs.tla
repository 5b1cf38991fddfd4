--------------------------- MODULE ThinCtrlProofs ---------------------------
(***************************************************************************)
(* The loop of processFunction follows the native run: proofs for every    *)
(* function, stack, seed and size of the instruction cache.                *)
(***************************************************************************)
EXTENDS ThinCtrl, TLAPS

(* The native state that the refinement maps a state of the loop to.       *)
ReadStk == [a \in Slots |-> IF a \in isret THEN stk[a].con ELSE Seen(stk[a])]

State(r, p, c, q, t, k, z) ==
    [rip |-> r, rsp |-> p, cnt |-> c, ptr |-> q, tab |-> t, stk |-> k, zf |-> z]

Cpu == State(rip, rsp, Seen(cnt), Seen(ptr), Seen(tab), ReadStk, flags.zf)

(* A hit in the cache is the instruction at the address.                   *)
Coherent ==
    /\ DOMAIN m_InsnCache = 0 .. CacheSize - 1
    /\ \A a \in DOMAIN code :
        m_InsnCache[Idx(a)] # NoInsn => m_InsnCache[Idx(a)].insn = code[a]

IInv == TypeOK /\ StopsAtReturn /\ Coherent

Insns == [op : STRING, size : Nat, rel : Int]

-----------------------------------------------------------------------------
(* What is known of the instruction that is run.                           *)
LEMMA InsnFacts ==
    ASSUME code \in Codes, rip \in DOMAIN code
    PROVE  /\ code[rip] \in Insns /\ rip \in 0 .. MaxWord
           /\ Next1(code[rip]) \in 0 .. MaxWord
           /\ code[rip].op \in {"jcc", "jmp", "call"} =>
                Next1(code[rip]) + code[rip].rel \in 0 .. MaxWord
           /\ code[rip].op = "cmov" => code[rip].rel \in 0 .. MaxWord
  BY CodesAssumption DEF Insns, Next1

(* The index of an address is within the cache.                            *)
LEMMA IdxFacts ==
    ASSUME NEW a \in 0 .. MaxWord PROVE Idx(a) \in 0 .. CacheSize - 1
  BY ThinAssumption DEF Idx

(* The loop runs the instruction at rip.                                   *)
LEMMA FetchedIsCode ==
    ASSUME IInv, rip \in DOMAIN code PROVE Fetched = code[rip]
  BY DEF IInv, Coherent, Fetched, Cached

(* Using an instruction keeps the cache coherent.                          *)
LEMMA UsedKeeps ==
    ASSUME IInv, rip \in DOMAIN code, code' = code, NEW symbolic,
           Used(code[rip], symbolic)
    PROVE  Coherent'
<1>1. code \in Codes
  BY DEF IInv, TypeOK
<1>2. rip \in 0 .. MaxWord
  BY <1>1, InsnFacts
<1>3. Idx(rip) \in 0 .. CacheSize - 1
  BY <1>2, IdxFacts
<1>4. DOMAIN m_InsnCache' = 0 .. CacheSize - 1
  BY DEF Used, IInv, Coherent
<1>5. m_InsnCache'[Idx(rip)].insn = code[rip]
  BY <1>3 DEF Used, IInv, Coherent
<1>6. ASSUME NEW a \in DOMAIN code, m_InsnCache'[Idx(a)] # NoInsn
      PROVE  m_InsnCache'[Idx(a)].insn = code[a]
  <2>1. CASE a = rip
    BY <1>5, <2>1
  <2>2. CASE a # rip
    <3>1. Idx(a) # Idx(rip)
      BY <1>1, <2>2, CacheAssumption DEF Idx
    <3>2. a \in 0 .. MaxWord
      BY <1>1, CodesAssumption
    <3>3. Idx(a) \in 0 .. CacheSize - 1
      BY <3>2, IdxFacts
    <3>4. m_InsnCache'[Idx(a)] = m_InsnCache[Idx(a)]
      BY <3>1, <3>3 DEF Used, IInv, Coherent
    <3> QED
      BY <1>6, <3>4 DEF IInv, Coherent
  <2> QED
    BY <2>1, <2>2
<1> QED
  BY <1>4, <1>6 DEF Coherent, Idx

-----------------------------------------------------------------------------
(* The native instructions, one by one.                                    *)
LEMMA ExecCpu ==
    ASSUME NEW i
    PROVE  LET n       == rip + i.size
               c       == Seen(cnt)
               q       == Seen(ptr)
               t       == Seen(tab)
               k       == ReadStk
               z       == flags.zf
               after   == Native!Exec(i, Cpu)
               call(a) == State(a, rsp - 1, c, q, t, [k EXCEPT ![rsp - 1] = n], z)
           IN
               /\ i.op = "nop"   => after = State(n, rsp, c, q, t, k, z)
               /\ i.op = "sub"   => after = State(n, rsp, (c - 1) % (MaxWord + 1), q, t, k, c = 1)
               /\ i.op = "cmov"  => after = State(n, rsp, IF z THEN i.rel ELSE c, q, t, k, z)
               /\ i.op = "push"  => after = State(n, rsp - 1, c, q, t, [k EXCEPT ![rsp - 1] = c], z)
               /\ i.op = "pop"   => after = State(n, rsp + 1, k[rsp], q, t, k, z)
               /\ i.op = "top"   => after = State(n, rsp, k[rsp], q, t, k, z)
               /\ i.op = "jcc"   => after = State(IF z THEN n ELSE n + i.rel, rsp, c, q, t, k, z)
               /\ i.op = "jmp"   => after = State(n + i.rel, rsp, c, q, t, k, z)
               /\ i.op = "jmpr"  => after = State(q, rsp, c, q, t, k, z)
               /\ i.op = "call"  => after = call(n + i.rel)
               /\ i.op = "callr" => after = call(q)
               /\ i.op = "callm" => after = call(t)
               /\ i.op = "ret"   => after = State(k[rsp], rsp + 1, c, q, t, k, z)
<1> DEFINE n       == rip + i.size
           c       == Seen(cnt)
           q       == Seen(ptr)
           t       == Seen(tab)
           k       == ReadStk
           z       == flags.zf
           after   == Native!Exec(i, Cpu)
           call(a) == State(a, rsp - 1, c, q, t, [k EXCEPT ![rsp - 1] = n], z)
<1>0. ASSUME NEW a PROVE Native!Calls(Cpu, n, a) = call(a)
  <2>1. Cpu.rsp = rsp /\ Cpu.stk = k
    BY DEF Cpu, State
  <2>2. Native!Calls(Cpu, n, a)
        = [Cpu EXCEPT !.rip = a, !.rsp = Cpu.rsp - 1, !.stk = [Cpu.stk EXCEPT ![rsp - 1] = n]]
    BY <2>1 DEF Native!Calls, Cpu, State
  <2> QED
    BY <2>1, <2>2 DEF Cpu, State
<1>1. i.op = "nop" => after = State(n, rsp, c, q, t, k, z)
  BY DEF Native!Exec, Cpu, State
<1>2. i.op = "sub" => after = State(n, rsp, (c - 1) % (MaxWord + 1), q, t, k, c = 1)
  BY DEF Native!Exec, Cpu, State
<1>3. i.op = "cmov" => after = State(n, rsp, IF z THEN i.rel ELSE c, q, t, k, z)
  BY DEF Native!Exec, Cpu, State
<1>4. i.op = "push" => after = State(n, rsp - 1, c, q, t, [k EXCEPT ![rsp - 1] = c], z)
  BY DEF Native!Exec, Cpu, State
<1>5. i.op = "pop" => after = State(n, rsp + 1, k[rsp], q, t, k, z)
  BY DEF Native!Exec, Cpu, State
<1>6. i.op = "top" => after = State(n, rsp, k[rsp], q, t, k, z)
  BY DEF Native!Exec, Cpu, State
<1>7. i.op = "jcc" => after = State(IF z THEN n ELSE n + i.rel, rsp, c, q, t, k, z)
  BY DEF Native!Exec, Cpu, State
<1>8. i.op = "jmp" => after = State(n + i.rel, rsp, c, q, t, k, z)
  BY DEF Native!Exec, Cpu, State
<1>9. i.op = "jmpr" => after = State(q, rsp, c, q, t, k, z)
  BY DEF Native!Exec, Cpu, State
<1>10. i.op = "call" => after = call(n + i.rel)
  BY <1>0 DEF Native!Exec, Cpu, State
<1>11. i.op = "callr" => after = call(q)
  BY <1>0 DEF Native!Exec, Cpu, State
<1>12. i.op = "callm" => after = call(t)
  BY <1>0 DEF Native!Exec, Cpu, State
<1>13. i.op = "ret" => after = State(k[rsp], rsp + 1, c, q, t, k, z)
  BY DEF Native!Exec, Cpu, State
<1> QED
  BY <1>1, <1>2, <1>3, <1>4, <1>5, <1>6, <1>7, <1>8, <1>9, <1>10, <1>11, <1>12, <1>13

-----------------------------------------------------------------------------
(* What an iteration starts from.                                          *)
Ready == IInv /\ status = "run" /\ rip \in DOMAIN code /\ ~Deviates(code[rip])

(* What it must lead to.                                                   *)
Follows == IInv' /\ code' = code /\ Cpu' = Native!Exec(code[rip], Cpu)

(* The variables at the start of an iteration.                             *)
LEMMA ReadyFacts ==
    ASSUME Ready
    PROVE  /\ rip \in 0 .. MaxWord /\ rsp \in Slots /\ Depth \in Nat /\ MaxWord \in Nat
           /\ stk \in [Slots -> Words] /\ cnt \in Words /\ ptr \in Words /\ tab \in Words
           /\ flags \in [bsym : BOOLEAN, zf : BOOLEAN]
           /\ isret \subseteq Slots /\ z3_api_calls \in Nat /\ code \in Codes
<1>1. rsp \in Slots
  BY ThinAssumption DEF Ready, IInv, StopsAtReturn, TypeOK, Slots, term_rsp
<1> QED
  BY <1>1, ThinAssumption DEF Ready, IInv, TypeOK

(* An instruction that changes neither the stack nor the counter.          *)
LEMMA Unread ==
    ASSUME UNCHANGED <<ptr, tab, stk, cnt, isret>>
    PROVE  /\ ReadStk' = ReadStk /\ Seen(cnt)' = Seen(cnt)
           /\ Seen(ptr)' = Seen(ptr) /\ Seen(tab)' = Seen(tab)
  BY DEF ReadStk, Seen

(* nop                                                                     *)
LEMMA NopFollows ==
    ASSUME Ready, SkipNop(code[rip]) PROVE Follows
<1> DEFINE i == code[rip]
<1>1. i.op = "nop" /\ rip' = Next1(i) /\ Used(i, FALSE)
      /\ UNCHANGED <<code, ptr, tab, rsp, stk, cnt, flags, isret, z3_api_calls, status>>
  BY DEF SkipNop, data
<1>2. Next1(i) \in 0 .. MaxWord
  BY InsnFacts, ReadyFacts DEF Ready
<1>3. Coherent'
  BY <1>1, UsedKeeps DEF Ready
<1>4. TypeOK' /\ StopsAtReturn'
  BY <1>1, <1>2 DEF Ready, IInv, TypeOK, StopsAtReturn
<1>5. Native!Exec(i, Cpu) = State(Next1(i), rsp, Seen(cnt), Seen(ptr), Seen(tab), ReadStk, flags.zf)
  BY <1>1, ExecCpu DEF Cpu, Next1
<1>6. Cpu' = Native!Exec(i, Cpu)
  BY <1>1, <1>5, Unread DEF Cpu
<1> QED
  BY <1>1, <1>3, <1>4, <1>6 DEF Follows, IInv

(* A slot as the native machine reads it.                                  *)
LEMMA SlotRead ==
    ASSUME Ready, stk[rsp].marked => rsp \in isret PROVE ReadStk[rsp] = stk[rsp].con
  BY ReadyFacts DEF ReadStk, Seen

(* ret                                                                     *)
LEMMA RetFollows ==
    ASSUME Ready, dispatchRet(code[rip]) PROVE Follows
<1> DEFINE i == code[rip]
<1>1. i.op = "ret" /\ rip' = stk[rsp].con /\ rsp' = rsp + 1 /\ Used(i, FALSE) /\ CheckEnd
      /\ UNCHANGED <<code, ptr, tab, stk, cnt, flags, isret, z3_api_calls>>
  BY DEF dispatchRet, data
<1>2. rip' \in 0 .. MaxWord /\ rsp' \in 0 .. Depth
  BY <1>1, ReadyFacts DEF Slots, Words
<1>3. Coherent'
  BY <1>1, UsedKeeps DEF Ready
<1>4. TypeOK' /\ StopsAtReturn'
  BY <1>1, <1>2, ReadyFacts DEF TypeOK, StopsAtReturn, CheckEnd, term_rsp
<1>5. ReadStk[rsp] = stk[rsp].con
  BY <1>1, SlotRead DEF Ready, Deviates
<1>6. Native!Exec(i, Cpu)
      = State(ReadStk[rsp], rsp + 1, Seen(cnt), Seen(ptr), Seen(tab), ReadStk, flags.zf)
  BY <1>1, ExecCpu DEF Cpu
<1>7. Cpu' = Native!Exec(i, Cpu)
  BY <1>1, <1>5, <1>6, Unread DEF Cpu
<1> QED
  BY <1>1, <1>3, <1>4, <1>7 DEF Follows, IInv

(* A call whose target is known                                            *)
LEMMA PushRetFollows ==
    ASSUME Ready, rsp # 0, NEW target \in 0 .. MaxWord, PushRet(code[rip], target)
    PROVE  /\ IInv' /\ code' = code
           /\ Cpu' = State(target, rsp - 1, Seen(cnt), Seen(ptr), Seen(tab),
                           [ReadStk EXCEPT ![rsp - 1] = rip + code[rip].size], flags.zf)
<1> DEFINE i == code[rip]
<1>1. rip' = target /\ rsp' = rsp - 1 /\ Used(i, FALSE) /\ CheckEnd
      /\ isret' = isret \cup {rsp - 1}
      /\ stk' = [stk EXCEPT ![rsp - 1] = Raw(stk[rsp - 1], Next1(i))]
      /\ UNCHANGED <<code, ptr, tab, cnt, flags, z3_api_calls>>
  BY DEF PushRet, data
<1>2. rsp - 1 \in Slots /\ rsp' \in 0 .. Depth
  BY <1>1, ReadyFacts DEF Slots
<1>3. Next1(i) \in 0 .. MaxWord
  BY InsnFacts, ReadyFacts DEF Ready
<1>4. Coherent'
  BY <1>1, UsedKeeps DEF Ready
<1>5. stk' \in [Slots -> Words]
  BY <1>1, <1>2, <1>3, ReadyFacts DEF Words, Raw
<1>6. TypeOK'
  BY <1>1, <1>2, <1>5, ReadyFacts DEF TypeOK, CheckEnd
<1>7. StopsAtReturn'
  BY <1>1, <1>2, ReadyFacts DEF StopsAtReturn, CheckEnd, term_rsp
<1>8. ReadStk' = [ReadStk EXCEPT ![rsp - 1] = Next1(i)]
  BY <1>1, <1>2, ReadyFacts DEF ReadStk, Seen, Raw, Words
<1>9. Seen(cnt)' = Seen(cnt) /\ Seen(ptr)' = Seen(ptr) /\ Seen(tab)' = Seen(tab)
  BY <1>1 DEF Seen
<1> QED
  BY <1>1, <1>4, <1>6, <1>7, <1>8, <1>9 DEF IInv, Cpu, Next1

(* The run aborts, or its memory is corrupt: the machine is left as it was.*)
LEMMA AbortStays ==
    ASSUME Ready, Abort(code[rip]) PROVE IInv' /\ code' = code /\ Cpu' = Cpu
<1>1. status' = "abort" /\ Used(code[rip], FALSE)
      /\ UNCHANGED <<code, ptr, tab, rip, rsp, stk, cnt, flags, isret, z3_api_calls>>
  BY DEF Abort, data
<1>2. Coherent'
  BY <1>1, UsedKeeps DEF Ready
<1>3. TypeOK' /\ StopsAtReturn'
  BY <1>1 DEF Ready, IInv, TypeOK, StopsAtReturn
<1>4. Cpu' = Cpu
  BY <1>1, Unread DEF Cpu
<1> QED
  BY <1>1, <1>2, <1>3, <1>4 DEF IInv

LEMMA CorruptStays ==
    ASSUME IInv, Corrupt PROVE IInv' /\ code' = code /\ Cpu' = Cpu
<1>1. status' = "corrupt"
      /\ UNCHANGED <<code, ptr, tab, rip, rsp, stk, cnt, flags, isret, z3_api_calls, m_InsnCache>>
  BY DEF Corrupt, data
<1>2. IInv'
  BY <1>1 DEF IInv, TypeOK, StopsAtReturn, Coherent, Idx
<1>3. Cpu' = Cpu
  BY <1>1, Unread DEF Cpu
<1> QED
  BY <1>1, <1>2, <1>3

-----------------------------------------------------------------------------
Stays == IInv' /\ code' = code /\ Cpu' = Cpu

(* The three kinds of call                                                 *)
LEMMA CallFollows ==
    ASSUME Ready, dispatchCall(code[rip]) PROVE Follows \/ Stays
<1> DEFINE i == code[rip]
<1>1. ASSUME i.op \in {"call", "callr", "callm"} PROVE rsp # 0
  BY <1>1 DEF Ready, Deviates
<1>2. CASE i.op = "call" /\ PushRet(i, Next1(i) + i.rel)
  <2>1. Next1(i) + i.rel \in 0 .. MaxWord
    BY <1>2, InsnFacts, ReadyFacts DEF Ready
  <2>2. Next1(i) = rip + i.size
    BY DEF Next1
  <2>3. /\ IInv' /\ code' = code
        /\ Cpu' = State(rip + i.size + i.rel, rsp - 1, Seen(cnt), Seen(ptr), Seen(tab),
                        [ReadStk EXCEPT ![rsp - 1] = rip + i.size], flags.zf)
    BY <1>1, <1>2, <2>1, <2>2, PushRetFollows
  <2> QED
    BY <1>2, <2>3, ExecCpu DEF Follows
<1>3. CASE i.op = "callr" /\ ~ptr.marked /\ PushRet(i, ptr.con)
  <2>1. ptr.con \in 0 .. MaxWord /\ Seen(ptr) = ptr.con
    BY <1>3, ReadyFacts DEF Words, Seen
  <2>2. /\ IInv' /\ code' = code
        /\ Cpu' = State(ptr.con, rsp - 1, Seen(cnt), Seen(ptr), Seen(tab),
                        [ReadStk EXCEPT ![rsp - 1] = rip + i.size], flags.zf)
    BY <1>1, <1>3, <2>1, PushRetFollows
  <2> QED
    BY <1>3, <2>1, <2>2, ExecCpu DEF Follows
<1>4. CASE i.op = "callm" /\ ~tab.marked /\ PushRet(i, tab.con)
  <2>1. tab.con \in 0 .. MaxWord /\ Seen(tab) = tab.con
    BY <1>4, ReadyFacts DEF Words, Seen
  <2>2. /\ IInv' /\ code' = code
        /\ Cpu' = State(tab.con, rsp - 1, Seen(cnt), Seen(ptr), Seen(tab),
                        [ReadStk EXCEPT ![rsp - 1] = rip + i.size], flags.zf)
    BY <1>1, <1>4, <2>1, PushRetFollows
  <2> QED
    BY <1>4, <2>1, <2>2, ExecCpu DEF Follows
<1>5. CASE Abort(i)
  BY <1>5, AbortStays DEF Stays
<1> QED
  BY <1>2, <1>3, <1>4, <1>5 DEF dispatchCall

(* A jump whose target is known                                            *)
LEMMA JumpFollows ==
    ASSUME Ready, NEW target \in 0 .. MaxWord, Jumps(code[rip], target),
           flags' \in [bsym : BOOLEAN, zf : BOOLEAN], flags'.zf = flags.zf, z3_api_calls' \in Nat
    PROVE  /\ IInv' /\ code' = code
           /\ Cpu' = State(target, rsp, Seen(cnt), Seen(ptr), Seen(tab), ReadStk, flags.zf)
<1>1. rip' = target /\ Used(code[rip], FALSE) /\ CheckEnd
      /\ UNCHANGED <<code, ptr, tab, rsp, stk, cnt, isret>>
  BY DEF Jumps, data
<1>2. Coherent'
  BY <1>1, UsedKeeps DEF Ready
<1>3. rsp \in 0 .. Depth
  BY ReadyFacts DEF Slots
<1>4. TypeOK'
  BY <1>1, <1>3, ReadyFacts DEF TypeOK, CheckEnd
<1>5. StopsAtReturn'
  BY <1>1, <1>3, ReadyFacts DEF StopsAtReturn, CheckEnd, term_rsp
<1> QED
  BY <1>1, <1>2, <1>4, <1>5, Unread DEF IInv, Cpu

(* The kinds of jump                                                       *)
LEMMA BranchFollows ==
    ASSUME Ready, dispatchBranch(code[rip]) PROVE Follows \/ Stays
<1> DEFINE i == code[rip]
<1>1. Next1(i) = rip + i.size
  BY DEF Next1
<1>2. ASSUME UNCHANGED <<flags, z3_api_calls>>
      PROVE  flags' \in [bsym : BOOLEAN, zf : BOOLEAN] /\ flags'.zf = flags.zf /\ z3_api_calls' \in Nat
  BY <1>2, ReadyFacts
<1>3. CASE i.op = "jcc" /\ updateJCCDecision
            /\ Jumps(i, IF flags.zf THEN Next1(i) ELSE Next1(i) + i.rel)
  <2> DEFINE target == IF flags.zf THEN Next1(i) ELSE Next1(i) + i.rel
  <2>1. target \in 0 .. MaxWord
    BY <1>3, InsnFacts, ReadyFacts DEF Ready
  <2>2. flags' \in [bsym : BOOLEAN, zf : BOOLEAN] /\ flags'.zf = flags.zf /\ z3_api_calls' \in Nat
    <3>1. CASE flags.bsym
      <4>1. flags' = [flags EXCEPT !.bsym = FALSE] /\ z3_api_calls' = z3_api_calls + 1
        BY <1>3, <3>1 DEF updateJCCDecision, Solved
      <4>2. flags \in [bsym : BOOLEAN, zf : BOOLEAN] /\ z3_api_calls \in Nat
        BY ReadyFacts
      <4>3. z3_api_calls' \in Nat
        BY <4>1, <4>2
      <4>4. flags' \in [bsym : BOOLEAN, zf : BOOLEAN] /\ flags'.zf = flags.zf
        BY <4>1, <4>2
      <4> QED
        BY <4>3, <4>4
    <3>2. CASE ~flags.bsym
      BY <1>3, <3>2, ReadyFacts DEF updateJCCDecision
    <3> QED
      BY <3>1, <3>2
  <2>3. /\ IInv' /\ code' = code
        /\ Cpu' = State(target, rsp, Seen(cnt), Seen(ptr), Seen(tab), ReadStk, flags.zf)
    <3> HIDE DEF target
    <3>1. Jumps(i, target)
      BY <1>3 DEF target
    <3> QED
      BY <2>1, <2>2, <3>1, JumpFollows
  <2> QED
    BY <1>1, <1>3, <2>3, ExecCpu DEF Follows
<1>4. CASE i.op = "jmp" /\ Jumps(i, Next1(i) + i.rel) /\ UNCHANGED <<flags, z3_api_calls>>
  <2>1. Next1(i) + i.rel \in 0 .. MaxWord
    BY <1>4, InsnFacts, ReadyFacts DEF Ready
  <2>2. /\ IInv' /\ code' = code
        /\ Cpu' = State(Next1(i) + i.rel, rsp, Seen(cnt), Seen(ptr), Seen(tab), ReadStk, flags.zf)
    BY <1>2, <1>4, <2>1, JumpFollows
  <2> QED
    BY <1>1, <1>4, <2>2, ExecCpu DEF Follows
<1>5. CASE i.op = "jmpr" /\ ~ptr.marked /\ Jumps(i, ptr.con) /\ UNCHANGED <<flags, z3_api_calls>>
  <2>1. ptr.con \in 0 .. MaxWord /\ Seen(ptr) = ptr.con
    BY <1>5, ReadyFacts DEF Words, Seen
  <2>2. /\ IInv' /\ code' = code
        /\ Cpu' = State(ptr.con, rsp, Seen(cnt), Seen(ptr), Seen(tab), ReadStk, flags.zf)
    BY <1>2, <1>5, <2>1, JumpFollows
  <2> QED
    BY <1>5, <2>1, <2>2, ExecCpu DEF Follows
<1>6. CASE Abort(i)
  BY <1>6, AbortStays DEF Stays
<1>7. CASE Corrupt
  BY <1>7, CorruptStays DEF Stays, Ready
<1> QED
  BY <1>3, <1>4, <1>5, <1>6, <1>7 DEF dispatchBranch

-----------------------------------------------------------------------------
(* The instructions of a conditional move on symbolic flags.               *)
LEMMA SkipFollows ==
    ASSUME Ready, SkipConditional(code[rip]) PROVE Follows
<1> DEFINE i == code[rip]
<1>1. i.op = "cmov" /\ ~flags.zf /\ rip' = Next1(i) /\ Used(i, FALSE)
      /\ z3_api_calls' = z3_api_calls + 1
      /\ UNCHANGED <<code, ptr, tab, rsp, stk, cnt, flags, isret, status>>
  BY DEF SkipConditional, Solved, data
<1>2. Next1(i) \in 0 .. MaxWord
  BY InsnFacts, ReadyFacts DEF Ready
<1>3. Coherent'
  BY <1>1, UsedKeeps DEF Ready
<1>4. TypeOK' /\ StopsAtReturn'
  BY <1>1, <1>2 DEF Ready, IInv, TypeOK, StopsAtReturn
<1>5. Cpu' = Native!Exec(i, Cpu)
  BY <1>1, ExecCpu, Unread DEF Cpu, Next1
<1> QED
  BY <1>1, <1>3, <1>4, <1>5 DEF Follows, IInv

LEMMA TakeFollows ==
    ASSUME Ready, TakeConditional(code[rip]) PROVE Follows
<1> DEFINE i == code[rip]
<1>1. i.op = "cmov" /\ flags.zf /\ rip' = Next1(i) /\ Used(i, TRUE) /\ CheckEnd
      /\ z3_api_calls' = z3_api_calls + 1 /\ cnt' = Con(i.rel)
      /\ flags' = [flags EXCEPT !.bsym = FALSE]
      /\ UNCHANGED <<code, ptr, tab, rsp, stk, isret>>
  BY DEF TakeConditional, Solved, data
<1>2. Next1(i) \in 0 .. MaxWord /\ i.rel \in 0 .. MaxWord
  BY <1>1, InsnFacts, ReadyFacts DEF Ready
<1>3. Coherent'
  BY <1>1, UsedKeeps DEF Ready
<1>4. cnt' \in Words /\ Seen(cnt') = i.rel
  BY <1>1, <1>2, ThinAssumption DEF Con, Words, Seen
<1>5. flags' \in [bsym : BOOLEAN, zf : BOOLEAN] /\ flags'.zf = flags.zf
  BY <1>1, ReadyFacts
<1>6. rsp \in 0 .. Depth
  BY ReadyFacts DEF Slots
<1>7. TypeOK'
  BY <1>1, <1>2, <1>4, <1>5, <1>6, ReadyFacts DEF TypeOK, CheckEnd
<1>8. StopsAtReturn'
  BY <1>1, <1>6, ReadyFacts DEF StopsAtReturn, CheckEnd, term_rsp
<1>9. ReadStk' = ReadStk /\ Seen(ptr)' = Seen(ptr) /\ Seen(tab)' = Seen(tab)
  BY <1>1 DEF ReadStk, Seen
<1>10. Native!Exec(i, Cpu) = State(Next1(i), rsp, i.rel, Seen(ptr), Seen(tab), ReadStk, flags.zf)
  BY <1>1, ExecCpu DEF Next1
<1>11. Seen(cnt)' = i.rel
  BY <1>4 DEF Seen
<1>12. Cpu' = Native!Exec(i, Cpu)
  BY <1>1, <1>5, <1>9, <1>10, <1>11 DEF Cpu
<1> QED
  BY <1>1, <1>3, <1>7, <1>8, <1>12 DEF Follows, IInv

(***************************************************************************)
(* What either executor does with the other instructions: `old` is the     *)
(* word below the stack pointer.                                           *)
(***************************************************************************)
Word(w, v) == w \in Words /\ Seen(w) = v

Outcome(i) ==
    /\ rip' = Next1(i) /\ CheckEnd /\ (Used(i, TRUE) \/ Used(i, FALSE))
    /\ UNCHANGED <<code, ptr, tab, z3_api_calls>>
    /\ CASE i.op = "sub" ->
                /\ Word(cnt', (Seen(cnt) - 1) % (MaxWord + 1))
                /\ flags' \in [bsym : BOOLEAN, zf : BOOLEAN] /\ flags'.zf = (Seen(cnt) = 1)
                /\ UNCHANGED <<rsp, stk, isret>>
         [] i.op = "cmov" ->
                /\ Word(cnt', IF flags.zf THEN i.rel ELSE Seen(cnt))
                /\ UNCHANGED <<rsp, stk, isret, flags>>
         [] i.op = "push" ->
                /\ \E w \in Words : Seen(w) = Seen(cnt) /\ stk' = [stk EXCEPT ![rsp - 1] = w]
                /\ rsp' = rsp - 1 /\ isret' = isret \ {rsp - 1}
                /\ UNCHANGED <<cnt, flags>>
         [] i.op = "pop" ->
                /\ Word(cnt', ReadStk[rsp])
                /\ rsp' = rsp + 1 /\ UNCHANGED <<stk, isret, flags>>
         [] i.op = "top" ->
                /\ Word(cnt', ReadStk[rsp])
                /\ UNCHANGED <<rsp, stk, isret, flags>>

(* The counter counts down within its width.                               *)
LEMMA Down ==
    ASSUME NEW v \in 0 .. MaxWord PROVE (v - 1) % (MaxWord + 1) \in 0 .. MaxWord
  BY ThinAssumption

(* What a slot holds that may be popped.                                   *)
LEMMA PopRead ==
    ASSUME Ready, code[rip].op \in {"pop", "top"}
    PROVE  stk[rsp] \in Words /\ ReadStk[rsp] = Seen(stk[rsp])
<1>1. Touched(code[rip]) = {rsp}
  BY DEF Touched
<1>2. rsp \in isret => ~stk[rsp].marked
  BY <1>1 DEF Ready, Deviates
<1> QED
  BY <1>2, ReadyFacts DEF ReadStk, Seen

(* A word written by the symbolic executor, and one written by the host.   *)
LEMMA WholeWord ==
    ASSUME NEW old, NEW new \in Words PROVE Word(Whole(old, new), Seen(new))
  BY ThinAssumption DEF Words, Word, Whole, Sym, Con, Seen

LEMMA ImageWord ==
    ASSUME NEW old \in Words, NEW new \in Words, ~old.marked, ~new.marked
    PROVE  Word(Image(old, new), Seen(new))
  BY DEF Words, Word, Image, Raw, Seen

(* The symbolic executor                                                   *)
LEMMA SymbolicOutcome ==
    ASSUME Ready, RunSymbolic(code[rip]) PROVE Outcome(code[rip])
<1> DEFINE i == code[rip]
<1>1. Plain(i) /\ hasSymOperand(i) /\ Effect(i, Whole, TRUE)
  BY DEF RunSymbolic
<1>2. /\ rip' = Next1(i) /\ CheckEnd /\ Used(i, TRUE)
      /\ UNCHANGED <<code, ptr, tab, z3_api_calls>>
  BY <1>1 DEF Effect, data
<1>3. cnt \in Words /\ flags \in [bsym : BOOLEAN, zf : BOOLEAN] /\ Seen(cnt) \in 0 .. MaxWord
  BY ReadyFacts DEF Words, Seen
<1>4. CASE i.op = "sub"
  <2> DEFINE less == [cnt EXCEPT !.con = (cnt.con - 1) % (MaxWord + 1),
                                 !.sym = (cnt.sym - 1) % (MaxWord + 1)]
  <2>1. /\ UNCHANGED <<rsp, stk, isret>> /\ cnt' = Whole(cnt, less)
        /\ flags' = [bsym |-> TRUE, zf |-> Seen(cnt) = 1]
    BY <1>1, <1>4 DEF Effect
  <2>2. (cnt.con - 1) % (MaxWord + 1) \in 0 .. MaxWord /\ (cnt.sym - 1) % (MaxWord + 1) \in 0 .. MaxWord
    BY <1>3, Down DEF Words
  <2>3. less \in Words /\ less.marked = cnt.marked
    BY <1>3, <2>2 DEF Words
  <2>4. Seen(less) = (Seen(cnt) - 1) % (MaxWord + 1)
    BY <1>3 DEF Seen, Words
  <2>5. cnt.marked
    BY <1>1, <1>3, <1>4 DEF hasSymOperand, Touched, Words
  <2>6. Word(cnt', Seen(less))
    <3> HIDE DEF less
    <3> QED
      BY <1>3, <2>1, <2>3, <2>5, WholeWord
  <2>7. flags' \in [bsym : BOOLEAN, zf : BOOLEAN] /\ flags'.zf = (Seen(cnt) = 1)
    BY <2>1
  <2> QED
    BY <1>2, <1>4, <2>1, <2>4, <2>6, <2>7 DEF Outcome
<1>5. CASE i.op = "cmov"
  <2>1. UNCHANGED <<rsp, stk, isret, flags>>
        /\ cnt' = Whole(cnt, Con(i.rel))
    BY <1>1, <1>5 DEF Effect
  <2>2. Con(i.rel) \in Words /\ Seen(Con(i.rel)) = i.rel /\ ~Con(i.rel).marked
    BY <1>5, InsnFacts, ReadyFacts DEF Con, Words, Seen, Ready
  <2>3. cnt.marked
    BY <1>1, <1>3, <1>5 DEF hasSymOperand, Touched, Words
  <2>4. flags.zf
    BY <1>1, <1>3, <1>5, <2>3 DEF Ready, Deviates, Plain
  <2>5. Word(cnt', IF flags.zf THEN i.rel ELSE Seen(cnt))
    <3>1. Word(Whole(cnt, Con(i.rel)), i.rel)
      BY <1>3, <2>2, <2>3, WholeWord
    <3>2. Word(cnt, Seen(cnt))
      BY <1>3 DEF Word
    <3> QED
      BY <2>1, <2>4, <3>1, <3>2
  <2> QED
    BY <1>2, <1>5, <2>1, <2>5 DEF Outcome
<1>6. CASE i.op = "push"
  <2>1. /\ rsp' = rsp - 1 /\ isret' = isret \ {rsp - 1} /\ UNCHANGED <<cnt, flags>>
        /\ stk' = [stk EXCEPT ![rsp - 1] = Whole(stk[rsp - 1], cnt)]
    BY <1>1, <1>6 DEF Effect
  <2>2. rsp - 1 \in Slots
    BY <1>6, ReadyFacts DEF Ready, Deviates, Slots
  <2>3. stk[rsp - 1] \in Words
    BY <2>2, ReadyFacts
  <2>4. Word(Whole(stk[rsp - 1], cnt), Seen(cnt))
    BY <1>3, WholeWord
  <2>5. \E w \in Words : Seen(w) = Seen(cnt) /\ stk' = [stk EXCEPT ![rsp - 1] = w]
    BY <2>1, <2>4 DEF Word
  <2> QED
    BY <1>2, <1>6, <2>1, <2>5 DEF Outcome
<1>7. CASE i.op \in {"pop", "top"}
  <2>1. /\ cnt' = Whole(cnt, stk[rsp]) /\ UNCHANGED <<stk, isret, flags>>
        /\ rsp' = IF i.op = "pop" THEN rsp + 1 ELSE rsp
    BY <1>1, <1>7 DEF Effect
  <2>2. stk[rsp] \in Words /\ ReadStk[rsp] = Seen(stk[rsp])
    BY <1>7, PopRead
  <2>3. Word(cnt', ReadStk[rsp])
    BY <2>1, <2>2, WholeWord
  <2> QED
    BY <1>2, <1>7, <2>1, <2>3 DEF Outcome
<1> QED
  BY <1>1, <1>4, <1>5, <1>6, <1>7 DEF Plain

(* The host                                                                *)
LEMMA HostOutcome ==
    ASSUME Ready, InsnDispatch(code[rip]) PROVE Outcome(code[rip])
<1> DEFINE i == code[rip]
<1>1. Plain(i) /\ ~hasSymOperand(i) /\ Effect(i, Image, FALSE)
  BY DEF InsnDispatch
<1>2. /\ rip' = Next1(i) /\ CheckEnd /\ Used(i, FALSE)
      /\ UNCHANGED <<code, ptr, tab, z3_api_calls>>
  BY <1>1 DEF Effect, data
<1>3. cnt \in Words /\ flags \in [bsym : BOOLEAN, zf : BOOLEAN] /\ Seen(cnt) \in 0 .. MaxWord
  BY ReadyFacts DEF Words, Seen
<1>4. CASE i.op = "sub"
  <2> DEFINE less == [cnt EXCEPT !.con = (cnt.con - 1) % (MaxWord + 1),
                                 !.sym = (cnt.sym - 1) % (MaxWord + 1)]
  <2>1. /\ UNCHANGED <<rsp, stk, isret>> /\ cnt' = Image(cnt, less)
        /\ flags' = [bsym |-> FALSE, zf |-> Seen(cnt) = 1]
    BY <1>1, <1>4 DEF Effect
  <2>2. (cnt.con - 1) % (MaxWord + 1) \in 0 .. MaxWord /\ (cnt.sym - 1) % (MaxWord + 1) \in 0 .. MaxWord
    BY <1>3, Down DEF Words
  <2>3. less \in Words /\ less.marked = cnt.marked
    BY <1>3, <2>2 DEF Words
  <2>4. Seen(less) = (Seen(cnt) - 1) % (MaxWord + 1)
    BY <1>3 DEF Seen, Words
  <2>5. ~cnt.marked
    BY <1>1, <1>3, <1>4 DEF hasSymOperand, Touched, Words
  <2>6. Word(cnt', Seen(less))
    <3> HIDE DEF less
    <3> QED
      BY <1>3, <2>1, <2>3, <2>5, ImageWord
  <2>7. flags' \in [bsym : BOOLEAN, zf : BOOLEAN] /\ flags'.zf = (Seen(cnt) = 1)
    BY <2>1
  <2> QED
    BY <1>2, <1>4, <2>1, <2>4, <2>6, <2>7 DEF Outcome
<1>5. CASE i.op = "cmov"
  <2>1. UNCHANGED <<rsp, stk, isret, flags>>
        /\ cnt' = IF flags.zf THEN Image(cnt, Con(i.rel)) ELSE cnt
    BY <1>1, <1>5 DEF Effect
  <2>2. Con(i.rel) \in Words /\ Seen(Con(i.rel)) = i.rel /\ ~Con(i.rel).marked
    BY <1>5, InsnFacts, ReadyFacts DEF Con, Words, Seen, Ready
  <2>3. ~cnt.marked
    BY <1>1, <1>3, <1>5 DEF hasSymOperand, Touched, Words
  <2>4. Word(cnt', IF flags.zf THEN i.rel ELSE Seen(cnt))
    <3>1. Word(Image(cnt, Con(i.rel)), i.rel)
      BY <1>3, <2>2, <2>3, ImageWord
    <3>2. Word(cnt, Seen(cnt))
      BY <1>3 DEF Word
    <3> QED
      BY <2>1, <3>1, <3>2
  <2> QED
    BY <1>2, <1>5, <2>1, <2>4 DEF Outcome
<1>6. CASE i.op = "push"
  <2>1. /\ rsp' = rsp - 1 /\ isret' = isret \ {rsp - 1} /\ UNCHANGED <<cnt, flags>>
        /\ stk' = [stk EXCEPT ![rsp - 1] = Image(stk[rsp - 1], cnt)]
    BY <1>1, <1>6 DEF Effect
  <2>2. rsp - 1 \in Slots
    BY <1>6, ReadyFacts DEF Ready, Deviates, Slots
  <2>3. stk[rsp - 1] \in Words
    BY <2>2, ReadyFacts
  <2>4. Word(Image(stk[rsp - 1], cnt), Seen(cnt))
    <3>1. ~cnt.marked /\ ~stk[rsp - 1].marked
      BY <1>1, <1>6 DEF hasSymOperand, Touched
    <3> QED
      BY <1>3, <2>3, <3>1, ImageWord
  <2>5. \E w \in Words : Seen(w) = Seen(cnt) /\ stk' = [stk EXCEPT ![rsp - 1] = w]
    BY <2>1, <2>4 DEF Word
  <2> QED
    BY <1>2, <1>6, <2>1, <2>5 DEF Outcome
<1>7. CASE i.op \in {"pop", "top"}
  <2>1. /\ cnt' = Image(cnt, stk[rsp]) /\ UNCHANGED <<stk, isret, flags>>
        /\ rsp' = IF i.op = "pop" THEN rsp + 1 ELSE rsp
    BY <1>1, <1>7 DEF Effect
  <2>2. stk[rsp] \in Words /\ ReadStk[rsp] = Seen(stk[rsp])
    BY <1>7, PopRead
  <2>3. Word(cnt', ReadStk[rsp])
    <3>1. ~cnt.marked /\ ~stk[rsp].marked
      BY <1>1, <1>7 DEF hasSymOperand, Touched
    <3> QED
      BY <1>3, <2>1, <2>2, <3>1, ImageWord
  <2> QED
    BY <1>2, <1>7, <2>1, <2>3 DEF Outcome
<1> QED
  BY <1>1, <1>4, <1>5, <1>6, <1>7 DEF Plain

(* With such an outcome the run follows the machine.                       *)
LEMMA OutcomeFollows ==
    ASSUME Ready, Plain(code[rip]), Outcome(code[rip]) PROVE Follows
<1> DEFINE i == code[rip]
<1>1. /\ rip' = Next1(i) /\ CheckEnd /\ UNCHANGED <<code, ptr, tab, z3_api_calls>>
      /\ (Used(i, TRUE) \/ Used(i, FALSE))
  BY DEF Outcome
<1>2. Next1(i) \in 0 .. MaxWord
  BY InsnFacts, ReadyFacts DEF Ready
<1>3. Coherent'
  BY <1>1, UsedKeeps DEF Ready
<1>4. Seen(ptr)' = Seen(ptr) /\ Seen(tab)' = Seen(tab)
  BY <1>1 DEF Seen
<1>5. ASSUME rsp' \in 0 .. Depth, stk' \in [Slots -> Words], cnt' \in Words,
             flags' \in [bsym : BOOLEAN, zf : BOOLEAN], isret' \subseteq Slots
      PROVE  IInv'
  <2>1. TypeOK'
    BY <1>1, <1>2, <1>5, ReadyFacts DEF TypeOK, CheckEnd
  <2>2. StopsAtReturn'
    BY <1>1, <1>5, ReadyFacts DEF StopsAtReturn, CheckEnd, term_rsp
  <2> QED
    BY <1>3, <2>1, <2>2 DEF IInv
<1>6. ASSUME NEW c, cnt' \in Words, Seen(cnt') = c PROVE Seen(cnt)' = c
  BY <1>6 DEF Seen
<1>7. rsp \in 0 .. Depth /\ rsp + 1 \in 0 .. Depth
  BY ReadyFacts DEF Slots
<1>8. ASSUME UNCHANGED <<stk, isret>> PROVE ReadStk' = ReadStk
  BY <1>8 DEF ReadStk, Seen
<1>9. CASE i.op = "sub"
  <2>1. /\ cnt' \in Words /\ Seen(cnt') = (Seen(cnt) - 1) % (MaxWord + 1)
        /\ flags' \in [bsym : BOOLEAN, zf : BOOLEAN] /\ flags'.zf = (Seen(cnt) = 1)
        /\ UNCHANGED <<rsp, stk, isret>>
    BY <1>9 DEF Outcome, Word
  <2>2. IInv'
    BY <1>5, <1>7, <2>1, ReadyFacts
  <2>3. Native!Exec(i, Cpu) = State(Next1(i), rsp, (Seen(cnt) - 1) % (MaxWord + 1), Seen(ptr),
                                    Seen(tab), ReadStk, Seen(cnt) = 1)
    BY <1>9, ExecCpu DEF Next1
  <2>4. ReadStk' = ReadStk /\ Seen(cnt)' = (Seen(cnt) - 1) % (MaxWord + 1)
    BY <1>6, <1>8, <2>1
  <2>5. Cpu' = Native!Exec(i, Cpu)
    BY <1>1, <1>4, <2>1, <2>3, <2>4 DEF Cpu
  <2> QED
    BY <1>1, <2>2, <2>5 DEF Follows
<1>10. CASE i.op = "cmov"
  <2> DEFINE c == IF flags.zf THEN i.rel ELSE Seen(cnt)
  <2>1. /\ cnt' \in Words /\ Seen(cnt') = c /\ UNCHANGED <<rsp, stk, isret, flags>>
    BY <1>10 DEF Outcome, Word
  <2>2. IInv'
    BY <1>5, <1>7, <2>1, ReadyFacts
  <2>3. Native!Exec(i, Cpu) = State(Next1(i), rsp, c, Seen(ptr), Seen(tab), ReadStk, flags.zf)
    BY <1>10, ExecCpu DEF Next1
  <2>4. ReadStk' = ReadStk /\ Seen(cnt)' = c
    BY <1>6, <1>8, <2>1
  <2> HIDE DEF c
  <2>5. Cpu' = Native!Exec(i, Cpu)
    BY <1>1, <1>4, <2>1, <2>3, <2>4 DEF Cpu
  <2> QED
    BY <1>1, <2>2, <2>5 DEF Follows
<1>11. CASE i.op = "push"
  <2>1. PICK w \in Words : Seen(w) = Seen(cnt) /\ stk' = [stk EXCEPT ![rsp - 1] = w]
    BY <1>11 DEF Outcome
  <2>2. rsp' = rsp - 1 /\ isret' = isret \ {rsp - 1} /\ UNCHANGED <<cnt, flags>>
    BY <1>11 DEF Outcome
  <2>3. rsp - 1 \in Slots /\ rsp - 1 \in 0 .. Depth
    BY <1>11, ReadyFacts DEF Ready, Deviates, Slots
  <2>4. stk' \in [Slots -> Words]
    BY <2>1, <2>3, ReadyFacts
  <2>5. IInv'
    BY <1>5, <2>2, <2>3, <2>4, ReadyFacts
  <2>6. ReadStk' = [ReadStk EXCEPT ![rsp - 1] = Seen(cnt)]
    <3>1. stk'[rsp - 1] = w /\ \A a \in Slots \ {rsp - 1} : stk'[a] = stk[a]
      BY <2>1, <2>3, ReadyFacts
    <3>2. Seen(stk'[rsp - 1]) = Seen(cnt)
      BY <2>1, <3>1
    <3>3. \A a \in Slots : (IF a \in isret' THEN stk'[a].con ELSE Seen(stk'[a]))
                           = IF a = rsp - 1 THEN Seen(cnt) ELSE ReadStk[a]
      BY <2>2, <2>3, <3>1, <3>2 DEF ReadStk
    <3> QED
      BY <2>3, <3>3 DEF ReadStk, Seen, Slots
  <2>7. Native!Exec(i, Cpu) = State(Next1(i), rsp - 1, Seen(cnt), Seen(ptr), Seen(tab),
                                    [ReadStk EXCEPT ![rsp - 1] = Seen(cnt)], flags.zf)
    BY <1>11, ExecCpu DEF Next1
  <2>8. Seen(cnt)' = Seen(cnt)
    BY <2>2 DEF Seen
  <2>9. Cpu' = Native!Exec(i, Cpu)
    BY <1>1, <1>4, <2>2, <2>6, <2>7, <2>8 DEF Cpu
  <2> QED
    BY <1>1, <2>5, <2>9 DEF Follows
<1>12. CASE i.op = "pop"
  <2>1. /\ cnt' \in Words /\ Seen(cnt') = ReadStk[rsp] /\ rsp' = rsp + 1
        /\ UNCHANGED <<stk, isret, flags>>
    BY <1>12 DEF Outcome, Word
  <2>2. IInv'
    BY <1>5, <1>7, <2>1, ReadyFacts
  <2>3. Native!Exec(i, Cpu)
        = State(Next1(i), rsp + 1, ReadStk[rsp], Seen(ptr), Seen(tab), ReadStk, flags.zf)
    BY <1>12, ExecCpu DEF Next1
  <2>4. ReadStk' = ReadStk /\ Seen(cnt)' = ReadStk[rsp]
    BY <1>6, <1>8, <2>1
  <2>5. Cpu' = Native!Exec(i, Cpu)
    BY <1>1, <1>4, <2>1, <2>3, <2>4 DEF Cpu
  <2> QED
    BY <1>1, <2>2, <2>5 DEF Follows
<1>13. CASE i.op = "top"
  <2>1. /\ cnt' \in Words /\ Seen(cnt') = ReadStk[rsp]
        /\ UNCHANGED <<rsp, stk, isret, flags>>
    BY <1>13 DEF Outcome, Word
  <2>2. IInv'
    BY <1>5, <1>7, <2>1, ReadyFacts
  <2>3. Native!Exec(i, Cpu)
        = State(Next1(i), rsp, ReadStk[rsp], Seen(ptr), Seen(tab), ReadStk, flags.zf)
    BY <1>13, ExecCpu DEF Next1
  <2>4. ReadStk' = ReadStk /\ Seen(cnt)' = ReadStk[rsp]
    BY <1>6, <1>8, <2>1
  <2>5. Cpu' = Native!Exec(i, Cpu)
    BY <1>1, <1>4, <2>1, <2>3, <2>4 DEF Cpu
  <2> QED
    BY <1>1, <2>2, <2>5 DEF Follows
<1> QED
  BY <1>9, <1>10, <1>11, <1>12, <1>13 DEF Plain

-----------------------------------------------------------------------------
(* One iteration is one native instruction, or leaves the machine alone.   *)
LEMMA StepFollows ==
    ASSUME IInv, Next
    PROVE  \/ IInv' /\ code' = code /\ Cpu' = Cpu
           \/ IInv' /\ code' = code /\ rsp <= Depth - 1 /\ Cpu' = Native!Exec(code[rip], Cpu)
<1>1. CASE UseFreed
  BY <1>1, CorruptStays DEF UseFreed
<1>2. CASE Iteration
  <2> DEFINE i == code[rip]
  <2>1. rip \in DOMAIN code /\ status = "run"
    BY <1>2 DEF Iteration, Next
  <2>2. Fetched = i
    BY <2>1, FetchedIsCode
  <2>3. Ready
    BY <1>2, <2>1, <2>2 DEF Iteration, Ready
  <2>4. rsp <= Depth - 1
    BY <2>3, ReadyFacts DEF Slots
  <2>5. SkipNop(i) => Follows
    BY <2>3, NopFollows
  <2>6. dispatchRet(i) => Follows
    BY <2>3, RetFollows
  <2>7. dispatchCall(i) => Follows \/ Stays
    BY <2>3, CallFollows
  <2>8. dispatchBranch(i) => Follows \/ Stays
    BY <2>3, BranchFollows
  <2>9. OverrunTable(i) \/ UseFreedAtOnce(i) => Stays
    BY CorruptStays DEF OverrunTable, UseFreedAtOnce, Stays
  <2>10. SkipConditional(i) => Follows
    BY <2>3, SkipFollows
  <2>11. TakeConditional(i) => Follows
    BY <2>3, TakeFollows
  <2>12. RunSymbolic(i) => Follows
    BY <2>3, SymbolicOutcome, OutcomeFollows DEF RunSymbolic
  <2>13. InsnDispatch(i) => Follows
    BY <2>3, HostOutcome, OutcomeFollows DEF InsnDispatch
  <2>14. Follows \/ Stays
    BY <1>2, <2>2, <2>5, <2>6, <2>7, <2>8, <2>9, <2>10, <2>11, <2>12, <2>13 DEF Iteration
  <2> QED
    BY <2>4, <2>14 DEF Follows, Stays
<1> QED
  BY <1>1, <1>2 DEF Next

(* The invariant holds of the first state.                                 *)
LEMMA InitInv == Init => IInv
<1> SUFFICES ASSUME Init PROVE IInv
  OBVIOUS
<1>1. \A v \in 0 .. MaxWord : Con(v) \in Words /\ Sym(v) \in Words
  BY ThinAssumption DEF Con, Sym, Words
<1>2. 0 \in 0 .. MaxWord /\ Caller \in 0 .. MaxWord /\ Handler \in 0 .. MaxWord /\ Entry \in 0 .. MaxWord
  BY ThinAssumption
<1>3. stk \in [Slots -> Words]
  BY <1>1, <1>2 DEF Init
<1>4. cnt \in Words /\ ptr \in Words /\ tab \in Words
  BY <1>1, <1>2, ThinAssumption DEF Init
<1>5. rsp \in 0 .. Depth /\ rsp <= term_rsp /\ term_rsp \in Slots
  BY ThinAssumption DEF Init, term_rsp, Slots
<1>6. TypeOK /\ StopsAtReturn
  BY <1>2, <1>3, <1>4, <1>5 DEF Init, TypeOK, StopsAtReturn
<1>7. Coherent
  <2>1. DOMAIN m_InsnCache = 0 .. CacheSize - 1
    BY DEF Init
  <2>2. ASSUME NEW a \in DOMAIN code PROVE m_InsnCache[Idx(a)] = NoInsn
    <3>1. a \in 0 .. MaxWord
      BY CodesAssumption DEF Init
    <3>2. Idx(a) \in 0 .. CacheSize - 1
      BY <3>1, IdxFacts
    <3> QED
      BY <3>2 DEF Init
  <2> QED
    BY <2>1, <2>2 DEF Coherent
<1> QED
  BY <1>6, <1>7 DEF IInv

(* The invariant is inductive.                                             *)
LEMMA InvInductive == Spec => []IInv
<1>1. IInv /\ [Next]_vars => IInv'
  <2> SUFFICES ASSUME IInv, [Next]_vars PROVE IInv'
    OBVIOUS
  <2>1. CASE Next
    BY <2>1, StepFollows
  <2>2. CASE UNCHANGED vars
    BY <2>2 DEF vars, IInv, TypeOK, StopsAtReturn, Coherent, Idx
  <2> QED
    BY <2>1, <2>2
<1> QED
  BY <1>1, InitInv, PTL DEF Spec

(* Types: addresses, words and the stack pointer stay in their ranges.     *)
THEOREM TypeCorrect == Spec => []TypeOK
<1>1. IInv => TypeOK
  BY DEF IInv
<1> QED
  BY <1>1, InvInductive, PTL

(* For every function: the loop never goes on behind its return.           *)
THEOREM AlwaysStopsAtReturn == Spec => []StopsAtReturn
<1>1. IInv => StopsAtReturn
  BY DEF IInv
<1> QED
  BY <1>1, InvInductive, PTL

(***************************************************************************)
(* The refinement: for every function, seed and size of the cache the loop *)
(* follows the native run, one instruction in one iteration.               *)
(***************************************************************************)
THEOREM LoopFollowsSeed == Spec => FollowsSeed
<1>1. Init => Native!Init
  BY DEF Init, Native!Init, Native!Term, term_rsp
<1>2. IInv /\ [Next]_vars => [Native!Next]_<<code, Cpu>>
  <2> SUFFICES ASSUME IInv, [Next]_vars PROVE [Native!Next]_<<code, Cpu>>
    OBVIOUS
  <2>1. CASE Next
    <3>1. Cpu.rsp = rsp /\ Cpu.rip = rip
      BY DEF Cpu, State
    <3>2. (code' = code /\ Cpu' = Cpu) \/ Native!Next
      BY <2>1, <3>1, StepFollows DEF Native!Next, Native!Term, Cpu, State, ReadStk
    <3> QED
      BY <3>2
  <2>2. CASE UNCHANGED vars
    <3>1. Cpu' = Cpu
      BY <2>2, Unread DEF vars, Cpu
    <3> QED
      BY <2>2, <3>1 DEF vars
  <2> QED
    BY <2>1, <2>2
<1> QED
  BY <1>1, <1>2, InvInductive, PTL DEF Spec, FollowsSeed, Native!Spec, Cpu, State, ReadStk

=============================================================================
