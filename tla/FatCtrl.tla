------------------------------ MODULE FatCtrl ------------------------------
(***************************************************************************)
(* CFattCtrl (fatctrl.cpp): follows a native run of the kernel with int3   *)
(* probes.  A probe is planted in a private copy of the code page (the     *)
(* hypervisor redirects the page to the copy); when it traps, the call it  *)
(* stands on is emulated and the calls of the callee are probed in turn.   *)
(*                                                                         *)
(* Copies are numbered in the order they are made, as redir_code_pages is. *)
(* A vmcall with a stop code ends the analysis.                            *)
(***************************************************************************)
EXTENDS Integers, Sequences, FiniteSets, SequencesExt

CONSTANTS
    PageSize,               \* 0x1000
    MAX_INT3,               \* entries of probe_orig_inst
    MAX_Redir_Code_Page,    \* entries of redir_code_pages
    FuncDB,                 \* m_func_call: sorted sequence of
                            \* [func_addr, calls: Seq([addr, len, dest])]
    Starts,                 \* the addresses MoniStartOfSE is called with
    StartDest,              \* the destination it records for its probe
    ReadsSeeCopy            \* does reading a redirected page read its copy?

(* struct call_insn: the address of a call, its length and destination.    *)
CallSites == [addr : Nat, len : Nat, dest : Nat]

ASSUME FatAssumption ==
    /\ PageSize \in Nat \ {0} /\ MAX_INT3 \in Nat \ {0}
    /\ MAX_Redir_Code_Page \in Nat \ {0}
    /\ Starts \subseteq Nat \ {0} /\ StartDest \in Nat \ {0}
    /\ ReadsSeeCopy \in BOOLEAN
    /\ FuncDB \in Seq([func_addr : Nat, calls : Seq(CallSites)])
    /\ \A i \in 1 .. Len(FuncDB) - 1 : FuncDB[i].func_addr < FuncDB[i+1].func_addr
    /\ \A i \in DOMAIN FuncDB : FuncDB[i].calls # <<>>

VARIABLES
    pool,           \* pages left in m_page_pool
    redir,          \* redir_code_pages: the original page of each copy
    crt_redir_idx,  \* index of the copy in use
    hooks,          \* per copy: the original addresses of its int3 bytes
    ept,            \* original page -> the copy the hypervisor maps there
    probes,         \* probe_orig_inst: sequence of [addr, len, dest]
    todo,           \* calls that InstallInt3ForFunc has still to probe
    first,          \* the next call is the first of its function
    pushed,         \* what emulCall did last: [trap, dest, ret], trap being the
                    \* int3 that trapped, ret the return address it pushed
    status          \* "run", or why the analysis ended

vars == <<pool, redir, crt_redir_idx, hooks, ept, probes, todo, first,
          pushed, status>>

crt_max_redir_idx == Len(redir)

PageOf(addr) == addr - (addr % PageSize)

(* The constructor and InitRediPagePool: PoolInit skips the first page.    *)
Init ==
    /\ pool = MAX_Redir_Code_Page - 1
    /\ redir = <<>> /\ hooks = <<>> /\ ept = <<>>
    /\ crt_redir_idx = 1
    /\ probes = <<>>
    /\ todo = <<>> /\ first = FALSE
    /\ pushed = <<>>
    /\ status = "run"

-----------------------------------------------------------------------------
(* FindFuncCallInfo: binary search for addr between low and high; the      *)
(* index of the function, or 0.                                            *)
SearchRanges == (1 .. Len(FuncDB) + 1) \X (0 .. Len(FuncDB)) \X Nat

(* One iteration; `search` is the rest of the loop.                        *)
Narrow(search, low, high, addr) ==
    LET mid == (low + high) \div 2
    IN  IF low > high THEN 0
        ELSE IF FuncDB[mid].func_addr < addr THEN search[<<mid + 1, high, addr>>]
        ELSE IF FuncDB[mid].func_addr > addr THEN search[<<low, mid - 1, addr>>]
        ELSE mid

Search[q \in SearchRanges] == Narrow(Search, q[1], q[2], q[3])

FindFuncCallInfo(addr) == Search[<<1, Len(FuncDB), addr>>]

CallsOf(func_addr) ==
    LET idx == FindFuncCallInfo(func_addr)
    IN  IF idx = 0 THEN <<>> ELSE FuncDB[idx].calls

(* Mutant: the copy starts without the int3 bytes of the copy it replaces. *)
HooksReadNone(page) == {}

(* What memcpy from an original page brings along.                         *)
HooksRead(page) ==
    IF ReadsSeeCopy /\ page \in DOMAIN ept THEN hooks[ept[page]] ELSE {}

(***************************************************************************)
(* The outcomes of RedirCodePageHyperCall: the table is full and the       *)
(* analysis stops; the pool is empty and memcpy writes to NULL; or the     *)
(* page is copied and the hypervisor told.                                 *)
(***************************************************************************)
RedirCodePageHyperCall ==
    IF crt_max_redir_idx = MAX_Redir_Code_Page THEN "new_pages used up"
    ELSE IF pool < 1 THEN "memcpy to NULL"
    ELSE "run"

(* Mutant: a page change within a function goes unnoticed.                 *)
NeedsRedirectFirstOnly(addr) == first

(***************************************************************************)
(* update_crt_redir_idx ends its loop with i = crt_max_redir_idx whether   *)
(* or not it met the page, so it always redirects.                         *)
(***************************************************************************)
NeedsRedirect(addr) == ~(~first /\ PageOf(addr) = redir[crt_redir_idx])

(* Mutant: the hypervisor is given the copy before the new one.            *)
RedirectsToPrevious(page) ==
    /\ pool' = pool - 1
    /\ redir' = Append(redir, page)
    /\ crt_redir_idx' = crt_max_redir_idx + 1
    /\ ept' = [p \in DOMAIN ept \cup {page} |->
                 IF p = page THEN crt_max_redir_idx ELSE ept[p]]

Redirects(page) ==
    /\ pool' = pool - 1
    /\ redir' = Append(redir, page)
    /\ crt_redir_idx' = crt_max_redir_idx + 1
    /\ ept' = [p \in DOMAIN ept \cup {page} |->
                 IF p = page THEN crt_max_redir_idx + 1 ELSE ept[p]]

(* Mutant: the copy is refreshed before each int3 and loses the others.    *)
InstallPerInt3Fresh(call, copies, idx) ==
    /\ probes' = Append(probes, call)
    /\ hooks' = [copies EXCEPT ![idx] = {call.addr}]
    /\ status' = IF Len(probes) + 1 >= MAX_INT3 THEN "int3 array used up" ELSE status

(* Mutant: `>` for `>=`.                                                   *)
InstallPerInt3OneMore(call, copies, idx) ==
    /\ probes' = Append(probes, call)
    /\ hooks' = [copies EXCEPT ![idx] = @ \cup {call.addr}]
    /\ status' = IF Len(probes) + 1 > MAX_INT3 THEN "int3 array used up" ELSE status

(***************************************************************************)
(* InstallPerInt3: record the probe, write the int3 into the copy at       *)
(* crt_redir_idx, and stop once the array is full.  `copies` are the       *)
(* copies after a redirection.                                             *)
(***************************************************************************)
InstallPerInt3(call, copies, idx) ==
    /\ probes' = Append(probes, call)
    /\ hooks' = [copies EXCEPT ![idx] = @ \cup {call.addr}]
    /\ status' = IF Len(probes) + 1 >= MAX_INT3 THEN "int3 array used up" ELSE status

(* One call of InstallInt3ForFunc's loop, or the one of MoniStartOfSE.     *)
InstallNext ==
    LET call == Head(todo)
        page == PageOf(call.addr)
    IN  /\ status = "run" /\ todo # <<>>
        /\ \/ /\ ~NeedsRedirect(call.addr)
              /\ InstallPerInt3(call, hooks, crt_redir_idx)
              /\ UNCHANGED <<pool, redir, crt_redir_idx, ept>>
           \/ /\ NeedsRedirect(call.addr) /\ RedirCodePageHyperCall = "run"
              /\ Redirects(page)
              /\ InstallPerInt3(call, Append(hooks, HooksRead(page)), Len(hooks) + 1)
           \/ /\ NeedsRedirect(call.addr) /\ RedirCodePageHyperCall # "run"
              /\ status' = RedirCodePageHyperCall
              /\ UNCHANGED <<pool, redir, crt_redir_idx, ept, probes, hooks>>
        /\ todo' = Tail(todo)
        /\ first' = FALSE
        /\ UNCHANGED pushed

(* MoniStartOfSE: probe the start of a system call; len 5, fixed dest.     *)
MoniStartOfSE(addr) ==
    /\ status = "run" /\ todo = <<>>
    /\ todo' = <<[addr |-> addr, len |-> 5, dest |-> StartDest]>>
    /\ first' = TRUE
    /\ UNCHANGED <<pool, redir, crt_redir_idx, hooks, ept, probes, pushed, status>>

(* An int3 that the kernel can run into: in a copy the hypervisor maps.    *)
Armed == UNION { hooks[ept[p]] : p \in DOMAIN ept }

ProbesAt(rip) == { i \in DOMAIN probes : probes[i].addr = rip }

(* find_probe_idx: the first entry for the address.                        *)
find_probe_idx(rip) == CHOOSE i \in ProbesAt(rip) : \A j \in ProbesAt(rip) : i <= j

(* What find_probe_idx makes of a trap; both reports are stop vmcalls.     *)
TrapOutcome(rip) ==
    IF ProbesAt(rip) = {} THEN "addr not found"
    ELSE IF probes[find_probe_idx(rip)].dest = 0 THEN "need a disassembler"
    ELSE "run"

(* What the processor saves when the int3 at addr traps: the rip behind it. *)
SavedByTrap(addr) == addr + 1

(* Mutant: the saved rip is not stepped back.                              *)
saved_ripBehind(rip) == rip

(* saved_rip -= 1                                                          *)
saved_rip(rip) == rip - 1

(***************************************************************************)
(* emulCall: the address after the call is pushed on the kernel's stack    *)
(* and the destination becomes its rip.                                    *)
(***************************************************************************)
emulCall(addr, rip) ==
    LET probe == probes[find_probe_idx(rip)]
    IN  pushed' = [trap |-> addr, dest |-> probe.dest, ret |-> rip + probe.len]

(***************************************************************************)
(* INT3Handler, for the int3 at addr: emulCall finds the probe; then       *)
(* InstallInt3ForFunc probes the calls of the callee.                      *)
(***************************************************************************)
INT3Handler(addr) ==
    LET rip == saved_rip(SavedByTrap(addr))
    IN  /\ status = "run" /\ todo = <<>> /\ addr \in Armed
        /\ status' = TrapOutcome(rip)
        /\ \/ /\ TrapOutcome(rip) # "run"
              /\ UNCHANGED <<pushed, todo, first>>
           \/ /\ TrapOutcome(rip) = "run"
              /\ emulCall(addr, rip)
              /\ todo' = CallsOf(pushed'.dest)
              /\ first' = (todo' # <<>>)
        /\ UNCHANGED <<pool, redir, crt_redir_idx, hooks, ept, probes>>

Next ==
    \/ InstallNext
    \/ \E addr \in Starts : MoniStartOfSE(addr)
    \/ \E addr \in Armed : INT3Handler(addr)

Spec == Init /\ [][Next]_vars

-----------------------------------------------------------------------------
(* The calls of the database, and the ones MoniStartOfSE has written in.   *)
StartCalls == { [addr |-> a, len |-> 5, dest |-> StartDest] : a \in Starts }
AllCalls == (UNION { ToSet(FuncDB[i].calls) : i \in DOMAIN FuncDB }) \cup StartCalls

(* Tables of copies and probes; one set of hooks per copy.                 *)
TypeOK ==
    /\ pool \in 0 .. MAX_Redir_Code_Page
    /\ Len(hooks) = Len(redir)
    /\ ept \in [ToSet(redir) -> DOMAIN redir]
    /\ ToSet(probes) \subseteq AllCalls /\ ToSet(todo) \subseteq AllCalls
    /\ status \in {"run", "int3 array used up", "new_pages used up",
                   "memcpy to NULL", "addr not found", "need a disassembler"}

(***************************************************************************)
(* crt_redir_idx is followed correctly across pages: an int3 is only ever  *)
(* written into a copy of the page its call lies on, and is a recorded     *)
(* probe, so find_probe_idx never runs off its end without a value         *)
(* (fatctrl.cpp:361 writes at addr - offset of the current copy; 455).     *)
(***************************************************************************)
HooksInOwnPage ==
    \A k \in DOMAIN redir : \A h \in hooks[k] :
        PageOf(h) = redir[k] /\ ProbesAt(h) # {}

(***************************************************************************)
(* When INT3Handler has returned to the kernel, every call of the callee   *)
(* is armed, also when the function spans pages and returns to one it has  *)
(* left, and whatever MoniStartOfSE has redirected since: none escapes     *)
(* analysis.  As ProbesStayArmed, if a redirected page reads as its copy.  *)
(***************************************************************************)
CalleeProbed ==
    (ReadsSeeCopy /\ status = "run" /\ todo = <<>> /\ pushed # <<>>)
        => \A call \in ToSet(CallsOf(pushed.dest)) : call.addr \in Armed

(***************************************************************************)
(* No int3 that traps is unknown to find_probe_idx, whichever copies its   *)
(* page went through, and the call that stands there is emulated: the      *)
(* kernel enters its destination and will return behind it, although the   *)
(* trap reports an address one byte further on (fatctrl.cpp:473).          *)
(***************************************************************************)
EmulatesTheCall ==
    /\ status # "addr not found"
    /\ pushed # <<>> =>
        \E call \in AllCalls :
            /\ call.addr = pushed.trap /\ call.dest = pushed.dest
            /\ pushed.ret = call.addr + call.len

(***************************************************************************)
(* If a redirected page reads as its copy, a probe once installed stays    *)
(* armed although its page is copied again and again: the newest copy has  *)
(* inherited the int3 bytes of the older ones (fatctrl.cpp:277).           *)
(***************************************************************************)
ProbesStayArmed ==
    ReadsSeeCopy => \A i \in DOMAIN probes : probes[i].addr \in Armed

(* Neither table is ever written past its end.                             *)
TablesBounded ==
    /\ Len(probes) <= MAX_INT3 /\ (Len(probes) = MAX_INT3 => status # "run")
    /\ Len(redir) <= MAX_Redir_Code_Page
=============================================================================
