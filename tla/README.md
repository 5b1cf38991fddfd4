# KRover kernel symbolic execution: a TLA+ verification project

KRover (`liboasis.so`) executes one system call of a live Linux kernel concolically.  It runs next
to the kernel on the same processor: instructions without symbolic operands are copied to a
translation page and run natively, the others are interpreted symbolically, and every conditional
instruction whose flags are symbolic adds a constraint and is decided with the concrete seed of the
symbolic objects.  This directory models the parts of it that keep state, checks them with TLC on
small instances and proves the main invariants with TLAPS for all sizes.  Two modules are refinements:
the executors are shown to implement the machine, the controller's loop to follow the native run.

The program is sequential: one thread, no messages, nothing persisted.  What makes it hard is
*several representations of one fact* (bitmap, symbol list and memory; `eflags`, `bsym_flag` and
`m_LastExpr`; the probe table and the copies of the code pages) that long sequences of legal calls must
keep in agreement, *two executors that alternate on the same state* (the host processor knows nothing of
bitmaps and symbols), and *boundaries* (chunk, page, cell and table ends, sub-registers, signed and
unsigned words, the length of a displacement).

## Inventory

| Component | State | Operations | Interacts with | What makes it correct |
|---|---|---|---|---|
| Symbol list (`SymList.cpp`) | doubly linked cells between sentinels, index `m_sm` by start address | `Merge`, `Remove`, `GetCellList`, `GetExpr`, splitting helpers | owned by memory (one list) and by each register | cells ordered and disjoint, index exact, walks end, reads give what was merged |
| Memory bitmap (`MemState.cpp`, `SYMemBitmap`) | 32-byte chunks of bits, raw links between chunks | mark, unmark, test, find | owned by memory | test exact over chunk boundaries, no dangling link, no leaked chunk |
| Symbolic memory (`SYMemState`) | bitmap, one symbol list, the machine's memory | `writeMemoryCell` (concrete, expression, list), `readMemoryCell` | called by operands, `VMState`, the controller | the three layers give the byte last written |
| Register file (`SYCPUState`) | `m_PTRegs`, a bitmap and a symbol list per full register, `bsym_flag` per flag | read and write registers, flag bits | shared with the native execution | sub-registers agree with their register |
| Flags and decisions (`EFlagsManager`) | `m_LastExpr`, `m_Constraint` | save an expression, evaluate a condition, concretise flags | flags in `SYCPUState`, evaluator in `Z3Handler` | the run follows its seed, the constraint is the path condition |
| Evaluator (`Z3Handler`, `Expr`) | `symObjectsMap` of objects met so far | translate an expression, substitute seeds | reads `m_SYMemObjects` | the answer is the condition's value for the seed |
| Thin controller (`CThinCtrl`) | instruction cache, `rip`, counters | the fetch loop, calls, returns, jumps, operand classification | drives both executors | decisions and control flow as on the machine |
| Symbolic executor (`SymExecutor`, `oprand`) | one queued instruction | one handler per instruction | registers, memory, flags | results and flags as on the machine |
| Concrete executor (`ConExecutor`) | translation page | rewrite and run one instruction | registers | same effect as the original |
| Probe controller (`CFattCtrl`) | probe table, copies of code pages, page pool | start, install probes, int3 trap, call emulation | the hypervisor's EPT, the native kernel | every call of interest traps and is emulated as it was |
| Objects (`VMState`) | tables of symbolic objects by key | create, destroy | memory, registers | one key per object |
| Facade and loader (`centralhub`, `loader/main.cpp`) | none of their own | wiring | everything | not modelled |

`PROJECT.json` lists the hazards at their lines: sequences of overlapping writes, stale entries of
indexes and bitmaps, refused writes that already had an effect, off-by-one at cell, chunk and page
ends, full tables, flags that some instructions leave alone, and order conditions at overflow.

## Modules

| Module | Models | State and its counterpart |
|---|---|---|
| `SymBytes` | what a store of symbols promises, byte by byte | `content`: address -> symbolic byte or none |
| `SymList` | `Symbol_List_Map` | `list`: the cells from `m_listheader` to `m_listtail`; `m_sm`: key -> cell identity (the address the cell was allocated for and a number); `content`: the abstract store |
| `SYMemBitmap` | `SYMemBitmap`, `SYMemChunk` | `chunks`, `bitmap`, `l`, `r` per chunk; `symbolic`: what callers marked. A mask is the meet of two shifts of all ones, by `hcave_sz` and by what `symbol_size` leaves, as in `_maskSYMemBitmap` |
| `MemState` | `SYMemState` | `marked` (the bitmap), `content` (the list, as `SymBytes`), `mem`, `aborted`; `want`: the byte last written |
| `FatCtrl` | `CFattCtrl` | `pool`, `redir`, `crt_redir_idx`, `hooks`, `ept`, `probes`, `todo` and `first` (the loop of `InstallInt3ForFunc`), `pushed`, `status`; a trap reports the address behind the int3 (`SavedByTrap`) and `saved_rip` steps back |
| `EFlags` | `EFlagsManager`, flags of `SYCPUState`, `Z3SolveConcritize`, `chkCondFail`, the conditional branches of `processFunction` | `eflags`, `bsym_flag`, `m_LastExpr`, `known`, `sols` (the worlds that satisfy `m_Constraint`), `status`; `native` and `agree`: the machine's own account |
| `Layers` | bytes kept as bitmap, symbol list and concrete bytes | a record `[marked, content, con]`; `WriteCon`, `WriteExpr`, `WriteList`, `ReadExpr` are what `SYCPUState` and `SYMemState` do with it. Bitmap and list have a value where `regIdxToAddrSize` says, the concrete bytes are where `conOffset` says |
| `RegFile` | the registers of `SYCPUState` | `file`: register -> its layers; `want`: the bytes the machine's register has; `astray`: the bytes that the code puts elsewhere |
| `X86`, `Machine` | the machine: words, operands, the effect of an instruction; one path run natively | external; `cpu`: world -> machine state, `insn` |
| `SymExec` | `SymExecutor`, `OprndInfo`, the operand parsers and the default case of `processFunction` | `vm`: layers of registers and memory, `rsp`; `flags`; `path`: the worlds that satisfy `m_Constraint`; `insn`; `status` |
| `Flow` | the native control flow of a function | external; `code`, `cpu` |
| `ThinCtrl` | the loop of `processFunction`, `dispatchCall`, `dispatchRet`, `dispatchBranch` | `rip`, `rsp`, `stk`, `flags`, `m_InsnCache` (with `live`: not deleted), `z3_api_calls`, `status`; `isret`: the slots with a return address |
| `ConExec` | `ConExecutor`: slots, trampolines, `RewRIPInsn`, `ClearTinsn` | `non`, `rip`: the bytes of the two slots; `insn`; `ran`: what the trampoline did |
| `MC*` | instances for TLC | |
| `*Proofs` | theorems | |

*Composition.*  `MemState` is written against two abstractions: the list is the byte store `SymBytes`
(`INSTANCE`), which `SymList` is shown to implement (`ListImplementsStore`, `ReadsExact`), and the
bitmap is a set of bytes, which `SYMemBitmap` is shown to implement (`TestExact`).  `Layers` packages the
two with the concrete bytes; `RegFile` and `SymExec` are built on it, so that `SymExec` composes
registers, memory, operands, flags and both executors.

*Refinement.*  `SymExec` implements `Machine`: the state of each world on the path, read through bitmap
and list, is what the machine has after the same instructions (`Native == INSTANCE Machine WITH cpu <- ...`,
`ImplementsMachine`).  A byte of `X86` has one bit, so that a register of two bytes already has a high byte, a
lower half, carries and signs.  `ThinCtrl` implements `Flow`: each iteration is the native instruction at
the native `rip` (`FollowsSeed`).  Stack slots that hold a return address are read there as the code reads
them, from the concrete bytes.

*Deviations.*  Both refinements hold outside cases that the modules list as `Deviates`: the guard of `Next` (`Conforming`) leaves
the instruction out where it would deviate.  `ConExec` runs the deviating encodings too, and `RunsTheInstruction` exempts
what they do.  Dropping any one of the cases of `SymExec` or `ConExec` makes its run fail.

| Module | Case | Code |
|---|---|---|
| `SymExec` | `ReadsStale`: a list write leaves old symbols in unmarked bytes, a wider read returns them | MemState.cpp:186, CPUState.cpp:415 |
| | `SecondByte`: the concrete value of `al`, `dl`, ... is sought in the second byte of the register, or left there | CPUState.cpp:433, 463 |
| | `WrongWidening`: a concrete source of `movzx` is sign-extended in a register, one of `movsx` zero-extended in memory | oprand.cpp:16 |
| | `WrongConditional`: `set` of a false condition writes nothing; a `cmov` with a symbolic operand and concrete flags always moves | thinctrl.cpp:1276, symexec.cpp:531 |
| | `KeepsUpperHalf`: a 4-byte write by the symbolic executor does not clear the upper half | CPUState.cpp:391 |
| `ThinCtrl` | a return address read as data from a slot that was symbolic gives the old symbol | thinctrl.cpp:646 |
| | a `ret` to a symbolic word that was pushed as data: `dispatchRet` reads the concrete bytes of the slot | thinctrl.cpp:556 |
| | a `cmov` with a symbolic operand and concrete flags, as in `SymExec`; a push with no room left in the stack of the model (`Depth`, a bound) | symexec.cpp:531 |
| `ConExec` | `Vmcall`: a `vmcall` without a stop code; if it returns, the rewriting goes on with bytes it has not prepared, or leaves the slot as it is | conexec.cpp:417, 446, 506 |
| | `ShortNegative`: displacements 128 .. 255 become one byte, which the processor takes as negative | conexec.cpp:462 |
| | `NotRex`: the byte that is taken for REX is another prefix or the opcode (`66 8b`, `64 8b`, `80`, `83`, `c6`, and their forms with `gs`) | conexec.cpp:410, 454 |
| | `NotLast`: REX is put behind the first prefix of an `and` that has several | conexec.cpp:513 |
| | `NewRegister`: the REX prefix that selects `r15` turns `ah`, `ch`, `dh`, `bh` into `spl`, `bpl`, `sil`, `dil` | conexec.cpp:412, 478 |
| | `OtherTest`: a `test` other than `f6` without a prefix and with an immediate that is not zero (another prefix or opcode moves its bytes) | conexec.cpp:563 |
| | `TwoRex`: a REX prefix of `xadd` is followed by another one, which makes it void | conexec.cpp:541 |

*Expressions that cannot be evaluated.*  `Z3Handler` has no case for `ZeroExtExpr` (Z3Handler.cpp:434), recurses for ever on
`SignExtExpr` (715), and throws on words of different sizes and on an extract beyond its operand.  The handlers build such
expressions: `movzx` and `movsx` of a symbolic operand, `cbw` and `cdq`, the upper half of `mul`, both results of `idiv`, and binary
operations whose immediate dyninst gives another size than the other operand has (`WidthsDiffer`; only `cmp` takes the other size,
symexec.cpp:598).  In `SymExec` every symbolic byte carries whether evaluating it fails (`fails`), everything computed from it
fails too, and a condition on failing flags ends the run (`Stops`).  What value such a byte would have is a ghost: no step reads it, and
`ImplementsMachine` has the machine's there (`Unevaluable`).  So for these results the refinement says only that
their registers are marked, that nothing else is changed, and that no decision is ever taken on them.

A failed assertion or `exit` is a step to `status = "abort"`, which the refinements allow: `shr`, `sar`, `not` and
`shrd` of a symbolic operand, a shift by a symbolic count, a symbolic address, an operand in `ah`, `bh`, `ch` or `dh` (`m_Regs` has
none, `idxToReg` asserts: `NoRegister`), a condition on an expression that cannot be evaluated, `mov` of a concrete value
over a symbolic memory cell, a call through a symbolic pointer, every jump through memory (the assertion at
thinctrl.cpp:774 has its condition inverted).  Undefined behaviour is a nondeterministic step to
`status = "corrupt"`: the deleted instruction, the table of solver times, the jump through symbolic memory.

*Data.*  An expression in `SymList` is the sequence of bytes it denotes, so `ExtractExpr` is a
subsequence; a split cuts a cell with `CutCell`, links the parts with `Splice` and indexes them with `Enter`.  In `EFlags` it is an operator on two operands and means a function of the world (an
assignment of words to symbolic objects).  Addresses of the kernel are negative as `int64_t`, and the
instance of `SymList` uses negative ones because the sentinels are compared with them signed.  `FindFuncCallInfo`
compares through an `int`, which is exact for the kernel's addresses (sign extension restores them); the search of
`FatCtrl` compares the addresses themselves.

*History variables.*  `content` in `SymList`, `symbolic` in `SYMemBitmap`, `want` in `MemState` and `RegFile` and
`native`, `agree` in `EFlags` record what the program should have, `astray` in `RegFile` where the code is known to differ from it; no
guard reads them.  A byte is astray after a 4-byte write (the upper half) and after a concrete write of a byte register (the first and
the second byte, unless marked), until something rewrites it.

*Atomicity.*  The program is sequential, so one call is one action, and one iteration of the loop in
`ThinCtrl` and `SymExec`.  `InstallInt3ForFunc` is split at its loop because it can stop in the middle; no other
action is enabled while `todo` is not empty.

*Fairness.*  `ThinCtrl` assumes `WF_vars(Next)`: the loop runs on one thread that the analysis never
suspends and waits for nothing, so an enabled iteration is taken.  Nothing else is assumed.

*Aborts.*  A failed assertion, a `vmcall` with a stop code and a write to NULL are terminal states.  Three `vmcall`s of
`RewRIPInsn` set no code (conexec.cpp:417, 446, 506) and may return, so `ConExec` has both outcomes (`Vmcall`).  Terminal
is also the end of the loop, which is why the runs of these modules do not check for deadlock
(`symlist`, `bitmap` and `regs` do).

*Left to the environment.*  Whether `memcpy` from a redirected page sees the original or the copy is
decided by the hypervisor, outside this repository: `ReadsSeeCopy` is a constant of `FatCtrl`.
The x86 flags (`FlagOf`), condition codes (`Holds`), word arithmetic, `X86`, `Machine`, `Flow` and the decoder of
`ConExec` are external definitions.  The decoder of `ConExec` knows every opcode of the operations that the rewriting dispatches on
(the arithmetic and `mov` opcodes, the groups `80`, `81`, `83`, `c6`, `c7`, `f6`, `f7`, `lea`, `xchg`, `xadd`, `test`), all legacy prefixes and
REX, with one base register and no index: an instruction with a SIB byte is never relative to rip.
`EncodingAssumption` says what an assembler guarantees of an instruction: its decoded length is its length, no prefix occurs
twice, and REX is next to the opcode.  Where a rewritten encoding is none of these instructions, `ran` is what `Decode` makes of the bytes; no
property depends on it, for those are deviations.

## Runs

| Run | Instance and bounds | Result |
|---|---|---|
| `symlist` | five addresses, ranges up to three bytes, single cells and a list with a gap: cells are cut at the head, at the tail and in three, and adjacent, nested and equal ranges all occur; at most `MaxId` + 1 = 6 live cells per allocation address, a bound that is never met (the run checks for deadlock); 76755 states | passes |
| `bitmap` | three chunks of three bytes, ranges up to five bytes: ranges within one chunk and over two and three chunks, each neighbour freed first or last | passes |
| `mem_any` | four bytes over a chunk boundary, one- and two-byte operands, every non-empty list: the fitting, the cross-cell and the cross-chunk case all happen | passes |
| `mem_span` | four bytes, one- and three-byte operands, lists that reach both ends and may have a hole | passes |
| `probes` | three pages of four addresses, two functions of which one spans pages and calls itself, one unknown callee and one without a destination, two starts of system calls, tables of nine probes and six pages, so that each can fill up | passes |
| `compare` | words of two bits, one object compared with every word in both orders, every condition code as jump and as cmov or set, concrete instructions that set all flags and reach every combination of them | passes |
| `two_objects` | two objects compared in turn | `SeedOnPath` is violated |
| `regs` | one register of four bytes with its lower half, word and low byte, two symbols and two concrete bytes, lists that reach both ends: every overlap of two sub-registers | passes |
| `symexec` | two registers of two bytes, four bytes of memory with a symbolic object of two and the stack above it, 47 instructions, every program of three: long enough for a value to be moved, changed and read back by another executor, and for a push to reach the object | passes |
| `thin` | five functions: a loop with a call, calls and jumps through a register and through memory, tail calls; counters 1 to 3, symbolic or not; a table of one solver time so that it overruns | passes, with `FollowsSeed` (refinement) and `RunEnds` (liveness) |
| `freed_insn` | the same | `CachedInsnsLive` is violated |
| `conexec` | 55 encodings, those that are rewritten rightly, wrongly and not at all, with seven displacements (none, one byte positive and negative, two, three with zero low bytes, all, negative), six instructions without rip | passes |

Two-bit words have every relation between two operands (less, equal, greater; signed and unsigned;
with and without carry and overflow); the proofs remove the bound on the width.

Two runs end in a violation; `PROJECT.json` quotes the lines they refute.

* `two_objects`: with two symbolic objects the evaluator substitutes only one of them, and the run leaves the path of its seed.
* `freed_insn`: `InstrInfo` owns, through a `shared_ptr`, the instruction that `m_InsnCache` keeps a raw pointer to, so each
  instruction executed symbolically is deleted while it is cached and used again in the next round of the loop.

The code has more disagreements with what one would expect of it, which no run reports: the constants of the instances, the hypotheses of the
theorems or the deviations above leave the case out or exempt it.

* Order conditions compare the operands of the last expression even if it is no subtraction: after `test x, x` the condition of `jle`
  is `x <= x` (EFlagsManager.cpp:901; `FaithfulConditions`, and `compare` has subtractions only).
* `inc` and `dec` on the host make every flag concrete, also the carry that they leave symbolic (CPUState.cpp:195; `WholeFlags`, and in
  `compare` a concrete instruction sets every flag).
* A symbolic cmov ignores its condition when the flags are concrete (`PlainMoves`).
* A list write leaves old symbols behind in unmarked bytes (`Spanning`).
* A comparison that no register index satisfies makes every byte register the second byte of its register (CPUState.cpp:433, 463;
  `astray` and `SecondByte`).
* Rip-relative instructions of seven bytes are taken to have a REX prefix; those with another prefix or a byte immediate
  (`2e 3b 05`, `66 8b 05`, `80`, `83`, `c6 05`) become another instruction and are run (conexec.cpp:454; `NotRex`).

Further, the page pool is one page short of the guard that reports "new_pages used up", so the copy
before it writes to NULL (`FatCtrl` reaches the status `"memcpy to NULL"`).
Smaller observations:
`update_crt_redir_idx` (fatctrl.cpp:332) searches without stopping at a hit, so an already redirected
page is copied again (`NeedsRedirect` models this); `DependencyFlagConcreted` decides LE with `&&`
where its comment (EFlagsManager.cpp:462) has "or", without effect because its callers decide
concrete flags elsewhere; a conditional jump on a symbolic sign or overflow flag ends in an assertion because
`CreateExprByID` has no such expression (`HasCondition`).

The comment at thinctrl.cpp:1047 ends the loop when `rsp` is "higher or equal to init rsp", the code when it
is higher: `StopsAtReturn` and `RunEnds` show that the code's condition is the right one for functions that
leave the stack as they found it.  `RunEnds` is the liveness property: whatever mixture of executors a function
takes, the loop reaches its return, an abort or undefined behaviour, and never goes on in the caller.  The walk of
`GetAffectedCells` must end too, and `WalksEnd` states that as an invariant.

## Proofs

All theorems hold for every value of the constants that satisfies the named assumptions of the modules.

* `MemStateProofs`, on the bitmap.  `BitmapInv` is `BitmapTypeOK`, `BitsExact` (the bit of a byte is set exactly when the
  byte is symbolic), `ChunksLive` and `LinksSound`.  `TestExact` is not inductive: it speaks of ranges and says
  nothing of the bits of a chunk, hence `BitsExact`; `LinksSound` needs `ChunksLive`, because an
  unmark frees exactly the chunks without bits.  `MaskIsRange` shows that the two shifts leave exactly the bits of the range that
  lie in the chunk, whether it begins, ends or does neither there.  From it: `TestAlwaysExact`, `LinksNeverDangle`,
  `ChunksAlwaysLive`, `BitmapTypeCorrect`.  `BitmapDecidesCell` is the joint to the next part: under the
  invariant the bitmap's test of a cell is the test on the set of bytes that `MemState` works with.
* `MemStateProofs`, on memory.  `IInv` is `TypeOK`, `MarkedIsCovered` and `BytesFresh`, which is inductive as it
  stands for arbitrary cell lists: `MarkedAlwaysCovered`, `BytesAlwaysFresh`.  With `Spanning` the
  layers agree (`LayersAlwaysAgree`), and `SpanningReadsFresh` follows: this is what excludes stale symbols.
* `EFlagsProofs`.  `PathExact` needs two facts more: `Uniform` (the flags are either all concrete or all from
  `m_LastExpr`) and `DefiniteIsConcrete`.  The hypotheses leave out what the code gets wrong: `FaithfulConditions` (each condition means of
  the expression what it means of its flags), `WholeFlags` (an instruction sets all flags or none), `PlainMoves` (no symbolic operand on a
  cmov or set) and `OneObject`.  Only the last has a run that shows the failure, `two_objects`.  `ComparesFaithful` discharges the first for subtractions at every width: the
  signed order is SF = OF and the unsigned one is CF, overflow included.  From it:
  `PathAlwaysExact`, `ComparesPathExact`, `SeedAlwaysOnPath`; `TypeCorrect` needs none of
  the hypotheses.

* `RegFileProofs`.  `IInv` is `TypeOK` together with `Sound` for each register if the heap was zero: marked bytes are covered and
  every byte that is not astray is the machine's.  It is inductive for lists of any shape and every sub-register that `m_Regs` has, 4-byte writes
  and byte registers included.  `ZeroedHeap` is needed because the constructor does not clear the bitmaps (CPUState.h:119).  One lemma
  per kind of write says what it does to one register's layers, and
  one step lemma lifts it to the file.  For `ReadsFresh` bits and symbols must agree (`Aligned`), which lists that
  reach both ends preserve.  From it, for every width, set of registers and set of bytes: `TypeCorrect` without a hypothesis, `MarkedAlwaysCovered` and
  `BytesAlwaysFresh` under `ZeroedHeap`, `SpanningReadsFresh` under `ZeroedHeap` and `Spanning`.

* `SymListProofs`.  The hypotheses are those of the module: `AddrAssumption` (keys of addresses in use are distinct,
  none is the tail's) and `SourcesAssumption` (callers merge cells in address order, none empty, each with as many
  bytes as its size: what `setSymValue` builds and what `GetCellList` returns).  None of the invariants is
  inductive alone: a walk stops where it should only if the list is ordered, the shortcut through `m_sm` is right only if
  the index is exact, and a split keeps the store only if each cell carries its bytes.  `IInv` puts them
  together as `Good(list, m_sm, content)`:
    * `Wf`: sound cells in a chain (each ends before any later one begins, ids differ) between the sentinels;
    * `Index`: `m_sm` maps exactly the keys of the cells to their ids;
    * `Rep`: where a cell lies the store has its byte, elsewhere nothing.

  Every operation is a splice, so three lemmas carry the proof: what replacing a stretch of cells does to `Wf`
  (`SpliceWf`), to `Index` (`SpliceIndex`) and to `Rep` (`SpliceRep`).  `AffectedFacts` shows where the two walks
  stop, `CutInTwo` and `CutInThree` that parts of a cell stand for the cell, `SplitOpens` that after the split the range
  begins and ends at cell boundaries, `OpenedFacts` that the removal erases just the range, `InsertFacts` that
  the merged cells fill it.  For reads, `Seen` says of a stretch of copied cells that it has the store's bytes and all
  the symbols of the range; each split of the copies preserves it (`SeenHead`, `SeenTail`, `SeenThree`), whatever
  their ids.  From it: `TypeCorrect`, `ListAlwaysOrdered`, `IndexAlwaysExact`, `WalksAlwaysEnd`,
  `ListAlwaysImplementsStore`, `ReadsAlwaysExact`.
* `FatCtrlProofs`.  `SearchCorrect`: the binary search finds a function of any sorted database exactly when it is
  there.  The recursion is a function on triples low, high, address; its equation is proved by well-founded
  recursion on `high - low`, and correctness by taking a smallest range on which it would fail.  `IInv` adds to
  the checked properties that the tables have matching lengths and the pool one page less than the table (`Shape`, `Pool`),
  that the hypervisor's mapping leads to a copy of the page and to the newest one (`Mapped`, `Newest`),
  that there is a copy once the first call of a function is probed (`Started`), and that each call of the function
  entered last is probed or still to be (`Expected`).  From it: `TypeCorrect`, `HooksAlwaysInOwnPage`,
  `TablesAlwaysBounded`, `AlwaysEmulatesTheCall` (no trap is unknown to `find_probe_idx`, and the step back meets the call it stands at), `ProbesAlwaysArmed` and `CalleeAlwaysProbed`, for every
  database, page size, table size and sequence of traps.  `ProbesStayArmed` and `CalleeProbed` carry the hypothesis
  `ReadsSeeCopy`; `CalleeProbed` says of every call of the entered function that it is armed.
* `ThinCtrlProofs`.  `LoopFollowsSeed` is the refinement: for every function, seed, cache and stack, the
  initial states of `ThinCtrl` are initial states of `Flow` and every step is a native step or changes nothing that the native run has.
  `IInv` is `TypeOK`, `StopsAtReturn` and `Coherent` (a hit in the cache is the instruction at that
  address).  `CacheAssumption` is the code's own: the cache is indexed by the address modulo its size and a hit is
  not compared with the address, so two addresses of one function may not share a place.  `CodesAssumption` says that
  instructions lead to addresses.  Also `TypeCorrect` and `AlwaysStopsAtReturn`.
* `SymExecProofs`, the invariant.  The parameters are any program of instructions whose operands fit together
  (`WellFormed`: the forms that the x86 instructions have, at most one operand in memory), any even register width, set of
  registers, memory that is a multiple of the width, and symbolic object in it.  `IInv` is `TypeOK`,
  `MarkedIsCovered`, `SeedStays` (the seed satisfies each condition that it decided) and `FlagsAgree` (flags that are not symbolic are
  equal in all worlds that are left).  It does not assume `Conforming`: each handler, each skipped instruction and the host
  preserve it in the deviating cases too (one lemma `...Keeps` per handler).  From it: `TypeCorrect`,
  `MarkedAlwaysCovered`.  `SeedStays` is part of the invariant only; with one object `EvalCondition` makes it hold.
* `SymExecProofs`, the refinement: `SymExecImplementsMachine`, under `Conforming`.  `CpuIn(w)` is the machine state that
  bitmaps, symbols and bytes give in a world `w`.  Three parts carry it:
    * what a store does: `StoredCon`, `StoredSym` and `StoredList` say that each way to write an operand changes `CpuIn(w)` as the
      machine's `Put` does, if the upper half of a register that is written by its lower half is zero (`Clean`, from `~KeepsUpperHalf`);
    * what a read gives: `SeenCon`, `SeenSym` and `SeenSum` say that an operand, read as bytes or as an expression, has the
      value that `Get` has in `w`, if no old symbol is left in it (`Fresh`, from `~ReadsStale`).  `ByteFacts` has from `~SecondByte` that the
      concrete bytes of a byte register matter only where they are in their place; `UnevaluableFacts` says what the ghost is;
    * what the host does: `ThroughPut` says that a native write to bytes that are not symbolic shows in every world through the
      symbols that stay (`Under`), and `PlainSeen` that the operands of a dispatched instruction are the same everywhere.

  Then one lemma `...Same` per handler, `SkipSame` and `TakeSame` for conditions (here the worlds that leave matter),
  and one lemma `Plain...` per kind of dispatched instruction.  `cmov` and `set` on the host need `FlagsAgree`: the
  host has the seed's flags.  `AbortIsClean` makes every abort a stutter.  `NativeExec` identifies the operators of the instance with those of the module.
* `ConExecProofs`, the slots.  `SlotsAlwaysClear`: whatever instruction of at most 15 bytes is dispatched, the slot holds
  only nops afterwards.  The argument is a bound: `RewrittenFits` goes through the cases of `RewRIPInsn` and shows
  that no encoding it produces is longer than the twelve bytes that `InsnExecRIP` clears.  Also `TypeCorrect`.
* `ConExecProofs`, the effect.  `AlwaysRunsTheInstruction`, for any set of instructions that satisfies `EncodingAssumption`
  and any byte after them in memory, outside `Deviates` as in the run.  The inductive invariant it needs is
  `SlotsClear`: the bytes are copied among nops only.  Three parts carry it:
    * what a slot does: `SlotLoops` shows that the recursion over the bytes of a slot has a solution, by the place nearest to the
      end for which none exists; `SameInsn` that decoding looks at the bytes of the instruction and no others; `SlotRuns` that
      a slot of nops with one whole instruction has that instruction's effect and no other;
    * what a change of bytes does to an instruction: `PrependsRex`, `InsertsRex` and `ExtendsRex` prepare REX, `Shortens`
      and `Lengthens` change the ModRM byte and the displacement.  The result denotes the
      same operation on the same address if rip is replaced by r15;
    * which bytes are changed: one lemma per case of `RewRIPInsn` (`PlainRight`, `GsRight`, `AndRight`, `XaddRight`,
      `TestRight`) shows that REX, ModRM and displacement lie where the code looks for them, from the length of the
      instruction that it tests.

  The proof of `TestRight` showed that a REX prefix before `f6` deviates too, so `OtherTest` includes it.

In `SymListProofs` and `ConExecProofs` the operators on sequences are used through names of the module (`Size`, `At`, `Splice`),
with lemmas that say what they give, because the provers treat the built-in ones by other means.

Only model-checked: `RunEnds` of `ThinCtrl`, because liveness is outside the prover's reach.

## Not modelled, and the plan

Not modelled: the loader, the facade's tables of system-call arguments, printing and timing, example and
test programs, the debug-register and #VE handlers of `CFattCtrl`, the code that is compiled but
never called (`BlockDispatch` and its trampoline, `CreateConstraint`, the decision file, `writeConReg`,
`destroySYMemObject`, `destroySYRegObject`, `process_jmp`), and
`SymExecutor::_parseOperand_RW`, which no instruction parsed as lists of cells reaches.
In `EFlags`, shifts, `neg` and `not` as sources of flags and the parity and auxiliary flags; in `SymExec` and
`ThinCtrl` conditions on flags other than the zero flag (they are `EFlags`' subject).  The keys of symbolic objects
(`HashTogether` computes `addr << (3 + size)`) collide only for addresses that are multiples of each other by
a power of two, which kernel addresses, all with the same high bits, are not; the tables are left out.  `createSYRegObject` gives its expression no
object, so a register object cannot be evaluated; registers become symbolic only by instructions in the model.
Segment bases are taken as part of an address.

Order of the work, most important first; all of it is done:

1. `SymBytes`, `SymList`: the store of symbols.
2. `SYMemBitmap`, `MemState` and their proofs: the layers of memory.
3. `EFlags` and its proofs: decisions and the path condition.
4. `FatCtrl`: probes.
5. `Layers`, `RegFile` and its proofs: registers and sub-registers.
6. `X86`, `Machine`, `SymExec`: the executors over registers, memory and flags, refining the machine.
7. `Flow`, `ThinCtrl`: the loop, refining the native control flow, and its end.
8. `ConExec`: slots and the rewriting of rip-relative operands.
9. Proofs of `SymList`, `FatCtrl`, `ThinCtrl` and `ConExec`.
10. Proofs of `SymExec`: the invariant and the refinement of `Machine`.
