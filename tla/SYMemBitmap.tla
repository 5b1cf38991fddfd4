---------------------------- MODULE SYMemBitmap ----------------------------
(***************************************************************************)
(* SYMemBitmap (MemState.cpp, MemState.h): one bit per byte of memory says *)
(* whether the byte is symbolic.  The bits are kept in chunks of           *)
(* SYMEM_BLOCK_SIZE bytes that exist only while one of their bits is set;  *)
(* chunks that one call marked together point at each other with raw       *)
(* pointers l and r, which the destructor of a chunk takes back.           *)
(***************************************************************************)
EXTENDS Integers, FiniteSets

CONSTANTS
    ChunkSize,  \* SYMEM_BLOCK_SIZE (32)
    Chunks,     \* number of chunks in the modelled memory
    MaxSize,    \* the largest range a caller marks, unmarks or tests
    Null        \* the null pointer

ASSUME BitmapAssumption ==
    /\ ChunkSize \in Nat \ {0} /\ Chunks \in Nat \ {0} /\ MaxSize \in Nat
    /\ Null \notin Int

Memory == 0 .. Chunks * ChunkSize - 1

(* addr & SYMEM_BLOCK_MASK *)
AlignedAddr(addr) == addr - (addr % ChunkSize)

Aligned == { AlignedAddr(addr) : addr \in Memory }

VARIABLES
    chunks,     \* keys of m_SYMemBitmap: the chunks that exist
    bitmap,     \* aligned address -> the marked offsets of the chunk
    l, r,       \* aligned address -> neighbouring chunk or Null
    symbolic    \* what the callers have marked: a set of bytes

bitmapVars == <<chunks, bitmap, l, r, symbolic>>

BytesOf(addr, size) == addr .. addr + size - 1

Requests == { q \in Memory \X (1 .. MaxSize) : BytesOf(q[1], q[2]) \subseteq Memory }

(* The chunks that the recursion over a range visits, left to right.       *)
Visited(addr, size) == { AlignedAddr(a) : a \in BytesOf(addr, size) }

(* A visit to chunk c: where the range begins in it and how far it goes.   *)
hcave_sz(c, addr) == IF addr > c THEN addr - c ELSE 0

symbol_size(c, addr, size) ==
    (IF addr + size > c + ChunkSize THEN ChunkSize ELSE addr + size - c) - hcave_sz(c, addr)

(* Sets of bits shifted within SYMEM_CHUNK_TY, and -1U.                    *)
allones == 0 .. ChunkSize - 1
ShiftLeft(bits, n) == { o \in allones : o - n \in bits }
ShiftRight(bits, n) == { o \in allones : o + n \in bits }

(* Mutant: the mask is one bit too long.                                   *)
MaskLong(c, addr, size) ==
    { o \in 0 .. ChunkSize : c + o \in BytesOf(addr, size + 1) }

(* Mutant: the second shift is one bit too far.                            *)
MaskShort(c, addr, size) ==
    LET hcave == hcave_sz(c, addr)
    IN  ShiftLeft(allones, hcave)
            \cap ShiftRight(allones, ChunkSize - hcave - symbol_size(c, addr, size) + 1)

(* m1 & m2                                                                 *)
Mask(c, addr, size) ==
    LET hcave == hcave_sz(c, addr)
    IN  ShiftLeft(allones, hcave)
            \cap ShiftRight(allones, ChunkSize - hcave - symbol_size(c, addr, size))

BitmapInit ==
    /\ chunks = {} /\ symbolic = {}
    /\ bitmap = [c \in Aligned |-> {}]
    /\ l = [c \in Aligned |-> Null]
    /\ r = [c \in Aligned |-> Null]

(***************************************************************************)
(* markSYMemBitmap and _maskSYMemBitmap: create the visited chunks that do *)
(* not exist, set the bits, and link each visited chunk to the next one.   *)
(***************************************************************************)
markSYMemBitmap(addr, size) ==
    LET V == Visited(addr, size)
    IN  /\ chunks' = chunks \cup V
        /\ bitmap' = [c \in Aligned |->
                        IF c \in V THEN bitmap[c] \cup Mask(c, addr, size)
                        ELSE bitmap[c]]
        /\ r' = [c \in Aligned |->
                   IF c \in V /\ c + ChunkSize \in V THEN c + ChunkSize ELSE r[c]]
        /\ l' = [c \in Aligned |->
                   IF c \in V /\ c - ChunkSize \in V THEN c - ChunkSize ELSE l[c]]
        /\ symbolic' = symbolic \cup BytesOf(addr, size)

(* Mutant: the destructor leaves the neighbours' pointers alone.           *)
DestroyNoUnlink(dead) ==
    /\ chunks' = chunks \ dead
    /\ r' = [c \in Aligned |-> IF c \in dead THEN Null ELSE r[c]]
    /\ l' = [c \in Aligned |-> IF c \in dead THEN Null ELSE l[c]]

(* ~SYMemChunk for the chunks of `dead`: l->r = NULL and r->l = NULL.      *)
Destroy(dead) ==
    /\ chunks' = chunks \ dead
    /\ r' = [c \in Aligned |->
               IF c \in dead \/ \E d \in dead : l[d] = c THEN Null ELSE r[c]]
    /\ l' = [c \in Aligned |->
               IF c \in dead \/ \E d \in dead : r[d] = c THEN Null ELSE l[c]]

(* Mutant: a chunk without bits is kept.                                   *)
unmarkKeepsChunk(addr, size) ==
    /\ bitmap' = [c \in Aligned |-> IF c \in Visited(addr, size) \cap chunks
                                   THEN bitmap[c] \ Mask(c, addr, size) ELSE bitmap[c]]
    /\ Destroy({})
    /\ symbolic' = symbolic \ BytesOf(addr, size)

(***************************************************************************)
(* unmarkSYMemBitmap and _unmaskSYMemBitmap: clear the bits of the visited *)
(* chunks that exist; a chunk left without a bit is erased.                *)
(***************************************************************************)
unmarkSYMemBitmap(addr, size) ==
    LET V    == Visited(addr, size) \cap chunks
        left == [c \in Aligned |-> IF c \in V THEN bitmap[c] \ Mask(c, addr, size)
                                   ELSE bitmap[c]]
    IN  /\ bitmap' = left
        /\ Destroy({ c \in V : left[c] = {} })
        /\ symbolic' = symbolic \ BytesOf(addr, size)

(* testSYMemBitmap and _testSYMemBitmap *)
testSYMemBitmap(addr, size) ==
    \E c \in Visited(addr, size) \cap chunks :
        bitmap[c] \cap Mask(c, addr, size) # {}

BitmapNext ==
    \/ \E q \in Requests : markSYMemBitmap(q[1], q[2])
    \/ \E q \in Requests : unmarkSYMemBitmap(q[1], q[2])

BitmapSpec == BitmapInit /\ [][BitmapNext]_bitmapVars

-----------------------------------------------------------------------------
(* Bits and links belong to chunks of the modelled memory.                 *)
BitmapTypeOK ==
    /\ chunks \in SUBSET Aligned
    /\ bitmap \in [Aligned -> SUBSET (0 .. ChunkSize - 1)]
    /\ l \in [Aligned -> Aligned \cup {Null}]
    /\ r \in [Aligned -> Aligned \cup {Null}]
    /\ symbolic \in SUBSET Memory

(***************************************************************************)
(* The test over any range, however many chunks it spans, is true exactly  *)
(* when some byte of the range was marked and not unmarked since: "Return  *)
(* true if any byte is symbolic" (MemState.cpp:95).                        *)
(***************************************************************************)
TestExact ==
    \A q \in Requests :
        testSYMemBitmap(q[1], q[2]) <=> BytesOf(q[1], q[2]) \cap symbolic # {}

(***************************************************************************)
(* No link dangles: a chunk that is pointed at exists, is the adjacent     *)
(* one, and points back, so the raw pointers the destructor follows are    *)
(* valid (MemState.h:34).                                                  *)
(***************************************************************************)
LinksSound ==
    \A c \in Aligned :
        /\ r[c] # Null => /\ c \in chunks /\ r[c] \in chunks
                          /\ r[c] = c + ChunkSize /\ l[r[c]] = c
        /\ l[c] # Null => /\ c \in chunks /\ l[c] \in chunks
                          /\ l[c] = c - ChunkSize /\ r[l[c]] = c

(* A chunk exists exactly while one of its bits is set (no chunk leaks).   *)
ChunksLive == \A c \in Aligned : c \in chunks <=> bitmap[c] # {}
=============================================================================
