------------------------------ MODULE Regions ------------------------------
(***************************************************************************)
(* Memory of the remote hosts as the stores above the client library use   *)
(* it: one allocation per host, a list memList with a pointer to each      *)
(* block, and bulk calls that cut a buffer into blocks.  A pointer is the  *)
(* host (subid), the allocation and the offset in it (paddr).  The packets *)
(* of these calls are the subject of RemoteMem.                            *)
(***************************************************************************)
EXTENDS Integers, FiniteSets

CONSTANTS NumHosts,    \* myConf.num_hosts
          BlockSize,   \* BLOCK_SIZE
          BatchSize    \* BATCH_SIZE

ASSUME RegionsAssumption == {NumHosts, BlockSize, BatchSize} \subseteq Nat \ {0}

Hosts == 0 .. NumHosts - 1
Pointer(h, a, off) == [subid |-> h, alloc |-> a, off |-> off]
Garbage == Pointer(NumHosts, 0, 0)   \* an entry of memList that is never set
Advance(p, n) == [p EXCEPT !.off = @ + n]

\* allocate_mem_bulk of the server: calloc of `size' bytes, one if it is 0.
allocate_mem_bulk(h, a, size) ==
    [p \in {Pointer(h, a, i) : i \in 0 .. (IF size = 0 THEN 1 ELSE size) - 1} |-> 0]

\* The loops of fill_rmem and of bb_disk's main: where the blocks of host i
\* start in memList, and how many they are.
Split(nblocks) == nblocks \div NumHosts

Offset(nblocks, i) == Split(nblocks) * i

Length(nblocks, i) ==
    IF i = NumHosts - 1 THEN nblocks - Offset(nblocks, i) ELSE Split(nblocks)

\* memList after the loop; the entries of a later host replace earlier ones.
FillList(nblocks, a) ==
    [b \in 0 .. nblocks - 1 |->
        LET owners == {i \in Hosts : b \in Offset(nblocks, i) .. Offset(nblocks, i) + Length(nblocks, i) - 1}
            i == CHOOSE j \in owners : \A k \in owners : k <= j
        IN  IF owners = {} THEN Garbage ELSE Pointer(i, a, (b - Offset(nblocks, i)) * BlockSize)]

\* The bytes that the loop has the servers allocate.
FillBytes(nblocks, a) ==
    [p \in UNION {DOMAIN allocate_mem_bulk(i, a, Length(nblocks, i)) : i \in Hosts} |-> 0]

\* read_bulk_rmem and write_bulk_rmem: which pointer each piece of the buffer
\* goes to.  A piece is the index of the pointer, the position in the buffer
\* and the length.  Nothing is transferred when there are too few pointers.
Piece(addr, pos, len) == [addr |-> addr, pos |-> pos, len |-> len]
Batch(first, n) == {Piece(first + k, BlockSize * (first + k), BlockSize) : k \in 0 .. n - 1}

\* Mutant: the incomplete batch takes the pointers behind the number of full
\* batches, not behind their blocks.
BulkPiecesUnscaled(num_addrs, size) ==
    LET chunks == size \div BlockSize
        rest   == chunks % BatchSize
        offset == chunks - rest
    IN  IF size <= BlockSize THEN {Piece(0, 0, size)}
        ELSE IF chunks > num_addrs THEN {}
        ELSE UNION {Batch(i * BatchSize, BatchSize) : i \in 0 .. chunks \div BatchSize - 1}
             \cup {Piece(chunks \div BatchSize + k, BlockSize * (offset + k), BlockSize) : k \in 0 .. rest - 1}

BulkPieces(num_addrs, size) ==
    LET chunks == size \div BlockSize
        rest   == chunks % BatchSize
        offset == chunks - rest
    IN  IF size <= BlockSize THEN {Piece(0, 0, size)}
        ELSE IF chunks > num_addrs THEN {}
        ELSE UNION {Batch(i * BatchSize, BatchSize) : i \in 0 .. chunks \div BatchSize - 1}
             \cup Batch(offset, rest)
             \cup (IF size % BlockSize = 0 THEN {} ELSE {Piece(0, BlockSize * (offset + 1), size % BlockSize)})

\* The byte at a position of the buffer is transferred to or from this byte
\* of remote memory.
PieceAt(pieces, pos) == CHOOSE p \in pieces : pos \in p.pos .. p.pos + p.len - 1
RemoteByte(memList, first, pieces, pos) ==
    LET p == PieceAt(pieces, pos) IN Advance(memList[first + p.addr], pos - p.pos)
Covered(pieces) == UNION {p.pos .. p.pos + p.len - 1 : p \in pieces}
=============================================================================
