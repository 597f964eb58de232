-------------------------------- MODULE Raid --------------------------------
(***************************************************************************)
(* lib/vmem/rrmem.c: how rrmem_write cuts a block into stripes and computes*)
(* their parity, and how rrmem_read puts the block together again, with the*)
(* repair it has for the stripe of a host that did not answer.  The level  *)
(* is fixed to 4 by rrmem_allocate; the code has 0 and 5 too.              *)
(*                                                                         *)
(* read_raid_mem and write_raid_mem, marked DEPRECATED in client_lib.c, are*)
(* modelled by which hosts answer.  They take the number of a host from a  *)
(* fixed byte of its address and send no length; that addresses and lengths*)
(* fit is taken for granted here.                                          *)
(*                                                                         *)
(* A byte is the set of its bits that are 1, so that ^ is the symmetric    *)
(* difference.  A buffer is one of the arrays wbufs[h] and rbufs[h]: it    *)
(* has BLOCK_SIZE bytes and starts as zeros.                               *)
(***************************************************************************)
EXTENDS Integers, FiniteSets

CONSTANTS Bit,         \* bits of a byte
          BlockSizes,  \* values of BLOCK_SIZE
          HostCounts   \* values of get_num_hosts()

ASSUME RaidAssumption ==
    /\ IsFiniteSet(Bit)
    /\ BlockSizes \subseteq Nat \ {0}
    /\ HostCounts \subseteq Nat \ {0, 1}     \* the assertion of every case

VARIABLES rpc,       \* "idle", "written", "done" or "waiting"
          setup,     \* block size, hosts, raid level and block number
          data,      \* the block that is written
          bufs,      \* what is on the hosts
          silent,    \* the host that has stopped answering, or -1
          back       \* the block that is read

raidVars == <<rpc, setup, data, bufs, silent, back>>

ByteVal == SUBSET Bit
Upto(n) == 0 .. n - 1
Xor(a, b) == (a \ b) \cup (b \ a)

\* The ^ of f[j] over all j in J: the loops of parity45, of the repair and of
\* the check.
XorOver(J, f) == {b \in Bit : Cardinality({j \in J : b \in f[j]}) % 2 = 1}

----------------------------------------------------------------------------
\* Stripe k of n has one byte more if k is among the first size % n, and
\* starts where the one before it ends.
Alloc(size, n, k) == size \div n + (IF k < size % n THEN 1 ELSE 0)

Base(size, n, k) == (size \div n) * k + (IF k < size % n THEN k ELSE size % n)

\* The parity of the stripes, byte by byte; only the first size % n stripes
\* have a last byte.
parity45(d, size, n) ==
    [i \in Upto(size) |->
        IF i < size \div n THEN XorOver(Upto(n), [k \in Upto(n) |-> d[i + Base(size, n, k)]])
        ELSE IF i = size \div n
        THEN XorOver(Upto(size % n), [k \in Upto(size % n) |-> d[size \div n + k * (size \div n + 1)]])
        ELSE {}]

\* Is the parity buffer that of the stripes?
checkParity45(stripes, n, parity, size) ==
    /\ \A i \in Upto(size \div n) :
          XorOver(Upto(n), [j \in Upto(n) |-> stripes[j][i]]) = parity[i]
    /\ size % n > 0 =>
          XorOver(Upto(size % n), [j \in Upto(size % n) |-> stripes[j][size \div n]])
              = parity[size \div n]

\* Mutant: the last byte of a longer stripe is not repaired.
RepairFullBytes(stripes, parity, miss, n, size) ==
    [i \in Upto(size) |->
        IF i < size \div n
        THEN Xor(XorOver(Upto(n) \ {miss}, [j \in Upto(n) |-> stripes[j][i]]), parity[i])
        ELSE stripes[miss][i]]

\* The buffer of the missing host after the repair.
repairStripeFromParity45(stripes, parity, miss, n, size) ==
    [i \in Upto(size) |->
        IF i < size \div n
        THEN Xor(XorOver(Upto(n) \ {miss}, [j \in Upto(n) |-> stripes[j][i]]), parity[i])
        ELSE IF i = size \div n /\ size % n > miss
        THEN Xor(XorOver(Upto(size % n) \ {miss}, [j \in Upto(n) |-> stripes[j][i]]), parity[i])
        ELSE stripes[miss][i]]

----------------------------------------------------------------------------
\* Stripe k of n is on this host: with level 5 the parity's host is skipped.
Stripes(s) == IF s.level = 0 THEN s.hosts ELSE s.hosts - 1
ParityHost(s) ==
    CASE s.level = 0 -> -1 [] s.level = 4 -> s.hosts - 1 [] s.level = 5 -> s.block % s.hosts
StripeHost(s, k) == IF s.level = 5 /\ k >= ParityHost(s) THEN k + 1 ELSE k
StripeOn(s, h) == CHOOSE k \in Upto(Stripes(s)) : StripeHost(s, k) = h

StripeBuf(s, d, k) ==
    [i \in Upto(s.size) |->
        IF i < Alloc(s.size, Stripes(s), k) THEN d[Base(s.size, Stripes(s), k) + i] ELSE {}]

\* wbufs as write_raid_mem gets them.
WriteBufs(s, d) ==
    [h \in Upto(s.hosts) |->
        IF h = ParityHost(s) THEN parity45(d, s.size, Stripes(s)) ELSE StripeBuf(s, d, StripeOn(s, h))]

\* rbufs after the repair, if read_raid_mem returned miss: nothing is done
\* when all answered, or all but the host of the parity.
Repaired(s, b, miss) ==
    IF miss \in {-1, ParityHost(s)} THEN b
    ELSE [b EXCEPT ![miss] =
             repairStripeFromParity45(b, b[ParityHost(s)], miss, Stripes(s), s.size)]

\* The block that the stripes give.
Gather(s, b) ==
    LET n == Stripes(s)
        k(i) == CHOOSE j \in Upto(n) : i \in Base(s.size, n, j) .. Base(s.size, n, j) + Alloc(s.size, n, j) - 1
    IN  [i \in Upto(s.size) |-> b[StripeHost(s, k(i))][i - Base(s.size, n, k(i))]]

----------------------------------------------------------------------------
RaidInit ==
    /\ rpc = "idle" /\ setup = <<>> /\ data = <<>> /\ bufs = <<>> /\ silent = -1 /\ back = <<>>

\* A host fails.
HostStops(h) ==
    /\ rpc = "idle" \/ (rpc = "written" /\ h < setup.hosts)
    /\ silent = -1
    /\ silent' = h /\ UNCHANGED <<rpc, setup, data, bufs, back>>

\* write_raid_mem and read_raid_mem receive one reply per host.  The receive
\* loops until there is a packet and never returns -1, so that with a silent
\* host the call does not return (and the repair is not reached).
RaidCall(next) == rpc' = IF silent = -1 THEN next ELSE "waiting"

rrmem_write(s, d) ==
    /\ rpc = "idle" /\ silent < s.hosts
    /\ setup' = s /\ data' = d
    /\ bufs' = WriteBufs(s, d)
    /\ RaidCall("written")
    /\ UNCHANGED <<silent, back>>

rrmem_read ==
    /\ rpc = "written"
    /\ RaidCall("done")
    /\ back' = IF silent = -1 THEN Gather(setup, Repaired(setup, bufs, -1)) ELSE back
    /\ UNCHANGED <<setup, data, bufs, silent>>

Setups ==
    UNION {[size: {n}, hosts: {h}, level: {0, 4, 5}, block: 0 .. h - 1] : n \in BlockSizes, h \in HostCounts}

RaidNext ==
    \/ \E s \in Setups : \E d \in [Upto(s.size) -> ByteVal] : rrmem_write(s, d)
    \/ \E h \in Upto(CHOOSE n \in HostCounts : \A m \in HostCounts : m <= n) : HostStops(h)
    \/ rrmem_read

RaidSpec == RaidInit /\ [][RaidNext]_raidVars

----------------------------------------------------------------------------
\* The buffers when this host did not answer: its own is zero.
Lost(miss) == [h \in DOMAIN bufs |-> IF h = miss THEN [i \in Upto(setup.size) |-> {}] ELSE bufs[h]]

\* rrmem_read returns the block that rrmem_write wrote, for every level, size
\* and number of hosts, and it returns if all hosts answer and only then.
\* What its repair would compute from the buffers of the others is the block
\* as well (rrmem.c 261 and 304): on levels 4 and 5 without the host of the
\* parity, and on level 4 without any one host.  (On level 5 the repair takes
\* the first stripes in the order of the hosts, so it is right only for blocks
\* whose parity is on the last host.)  And checkParity45 accepts what
\* rrmem_write put on the hosts.
RaidReadsBack ==
    /\ rpc = "done" => back = data
    /\ rpc = "waiting" => silent # -1
    /\ rpc = "written" =>
          /\ \A miss \in Upto(setup.hosts) :
                \/ setup.level = 0
                \/ setup.level = 5 /\ miss # ParityHost(setup) /\ ParityHost(setup) # setup.hosts - 1
                \/ Gather(setup, Repaired(setup, Lost(miss), miss)) = data
          /\ setup.level = 4 => checkParity45(bufs, Stripes(setup), bufs[ParityHost(setup)], setup.size)
=============================================================================
