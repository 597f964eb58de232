------------------------------ MODULE ArrayRpc ------------------------------
(***************************************************************************)
(* The remote procedure calls of apps/thrift: the array service, the memory*)
(* test service and their test clients.  In mode "udp" (the ddc programs)  *)
(* a call passes pointers and both sides work on remote memory; in mode    *)
(* "tcp" it passes the arrays.  A server is one thread.  Over UDP it takes *)
(* the calls as they come; over TCP it serves one connection until that is *)
(* closed.  One step is one call of the client library or one message.     *)
(***************************************************************************)
EXTENDS Regions, Sequences

CONSTANTS Clients,
          HostList,       \* hosts of the configuration
          ByteMod,        \* number of values of a uint8_t: UINT8_MAX + 1
          SIZE_STEPS,     \* sizes of the performance test
          iterations,     \* argument -i
          MessageLen,     \* length of the message of the memory tests
          FaultBound,     \* bound: clients that are started if a server stops or an access goes astray
          Unset           \* what the stack words offset and length that are never set may hold

ASSUME RpcAssumption ==
    /\ HostList # {} /\ HostList \subseteq Hosts
    /\ ByteMod \in Nat /\ ByteMod > 5 /\ {iterations, MessageLen, FaultBound} \subseteq Nat
    /\ SIZE_STEPS \in Seq(Nat) /\ Unset \subseteq [offset : Nat, length : Nat]

VARIABLES mode,       \* "udp" or "tcp": which programs are started
          spc,        \* servers: "off", "serve", "stopping" and how they ended
          queue,      \* servers: calls that have arrived
          conns,      \* servers: open connections in the order of their arrival (tcp)
          work,       \* array server: the call it is executing (udp)
          cpc,        \* clients: where main is
          at,         \* clients: number of the test
          arrs,       \* clients: arr, or arr1 and arr2
          held,       \* clients: pointers the test has still to free
          res,        \* clients: res of the memory tests
          answer,     \* clients: what the call returned
          regions,    \* the allocations of the memory servers: pointer -> [for, bytes]
          hostUp,     \* the memory servers answer
          bad,        \* a memory server was given a pointer to no allocation
          astray,     \* history: a word that was never set did not fit, or a buffer was overrun
          away,       \* history: a server was missing, was told to stop or got no answer
          failed      \* history: clients that read a wrong result

serverVars == <<spc, queue, conns, work>>
clientVars == <<cpc, at, arrs, held, res, answer>>
memoryVars == <<regions, hostUp, bad>>
historyVars == <<astray, away, failed>>
rpcVars == <<mode, serverVars, clientVars, memoryVars, historyVars>>

Servers == {"mem", "arr"}
NoPtr == Garbage
NoAnswer == <<>>
NoWork == [op |-> "none"]
Uint8 == 0 .. ByteMod - 1
ArrayOf(n, V) == [0 .. n - 1 -> V]

----------------------------------------------------------------------------
\* The tests that main makes, in order.
Test(op, size, print) == [op |-> op, size |-> size, print |-> print]
Repeat(s, n) == [i \in 1 .. n * Len(s) |-> s[((i - 1) % Len(s)) + 1]]
MemTests(print) ==
    [i \in 1 .. 5 |-> Test(<<"ping", "allocate_mem", "write_mem", "read_mem", "free_mem">>[i], BlockSize, print)]
test_shared_pointer_rpc ==
    <<Test("increment_array", BlockSize, TRUE), Test("add_arrays", BlockSize, TRUE)>>
increment_array_perf ==
    [i \in 1 .. iterations * Len(SIZE_STEPS) |->
        Test("increment_array", SIZE_STEPS[((i - 1) \div iterations) + 1], FALSE)]
Tests ==
    MemTests(TRUE) \o test_shared_pointer_rpc
    \o Repeat(MemTests(FALSE), iterations)
    \o Repeat(<<Test("no_op", BlockSize, FALSE)>>, iterations)
    \o increment_array_perf

Now(c) == Tests[at[c]]
MemOps == {"ping", "allocate_mem", "write_mem", "read_mem", "free_mem"}
ServerOf(op) == IF op \in MemOps THEN "mem" ELSE "arr"
NArgs(op) == IF op = "add_arrays" THEN 2 ELSE 1

\* populate_array, and the two ways the tests call it.
populate_array(n) == {[i \in 0 .. n - 1 |-> i % (ByteMod - 1)]}
PopulateRandom(n, start) == {a \in ArrayOf(n, (0 .. ByteMod - 2) \cup {start}) : n > 0 => a[0] = start}
Arguments(op, n) ==
    IF op = "add_arrays"
    THEN {<<a, b>> : a \in PopulateRandom(n, 3), b \in PopulateRandom(n, 5)}
    ELSE {<<a>> : a \in populate_array(n)}

\* What the handlers compute, on uint8_t over UDP and on gint8 over TCP: modulo 2^8.
increment_array(arr, n) == [i \in 0 .. n - 1 |-> (arr[i] + 1) % ByteMod]
add_arrays(arr1, arr2, n) == [i \in 0 .. n - 1 |-> (arr1[i] + arr2[i]) % ByteMod]
no_op(arr, n) == [i \in 0 .. n - 1 |-> arr[i]]
Computed(op, args, n) ==
    CASE op = "increment_array" -> increment_array(args[1], n)
      [] op = "add_arrays"      -> add_arrays(args[1], args[2], n)
      [] op = "no_op"           -> no_op(args[1], n)

\* The result is not what the test compares it with (the comparison of
\* increment_array is one of ints) or, for no_op, not the argument.
Differs(op, args, got, i) ==
    got[i] # CASE op = "increment_array" -> args[1][i] + 1
               [] op = "add_arrays"      -> (args[1][i] + args[2][i]) % ByteMod
               [] op = "no_op"           -> args[1][i]

RpcInit ==
    /\ mode \in {"udp", "tcp"}
    /\ spc = [s \in Servers |-> "off"] /\ queue = [s \in Servers |-> <<>>]
    /\ conns = [s \in Servers |-> <<>>] /\ work = NoWork
    /\ cpc = [c \in Clients |-> "off"] /\ at = [c \in Clients |-> 1]
    /\ arrs = [c \in Clients |-> <<>>] /\ held = [c \in Clients |-> <<>>]
    /\ res = [c \in Clients |-> NoPtr]
    /\ answer = [c \in Clients |-> NoAnswer]
    /\ regions = <<>> /\ hostUp = TRUE /\ bad = FALSE
    /\ astray = FALSE /\ away = FALSE /\ failed = {}

----------------------------------------------------------------------------
\* Calls of the client library, which return only while the memory servers
\* answer; size 0 still takes one block.
NumPtrs(size) == IF size = 0 THEN 1 ELSE (size + BlockSize - 1) \div BlockSize

\* A random host allocates the blocks; malloc may use an address again.
get_pointer(p, size, c) ==
    /\ hostUp /\ p.off = 0 /\ p.alloc = CHOOSE a \in 0 .. Cardinality(DOMAIN regions) :
                                /\ Pointer(p.subid, a, 0) \notin DOMAIN regions
                                /\ \A b \in 0 .. a - 1 : Pointer(p.subid, b, 0) \in DOMAIN regions
    /\ regions' = [q \in DOMAIN regions \cup {p} |->
                      IF q = p THEN [for |-> c, bytes |-> [i \in 0 .. NumPtrs(size) * BlockSize - 1 |-> 0]]
                      ELSE regions[q]]
    /\ UNCHANGED <<hostUp, bad>>

SomePointer == {Pointer(h, a, 0) : h \in HostList, a \in 0 .. Cardinality(DOMAIN regions)}
RegionOf(p) == [p EXCEPT !.off = 0]
\* Mutant: the pointers are not advanced.
TmpAddrsSame(p, length) == [i \in 0 .. length - 1 |-> p]

\* The pointers that the uniform calls make of one pointer and its length.
TmpAddrs(p, length) == [i \in 0 .. length - 1 |-> Advance(p, i * BlockSize)]
Accessible(p, size) == p \in DOMAIN regions /\ size <= Cardinality(DOMAIN regions[p].bytes)

read_uniform_rmem(p, length, size) ==
    LET pieces == BulkPieces(length, size)
        byte(i) == RemoteByte(TmpAddrs(p, length), 0, pieces, i)
    IN  [i \in 0 .. size - 1 |-> regions[RegionOf(byte(i))].bytes[byte(i).off]]

\* What the bytes of a region are when the array is written to it.
write_uniform_rmem(bytes, length, a, size) ==
    LET pieces == BulkPieces(length, size)
        hits(off) == {i \in Covered(pieces) : RemoteByte(TmpAddrs(NoPtr, length), 0, pieces, i).off = off}
    IN  [off \in DOMAIN bytes |-> IF hits(off) = {} THEN bytes[off] ELSE a[CHOOSE i \in hits(off) : TRUE]]

\* The calls of free_rmem for these pointers.
free_rmem(ptrs) ==
    LET freed == {ptrs[k] : k \in 1 .. Len(ptrs)}
    IN  /\ hostUp /\ UNCHANGED hostUp
        /\ regions' = [q \in DOMAIN regions \ freed |-> regions[q]]
        /\ bad' = (bad \/ Cardinality(freed) < Len(ptrs) \/ ~(freed \subseteq DOMAIN regions))

\* What becomes of a library call.  "value": it does what it should.  "junk":
\* it returns, but was made on other memory or on none.  "crash": its caller
\* ends.  "hang": no host answers it.  "host": it ends the memory server.
Astray == {"junk", "crash", "hang", "host"}
Halting == {"crash", "hang", "host"}

\* read_uniform_rmem of `size' bytes with a block whose length is given and
\* whose offset was never set.  An offset that leaves too few pointers stops
\* the read; otherwise it reads behind the start, or with pointers that were
\* never set (length - offset is unsigned).
Outcomes(offset, length, size) ==
    IF offset = 0 /\ length > 0 /\ size \div BlockSize <= length THEN {"value"}
    ELSE IF size > BlockSize /\ offset <= length /\ size \div BlockSize > length - offset THEN {"junk"}
    ELSE IF offset < length THEN {"junk", "host"}
    ELSE Astray
\* What a buffer holds that was not written, or not with the data meant.
JunkByte == {0, 1}
\* The library returned without asking a host.
NotAsked(offset, length, size) == Outcomes(offset, length, size) \in {{"value"}, {"junk"}}

----------------------------------------------------------------------------
\* The servers' main: the transport may not open.
Serve(s, ok) ==
    /\ spc[s] = "off"
    /\ spc' = [spc EXCEPT ![s] = IF ok THEN "serve" ELSE "exit"]
    /\ UNCHANGED <<mode, queue, conns, work, clientVars, memoryVars, historyVars>>

MemServerMain(ok) == Serve("mem", ok)
DdcServerMain(ok) == mode = "udp" /\ Serve("arr", ok)
TcpServerMain(ok) == mode = "tcp" /\ Serve("arr", ok)

NStarted == Cardinality({c \in Clients : cpc[c] # "off"})

\* Bound: one call goes astray in a behaviour.
Stray(o) ==
    /\ o # "value" => ~astray /\ NStarted <= FaultBound
    /\ astray' = (astray \/ o # "value")
HostAfter(o) == hostUp' = (hostUp /\ o # "host")

\* sigint_handler stops the server when it is through with the call it is
\* executing.  SA_RESETHAND: a second signal kills it.
Sigint(s) ==
    /\ NStarted <= FaultBound
    /\ \/ spc[s] = "serve" /\ spc' = [spc EXCEPT ![s] = "stopping"] /\ UNCHANGED work
       \/ /\ spc[s] \in {"stopping", "hang"} /\ spc' = [spc EXCEPT ![s] = "killed"]
          /\ work' = IF s = "arr" THEN NoWork ELSE work
    /\ away' = TRUE
    /\ UNCHANGED <<mode, queue, conns, clientVars, memoryVars, astray, failed>>

\* The end of main.  The memory test server over UDP unrefs a server
\* transport that was never created.
ServerExit(s) ==
    /\ spc[s] = "stopping" /\ (s = "arr" => work = NoWork)
    /\ \/ spc' = [spc EXCEPT ![s] = "exit"]
       \/ s = "mem" /\ mode = "udp" /\ spc' = [spc EXCEPT ![s] = "crash"]
    /\ UNCHANGED <<mode, queue, conns, work, clientVars, memoryVars, historyVars>>

\* A server that waits for a memory server still has its socket.
Listening(s) == spc[s] \in {"serve", "stopping", "hang"}

\* The call that the server takes next.
Turn(s, i) ==
    /\ spc[s] \in {"serve", "stopping"} /\ i \in 1 .. Len(queue[s])
    /\ IF mode = "udp" THEN i = 1 ELSE conns[s] # <<>> /\ queue[s][i].client = Head(conns[s])
Take(s, i) ==
    queue' = [queue EXCEPT ![s] = SubSeq(@, 1, i - 1) \o SubSeq(@, i + 1, Len(@))]

Without(seq, c) == SelectSeq(seq, LAMBDA d : d # c)

\* A client goes on with its next test.
NextTest(c) ==
    /\ cpc' = [cpc EXCEPT ![c] = "test"] /\ at' = [at EXCEPT ![c] = @ + 1]
    /\ arrs' = [arrs EXCEPT ![c] = <<>>] /\ answer' = [answer EXCEPT ![c] = NoAnswer]

\* A server goes on, ends or waits for ever.
ServerAfter(s, o) ==
    /\ spc' = CASE o = "crash"            -> [spc EXCEPT ![s] = "crash"]
                [] o \in {"hang", "host"} -> [spc EXCEPT ![s] = "hang"]
                [] OTHER                  -> spc
    /\ away' = (away \/ o \in Halting)

\* The handlers of the memory test server: each makes at most one call of
\* the library, and the client that waits for it goes on.  write_mem copies
\* the message into an array of BLOCK_SIZE bytes: a longer one overwrites what
\* follows on the stack, which may be nothing of importance, the pointer or
\* the return address.  What it writes is never looked at.
WriteOutcomes == IF MessageLen > BlockSize THEN Astray \cup {"value"} ELSE {"value"}

HandleMem(i) ==
    LET q == queue["mem"][i]
    IN  /\ Turn("mem", i) /\ Take("mem", i)
        /\ \/ q.op = "ping" /\ UNCHANGED <<memoryVars, res, spc, astray, away>>
           \/ /\ q.op = "allocate_mem"
              /\ \E p \in SomePointer : get_pointer(p, q.size, q.client) /\ res' = [res EXCEPT ![q.client] = p]
              /\ UNCHANGED <<spc, astray, away>>
           \/ /\ q.op = "read_mem" /\ hostUp
              /\ bad' = (bad \/ ~Accessible(q.args[1], BlockSize))
              /\ UNCHANGED <<regions, hostUp, res, spc, astray, away>>
           \/ /\ q.op = "write_mem" /\ hostUp
              /\ \E o \in WriteOutcomes :
                    /\ Stray(o) /\ HostAfter(o) /\ ServerAfter("mem", o)
                    /\ bad' = (bad \/ ~Accessible(q.args[1], BlockSize) \/ o \in {"junk", "host"})
              /\ UNCHANGED <<regions, res>>
           \/ q.op = "free_mem" /\ free_rmem(q.args) /\ UNCHANGED <<res, spc, astray, away>>
        /\ IF spc' = spc THEN NextTest(q.client) ELSE UNCHANGED <<cpc, at, arrs, answer>>
        /\ UNCHANGED <<mode, conns, work, held, failed>>

\* The handlers of the array server over UDP: first memory for the result.
BeginCall(i) ==
    LET q == queue["arr"][i]
    IN  /\ mode = "udp" /\ work = NoWork /\ Turn("arr", i) /\ Take("arr", i)
        /\ \E p \in SomePointer : get_pointer(p, q.size, q.client) /\ work' = [q EXCEPT !.result = p]
        /\ UNCHANGED <<mode, spc, conns, clientVars, historyVars>>

\* An argument is read: the offset of args_addr is never set, and in no_op
\* neither is its length.  What is not read is as malloc returned it.
LengthUsed(u) == IF work.op = "no_op" THEN u.length ELSE NumPtrs(work.size)
Argument(k, outcome, junk) ==
    IF outcome = "value" /\ Accessible(work.args[k], work.size)
    THEN read_uniform_rmem(work.args[k], NumPtrs(work.size), work.size)
    ELSE [i \in 0 .. work.size - 1 |-> junk]

\* The arguments are read (bound: the unset words of one, k, may not fit), the
\* result is written and its pointer returned, by increment_array twice.
EndCall ==
    /\ work # NoWork /\ spc["arr"] \in {"serve", "stopping"} /\ hostUp
    /\ \E k \in 1 .. NArgs(work.op), u \in Unset : \E o \in Outcomes(u.offset, LengthUsed(u), work.size), junk \in JunkByte :
          LET args == [j \in 1 .. NArgs(work.op) |-> Argument(j, IF j = k THEN o ELSE "value", junk)]
              done == o \notin Halting
          IN  /\ Stray(o) /\ HostAfter(o) /\ ServerAfter("arr", o)
              /\ o # "junk" => junk = 0
              /\ regions' = IF done /\ work.result \in DOMAIN regions
                            THEN [regions EXCEPT ![work.result].bytes =
                                     write_uniform_rmem(@, NumPtrs(work.size),
                                                        Computed(work.op, args, work.size), work.size)]
                            ELSE regions
              /\ answer' = IF done
                           THEN [answer EXCEPT ![work.client] =
                                    IF work.op = "increment_array" THEN <<work.result, work.result>>
                                    ELSE <<work.result>>]
                           ELSE answer
              /\ bad' = (\/ bad
                         \/ \E j \in DOMAIN args : ~Accessible(work.args[j], work.size)
                         \/ o \in {"junk", "host"} /\ ~NotAsked(u.offset, LengthUsed(u), work.size))
    /\ work' = NoWork
    /\ UNCHANGED <<mode, queue, conns, cpc, at, arrs, held, res, failed>>

\* The handlers of the array server over TCP.
HandleTcp(i) ==
    LET q == queue["arr"][i]
    IN  /\ mode = "tcp" /\ Turn("arr", i) /\ Take("arr", i)
        /\ answer' = [answer EXCEPT ![q.client] = <<Computed(q.op, q.args, q.size)>>]
        /\ UNCHANGED <<mode, spc, conns, work, cpc, at, arrs, held, res, memoryVars, historyVars>>

----------------------------------------------------------------------------
\* The clients' main: the tests may begin, over TCP when both connections
\* are made.
ClientMain(c, next) ==
    /\ cpc[c] = "off"
    /\ astray \/ (\E s \in Servers : spc[s] \notin {"off", "serve", "exit"}) => NStarted < FaultBound
    /\ cpc' = [cpc EXCEPT ![c] = next]
    /\ UNCHANGED <<mode, serverVars, at, arrs, held, res, answer, memoryVars, historyVars>>

DdcClientMain(c) == mode = "udp" /\ ClientMain(c, "test")
TcpClientMain(c) == mode = "tcp" /\ ClientMain(c, "open mem")

Open(c, s) ==
    /\ cpc[c] = IF s = "mem" THEN "open mem" ELSE "open arr"
    /\ IF Listening(s)
       THEN /\ conns' = [conns EXCEPT ![s] = Append(@, c)]
            /\ cpc' = [cpc EXCEPT ![c] = IF s = "mem" THEN "open arr" ELSE "test"]
            /\ UNCHANGED away
       ELSE /\ conns' = [t \in Servers |-> Without(conns[t], c)]
            /\ cpc' = [cpc EXCEPT ![c] = "exit"]
            /\ away' = TRUE
    /\ UNCHANGED <<mode, spc, queue, work, at, arrs, held, res, answer, memoryVars, astray, failed>>

\* The call is sent.  A datagram for a server that is not there is lost.
Send(c, args) ==
    LET s == ServerOf(Now(c).op)
    IN  /\ queue' = IF Listening(s)
                    THEN [queue EXCEPT ![s] = Append(@,
                            [client |-> c, op |-> Now(c).op, size |-> Now(c).size,
                             args |-> args, result |-> NoPtr])]
                    ELSE queue
        /\ away' = (away \/ ~Listening(s))
        /\ cpc' = [cpc EXCEPT ![c] = "wait"] /\ answer' = [answer EXCEPT ![c] = NoAnswer]
        /\ UNCHANGED <<mode, spc, conns, work, at, held, res, hostUp, astray, failed>>

InTest(c) == cpc[c] = "test" /\ at[c] <= Len(Tests)

CallMem(c) ==
    /\ InTest(c) /\ Now(c).op \in MemOps
    /\ Send(c, <<res[c]>>) /\ UNCHANGED <<arrs, regions, bad>>

\* A client ends; over TCP its connections are closed.
Crash(c) ==
    /\ cpc' = [cpc EXCEPT ![c] = "crash"]
    /\ conns' = [s \in Servers |-> Without(conns[s], c)]
    /\ UNCHANGED <<mode, spc, queue, work, at, arrs, held, answer, memoryVars>>

\* test_server_write puts the message into BLOCK_SIZE bytes of its heap.
PayloadOverrun(c) ==
    /\ InTest(c) /\ Now(c).op = "write_mem" /\ MessageLen > BlockSize
    /\ Stray("crash") /\ Crash(c)
    /\ UNCHANGED <<res, away, failed>>

CallTcp(c) ==
    /\ InTest(c) /\ Now(c).op \notin MemOps /\ mode = "tcp"
    /\ \E args \in Arguments(Now(c).op, Now(c).size) :
          arrs' = [arrs EXCEPT ![c] = args] /\ Send(c, args)
    /\ UNCHANGED <<regions, bad>>

\* test_increment_array, test_add_arrays and no_op_rpc over UDP: memory for
\* the arguments, then the arguments, the call, the result, and all is freed.
AllocateArgument(c) ==
    /\ InTest(c) /\ Now(c).op \notin MemOps /\ mode = "udp"
    /\ \E p \in SomePointer :
          get_pointer(p, Now(c).size, c) /\ held' = [held EXCEPT ![c] = Append(@, p)]
    /\ \/ Len(held'[c]) < NArgs(Now(c).op) /\ UNCHANGED <<cpc, arrs>>
       \/ /\ Len(held'[c]) = NArgs(Now(c).op)
          /\ cpc' = [cpc EXCEPT ![c] = "write"]
          /\ \E args \in Arguments(Now(c).op, Now(c).size) : arrs' = [arrs EXCEPT ![c] = args]
    /\ UNCHANGED <<mode, serverVars, at, res, answer, historyVars>>

CallUdp(c) ==
    LET args == held[c]
        new(p) == IF \E k \in 1 .. Len(args) : args[k] = p
                  THEN write_uniform_rmem(regions[p].bytes, NumPtrs(Now(c).size),
                                          arrs[c][CHOOSE k \in 1 .. Len(args) : args[k] = p], Now(c).size)
                  ELSE regions[p].bytes
    IN  /\ cpc[c] = "write" /\ hostUp
        /\ regions' = [p \in DOMAIN regions |-> [regions[p] EXCEPT !.bytes = new(p)]]
        /\ bad' = (bad \/ \E k \in 1 .. Len(args) : ~Accessible(args[k], Now(c).size))
        /\ Send(c, args) /\ UNCHANGED arrs

Wrong(c, got) == \E i \in 0 .. Now(c).size - 1 : Differs(Now(c).op, arrs[c], got, i)
Answered(c) == cpc[c] = "wait" /\ answer[c] # NoAnswer

\* Mutant: the server's allocation is not among the ones to free.
ReturnKeepsResult(c) ==
    /\ Answered(c) /\ Now(c).op \notin MemOps /\ mode = "udp"
    /\ cpc' = [cpc EXCEPT ![c] = "free"]
    /\ UNCHANGED <<mode, serverVars, at, arrs, held, res, answer, memoryVars, historyVars>>

\* The result is read, with an offset that the client never sets; what is to
\* be freed, in this order.
ReturnUdp(c) ==
    LET p == answer[c][1]
        n == Now(c).size
    IN  /\ Answered(c) /\ Now(c).op \notin MemOps /\ mode = "udp" /\ hostUp
        /\ \E u \in Unset :
              LET can == Outcomes(u.offset, NumPtrs(n), n)
              IN  \E o \in can, junk \in JunkByte :
                    /\ Stray(o) /\ HostAfter(o)
                    /\ o # "junk" => junk = 0
                    /\ bad' = (bad \/ ~Accessible(p, n)
                                  \/ (o \in {"junk", "host"} /\ ~NotAsked(u.offset, NumPtrs(n), n)))
                    /\ failed' = IF \/ o = "value" /\ Accessible(p, n) /\ Wrong(c, read_uniform_rmem(p, NumPtrs(n), n))
                                    \/ o = "junk" /\ Wrong(c, [i \in 0 .. n - 1 |-> junk])
                                 THEN failed \cup {c} ELSE failed
                    /\ IF o \in Halting
                       THEN cpc' = [cpc EXCEPT ![c] = IF o = "crash" THEN "crash" ELSE "hang"] /\ UNCHANGED held
                       ELSE /\ cpc' = [cpc EXCEPT ![c] = "free"]
                            /\ held' = [held EXCEPT ![c] = IF Now(c).op = "add_arrays" THEN <<p>> \o @ ELSE Append(@, p)]
        /\ UNCHANGED <<mode, serverVars, at, arrs, res, answer, regions, away>>

Free(c) ==
    /\ cpc[c] = "free"
    /\ free_rmem(held[c]) /\ held' = [held EXCEPT ![c] = <<>>]
    /\ NextTest(c)
    /\ UNCHANGED <<mode, serverVars, res, historyVars>>

ReturnTcp(c) ==
    /\ Answered(c) /\ Now(c).op \notin MemOps /\ mode = "tcp"
    /\ failed' = IF Wrong(c, answer[c][1]) THEN failed \cup {c} ELSE failed
    /\ NextTest(c)
    /\ UNCHANGED <<mode, serverVars, held, res, memoryVars, astray, away>>

\* Over TCP a call to a server that has ended fails.  The tests go on, but
\* the comparison of increment_array uses the result without a check.
CallFails(c) ==
    /\ mode = "tcp" /\ cpc[c] = "wait" /\ answer[c] = NoAnswer /\ ~Listening(ServerOf(Now(c).op))
    /\ IF Now(c).op = "increment_array" /\ Now(c).print /\ Now(c).size > 0
       THEN Crash(c)
       ELSE NextTest(c) /\ UNCHANGED <<mode, serverVars, held, memoryVars>>
    /\ res' = IF Now(c).op = "allocate_mem" THEN [res EXCEPT ![c] = NoPtr] ELSE res
    /\ UNCHANGED historyVars

\* Mutant: only the connection to the array server is closed.
CloseOne(c) ==
    /\ cpc[c] = "test" /\ at[c] > Len(Tests)
    /\ cpc' = [cpc EXCEPT ![c] = "done"]
    /\ conns' = [conns EXCEPT !["arr"] = Without(@, c)]
    /\ UNCHANGED <<mode, spc, queue, work, at, arrs, held, res, answer, memoryVars, historyVars>>

\* The end of main.
Close(c) ==
    /\ cpc[c] = "test" /\ at[c] > Len(Tests)
    /\ cpc' = [cpc EXCEPT ![c] = "done"]
    /\ conns' = [s \in Servers |-> Without(conns[s], c)]
    /\ UNCHANGED <<mode, spc, queue, work, at, arrs, held, res, answer, memoryVars, historyVars>>

----------------------------------------------------------------------------
MemServerStep == \E i \in 1 .. Cardinality(Clients) : HandleMem(i)
ArrServerStep ==
    \/ \E i \in 1 .. Cardinality(Clients) : BeginCall(i) \/ HandleTcp(i)
    \/ EndCall

ClientStep(c) ==
    \/ \E s \in Servers : Open(c, s)
    \/ CallMem(c) \/ PayloadOverrun(c) \/ Free(c) \/ Close(c) \/ CallFails(c) \/ ReturnTcp(c)
    \/ CallTcp(c) \/ AllocateArgument(c) \/ CallUdp(c) \/ ReturnUdp(c)

\* The processes that are running, and what starts and stops them.
Running == (\E c \in Clients : ClientStep(c)) \/ MemServerStep \/ ArrServerStep
RpcNext ==
    \/ \E ok \in BOOLEAN : MemServerMain(ok) \/ DdcServerMain(ok) \/ TcpServerMain(ok)
    \/ \E s \in Servers : Sigint(s) \/ ServerExit(s)
    \/ \E c \in Clients : DdcClientMain(c) \/ TcpClientMain(c)
    \/ Running


RpcSpec == RpcInit /\ [][RpcNext]_rpcVars

----------------------------------------------------------------------------
\* Types.  A client that is not in an array test holds no argument.
RpcTypeOK ==
    /\ mode \in {"udp", "tcp"} /\ {hostUp, bad, astray, away} \subseteq BOOLEAN /\ failed \subseteq Clients
    /\ spc \in [Servers -> {"off", "serve", "stopping", "exit", "killed", "crash", "hang"}]
    /\ \A s \in Servers : Len(queue[s]) <= Cardinality(Clients) /\ Len(conns[s]) <= Cardinality(Clients)
    /\ \A p \in DOMAIN regions : /\ p.subid \in Hosts /\ p.off = 0 /\ regions[p].for \in Clients
                                 /\ \A i \in DOMAIN regions[p].bytes : regions[p].bytes[i] \in Uint8
    /\ \A c \in Clients :
          /\ cpc[c] \in {"off", "open mem", "open arr", "test", "write", "wait", "free", "done", "exit", "crash", "hang"}
          /\ at[c] \in 1 .. Len(Tests) + 1
          /\ Len(held[c]) <= 3
          /\ cpc[c] = "done" => held[c] = <<>> /\ answer[c] = NoAnswer

\* Every test reads the result that it expects (ddc_client.c 94 and 186,
\* tcp_client.c 69 and 127), whatever the order in which the clients and the
\* servers use the memory, unless a call went astray: a word of a block that
\* neither server nor client sets did not fit (ddc_client.c 82, 176 and 285,
\* ddc_simple_arr_comp_server.c 136 and 302), or the message of the memory
\* tests overran its buffer (remote_mem_test_server.c 193).
ResultsCorrect == failed # {} => astray

\* The memory servers are given a pointer to memory that is not allocated
\* only by a call that went astray.  Between two tests nothing is allocated
\* for a client, neither by itself nor by a server, but the block of the
\* memory tests, and at the end nothing (unless a server was missing or a
\* call went astray).
EachAllocationFreedOnce ==
    /\ RpcTypeOK
    /\ bad => astray
    /\ \A c \in Clients :
          cpc[c] \in {"test", "done"} /\ held[c] = <<>> /\ ~away /\ ~astray =>
             \A p \in DOMAIN regions :
                regions[p].for = c => p = res[c] /\ cpc[c] = "test" /\ Now(c).op \in MemOps

\* Two clients have reached the two servers in opposite orders.
Before(s, c, d) == \E i, j \in 1 .. Len(conns[s]) : i < j /\ conns[s][i] = c /\ conns[s][j] = d
Crossed == \E c, d \in Clients : Before("mem", c, d) /\ Before("arr", d, c)

\* When no process can move, every client that was started has come to an
\* end: the servers and clients do not wait for each other.  (A program
\* makes finitely many steps, so this says that the tests end.)  The
\* exceptions are the ones the programs have: a server was missing, was
\* stopped or got no answer, a call went astray ("the server seg faults on a
\* write_rmem", ddc_client.c 440), or two clients over TCP wait for each
\* other, each with the connection that the other needs.
NobodyIsStuck ==
    \/ away \/ astray \/ Crossed
    \/ \A c \in Clients : cpc[c] \in {"off", "done", "exit", "crash"}
    \/ ENABLED Running
=============================================================================
