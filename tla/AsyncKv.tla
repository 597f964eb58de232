------------------------------ MODULE AsyncKv ------------------------------
(***************************************************************************)
(* legacy/AsyncTCPLinux: the key-value server and its load generator, the  *)
(* prototype of a transport over non-blocking TCP.  Every client thread    *)
(* has one connection and keeps up to `pipeline' requests on it; a server  *)
(* thread serves the connections of its port.  Both wait with epoll, level *)
(* triggered, and read and write what the socket takes.                    *)
(*                                                                         *)
(* All keys are equal and so are all values, so a socket buffer is the     *)
(* number of bytes in it.  One step is one event of epoll_wait, or on the  *)
(* client its sending or its receiving half.                               *)
(***************************************************************************)
EXTENDS Naturals, FiniteSets

CONSTANTS
    NClientThreads,   \* num_threads of asyncclient
    NServerThreads,   \* num_threads of asyncserver, and -N of asyncclient
    KeyBytes,         \* key_size
    ValueBytes,       \* value_size, the same for both programs
    SocketBytes,      \* what the kernel buffers in one direction
    TotalReqs,        \* total_reqs
    PipelineArgs,     \* arguments -t considered
    MaxPipeline       \* MAX_PIPELINE

ASSUME AsyncKvAssumption ==
    /\ {NClientThreads, NServerThreads, KeyBytes, ValueBytes, SocketBytes, TotalReqs, MaxPipeline} \subseteq Nat \ {0}
    /\ PipelineArgs \subseteq Nat \ {0}

CThread == 0 .. NClientThreads - 1
SThread == 0 .. NServerThreads - 1
Fd == 0 .. NClientThreads - 1      \* descriptors of accepted connections
NoFd == NClientThreads
Meta(f) == [fd |-> f, pending |-> 0, r_offset |-> 0, w_offset |-> 0]
Least(a, b) == IF a <= b THEN a ELSE b

\* rw_exact, called again and again until the socket has taken or given n
\* bytes: how many items of the given size are done, and the offset into the
\* next one.
rw_exact(size, offset, n) == [done |-> (offset + n) \div size, offset |-> (offset + n) % size]

VARIABLES
    pipeline,
    cproc,        \* the client process: "off", "run" or how it ended
    cquit,        \* quit of the client
    cstate,          \* client threads
    req, resp, write_offset, read_offset,
    watchOut,     \* client threads: epoll reports EPOLLOUT
    up, down,     \* bytes on the way to the server and back, by client thread
    copen,        \* the client's end of the connection is open
    sock,         \* the server's end: "none", "backlog", "open" or "closed"
    fdOf,         \* its descriptor
    sproc,        \* the server process
    squit,        \* quit of the server
    sstate,          \* server threads
    cur,          \* server threads: the descriptor just accepted or just closed
    g_sockets,    \* metadata by descriptor, shared by the threads
    faulty,       \* history: a signal, or a call of the server failed
    raced         \* history: connections whose metadata two threads used at once

clientThreadVars == <<cstate, req, resp, write_offset, read_offset, watchOut>>
netVars == <<up, down, copen, sock, fdOf>>
serverThreadVars == <<sproc, squit, sstate, cur, g_sockets>>
kvVars == <<pipeline, cproc, cquit, clientThreadVars, netVars, serverThreadVars, faulty, raced>>

\* parse_args of the client: the pipeline is no longer than all requests.
parse_args(arg) == IF arg > TotalReqs THEN TotalReqs ELSE arg

KvInit ==
    /\ pipeline = 0
    /\ cproc = "off" /\ cquit = FALSE
    /\ cstate = [t \in CThread |-> "start"]
    /\ req = [t \in CThread |-> 0] /\ resp = [t \in CThread |-> 0]
    /\ write_offset = [t \in CThread |-> 0] /\ read_offset = [t \in CThread |-> 0]
    /\ watchOut = [t \in CThread |-> TRUE]
    /\ up = [t \in CThread |-> 0] /\ down = [t \in CThread |-> 0]
    /\ copen = [t \in CThread |-> FALSE] /\ sock = [t \in CThread |-> "none"]
    /\ fdOf = [t \in CThread |-> NoFd]
    /\ sproc = "off" /\ squit = FALSE
    /\ sstate = [s \in SThread |-> "start"] /\ cur = [s \in SThread |-> NoFd]
    /\ g_sockets = [f \in Fd |-> Meta(NoFd)]
    /\ faulty = FALSE /\ raced = {}

\* Both programs are started; main creates their threads.
KvMain(p) ==
    /\ cproc = "off"
    /\ cproc' = "run" /\ sproc' = "run" /\ pipeline' = parse_args(p)
    /\ UNCHANGED <<cquit, clientThreadVars, netVars, squit, sstate, cur, g_sockets, faulty, raced>>

PortOf(t) == t % NServerThreads
KvListening(s) == sproc = "run" /\ sstate[s] \notin {"start", "end"}

----------------------------------------------------------------------------
(* The client                                                              *)

\* exit, an assertion or a signal that kills: the kernel closes the sockets.
ClientDies(how) == cproc' = how /\ copen' = [t \in CThread |-> FALSE]

connect_to_target(t) ==
    /\ cproc = "run" /\ cstate[t] = "start"
    /\ IF KvListening(PortOf(t))
       THEN /\ sock' = [sock EXCEPT ![t] = "backlog"] /\ copen' = [copen EXCEPT ![t] = TRUE]
            /\ cstate' = [cstate EXCEPT ![t] = "poll"] /\ UNCHANGED cproc
       ELSE ClientDies("no server") /\ UNCHANGED <<sock, cstate>>
    /\ UNCHANGED <<pipeline, cquit, req, resp, write_offset, read_offset, watchOut, up, down, fdOf,
                   serverThreadVars, faulty, raced>>

CanRead(t) == down[t] > 0 \/ sock[t] = "closed"
CanWrite(t) == watchOut[t] /\ up[t] < SocketBytes

\* Mutant: one request too many is under way.
WantedOneMore(t) == Least(TotalReqs - req[t], pipeline + 1 - (req[t] - resp[t]))

\* The requests that the loop around client_send_req goes on to send.
Wanted(t) == Least(TotalReqs - req[t], pipeline - (req[t] - resp[t]))

\* Mutant: waits for input only, whether the last request is sent or not.
QuietAtOnce(t, sent, received) ==
    /\ watchOut' = [watchOut EXCEPT ![t] = FALSE]
    /\ cquit' = (cquit \/ received >= TotalReqs)

\* The end of the loop's body: with the last request sent the thread waits
\* for input only, and with the last response it makes all threads quit.
EndOfEvent(t, sent, received) ==
    /\ watchOut' = [watchOut EXCEPT ![t] = @ /\ sent # TotalReqs]
    /\ cquit' = (cquit \/ received >= TotalReqs)

\* An event, first half: client_send_req until the socket is full; the event
\* is over if there was nothing to read when epoll_wait returned.
client_send_req(t) ==
    LET n   == IF CanWrite(t) /\ Wanted(t) > 0
               THEN Least(SocketBytes - up[t], Wanted(t) * KeyBytes - write_offset[t]) ELSE 0
        w   == rw_exact(KeyBytes, write_offset[t], n)
    IN  /\ cproc = "run" /\ cstate[t] = "poll" /\ ~cquit /\ (n > 0 \/ CanRead(t))
        /\ \/ /\ up' = [up EXCEPT ![t] = @ + n]
              /\ req' = [req EXCEPT ![t] = @ + w.done]
              /\ write_offset' = [write_offset EXCEPT ![t] = w.offset]
              /\ IF CanRead(t) THEN UNCHANGED <<cquit, watchOut>> ELSE EndOfEvent(t, req'[t], resp[t])
           \/ n > 0 /\ sock[t] = "closed" /\ cquit' = TRUE /\ UNCHANGED <<up, req, write_offset, watchOut>>
        /\ cstate' = [cstate EXCEPT ![t] = IF CanRead(t) THEN "read" ELSE "poll"]
        /\ UNCHANGED <<pipeline, cproc, resp, read_offset, down, copen, sock, fdOf, serverThreadVars, faulty, raced>>

\* EPOLLERR: the connection is closed first.
ServerDisconnected(t) ==
    /\ cproc = "run" /\ cstate[t] = "poll" /\ ~cquit /\ sock[t] = "closed"
    /\ copen' = [copen EXCEPT ![t] = FALSE] /\ cquit' = TRUE
    /\ UNCHANGED <<pipeline, cproc, clientThreadVars, up, down, sock, fdOf, serverThreadVars, faulty, raced>>

\* ts_cons = ts_prod after k more responses; both count modulo MAX_PIPELINE.
RingEmpty(t, k) == (req[t] - (resp[t] + k)) % MaxPipeline = 0

\* Second half: client_recv_resp takes all there is.  At the end of the
\* stream read returns 0, and errno, left by some earlier call, says whether
\* that is a failure.
client_recv_resp(t) ==
    LET r == rw_exact(ValueBytes, read_offset[t], down[t])
    IN  /\ cproc = "run" /\ cstate[t] = "read"
        /\ IF \E i \in 0 .. r.done - 1 : RingEmpty(t, i)
           THEN ClientDies("abort") /\ UNCHANGED <<cquit, cstate, watchOut, resp, read_offset, down>>
           ELSE /\ resp' = [resp EXCEPT ![t] = @ + r.done]
                /\ read_offset' = [read_offset EXCEPT ![t] = r.offset]
                /\ down' = [down EXCEPT ![t] = 0]
                /\ \/ EndOfEvent(t, req[t], resp'[t])
                   \/ sock[t] = "closed" /\ cquit' = TRUE /\ UNCHANGED watchOut
                /\ cstate' = [cstate EXCEPT ![t] = "poll"]
                /\ UNCHANGED <<cproc, copen>>
        /\ UNCHANGED <<pipeline, req, write_offset, up, sock, fdOf, serverThreadVars, faulty, raced>>

\* After the loop: the mean latency is lat_sum / resp.
EndThread(t) ==
    /\ cproc = "run" /\ cstate[t] = "poll" /\ cquit
    /\ IF resp[t] = 0 THEN ClientDies("SIGFPE") /\ UNCHANGED cstate
       ELSE /\ copen' = [copen EXCEPT ![t] = FALSE]
            /\ cstate' = [cstate EXCEPT ![t] = "done"] /\ UNCHANGED cproc
    /\ UNCHANGED <<pipeline, cquit, req, resp, write_offset, read_offset, watchOut, up, down, sock, fdOf,
                   serverThreadVars, faulty, raced>>

\* main has joined all threads.
ClientExit ==
    /\ cproc = "run" /\ \A t \in CThread : cstate[t] = "done"
    /\ cproc' = "exit"
    /\ UNCHANGED <<pipeline, cquit, clientThreadVars, netVars, serverThreadVars, faulty, raced>>

\* SIGINT, SIGTERM, or SIGALRM after `runtime' seconds.
ClientSignal ==
    /\ cproc = "run" /\ ~cquit
    /\ cquit' = TRUE /\ faulty' = TRUE
    /\ UNCHANGED <<pipeline, cproc, clientThreadVars, netVars, serverThreadVars, raced>>

----------------------------------------------------------------------------
(* The server                                                              *)

\* The process ends, and the kernel closes its connections.
CloseAll == sock' = [t \in CThread |-> IF sock[t] \in {"backlog", "open"} THEN "closed" ELSE sock[t]]

create_listening_socket(s, ok) ==
    /\ sproc = "run" /\ sstate[s] = "start"
    /\ sstate' = [sstate EXCEPT ![s] = IF ok THEN "wait" ELSE "end"]
    /\ faulty' = (faulty \/ ~ok)
    /\ UNCHANGED <<pipeline, cproc, cquit, clientThreadVars, netVars, sproc, squit, cur, g_sockets, raced>>

FreeFd == CHOOSE f \in Fd : /\ \A t \in CThread : sock[t] = "open" => fdOf[t] # f
                            /\ \A e \in 0 .. f - 1 : \E t \in CThread : sock[t] = "open" /\ fdOf[t] = e

\* A new connection; the server ends when accept fails or the descriptor is
\* MAX_STATIC_SOCKETS or more.
Accept(s, t, ok) ==
    /\ sproc = "run" /\ sstate[s] = "wait" /\ ~squit /\ PortOf(t) = s /\ sock[t] = "backlog"
    /\ IF ok
       THEN /\ sock' = [sock EXCEPT ![t] = "open"] /\ fdOf' = [fdOf EXCEPT ![t] = FreeFd]
            /\ sstate' = [sstate EXCEPT ![s] = "accepted"] /\ cur' = [cur EXCEPT ![s] = FreeFd]
            /\ UNCHANGED <<sproc, faulty>>
       ELSE sproc' = "exit" /\ faulty' = TRUE /\ CloseAll /\ UNCHANGED <<fdOf, sstate, cur>>
    /\ UNCHANGED <<pipeline, cproc, cquit, clientThreadVars, up, down, copen, squit, g_sockets, raced>>

\* Its metadata is cleared, and epoll is told of it.
allocate_socket_metadata(s) ==
    /\ sproc = "run" /\ sstate[s] = "accepted"
    /\ g_sockets' = [g_sockets EXCEPT ![cur[s]] = Meta(cur[s])]
    /\ sstate' = [sstate EXCEPT ![s] = "wait"] /\ cur' = [cur EXCEPT ![s] = NoFd]
    /\ UNCHANGED <<pipeline, cproc, cquit, clientThreadVars, netVars, sproc, squit, faulty, raced>>

\* Mutant: a value that did not fit is begun again.
SendRespAgain(m, room) ==
    LET n   == Least(room, m.pending * ValueBytes - m.w_offset)
        off == m.w_offset + n
    IN  [bytes |-> n, meta |-> [m EXCEPT !.pending = @ - off \div ValueBytes, !.w_offset = 0]]

\* Bytes that client_send_resp writes, and what it leaves of the metadata.
client_send_resp(m, room) ==
    LET n == Least(room, m.pending * ValueBytes - m.w_offset)
        w == rw_exact(ValueBytes, m.w_offset, n)
    IN  [bytes |-> n, meta |-> [m EXCEPT !.pending = @ - w.done, !.w_offset = w.offset]]

\* What client_recv_req makes of n more bytes.
client_recv_req(m, n) ==
    LET r == rw_exact(KeyBytes, m.r_offset, n)
    IN  [m EXCEPT !.pending = @ + r.done, !.r_offset = r.offset]

\* A thread that has events of connection t: pending responses are sent (if
\* epoll reported EPOLLOUT), then requests read (if EPOLLIN).
ServeConnection(t, writable, readable) ==
    LET f   == fdOf[t]
        m   == g_sockets[f]
        out == client_send_resp(m, IF writable THEN SocketBytes - down[t] ELSE 0)
        n   == IF readable THEN up[t] ELSE 0
    IN  /\ down' = [down EXCEPT ![t] = @ + out.bytes]
        /\ up' = [up EXCEPT ![t] = @ - n]
        /\ g_sockets' = [g_sockets EXCEPT ![f] = client_recv_req(out.meta, n)]

CanServe(t) == up[t] > 0 \/ (g_sockets[fdOf[t]].pending > 0 /\ down[t] < SocketBytes)

\* A connection of which epoll has been told, unless its metadata is missing.
Registered(s, t) ==
    /\ sproc = "run" /\ sstate[s] = "wait" /\ ~squit /\ PortOf(t) = s /\ sock[t] = "open"

HandleEvent(s, t) ==
    /\ Registered(s, t) /\ CanServe(t)
    /\ IF g_sockets[fdOf[t]].fd = fdOf[t]
       THEN ServeConnection(t, TRUE, TRUE) /\ UNCHANGED <<sock, sproc>>
       ELSE sproc' = "exit" /\ CloseAll /\ UNCHANGED <<up, down, g_sockets>>
    /\ UNCHANGED <<pipeline, cproc, cquit, clientThreadVars, copen, fdOf, squit, sstate, cur, faulty, raced>>

\* EPOLLRDHUP: the socket is closed, and the handler goes on with it.
disconnect_socket(s, t) ==
    /\ Registered(s, t) /\ ~copen[t]
    /\ sock' = [sock EXCEPT ![t] = "closed"]
    /\ sstate' = [sstate EXCEPT ![s] = "closed"] /\ cur' = [cur EXCEPT ![s] = fdOf[t]]
    /\ UNCHANGED <<pipeline, cproc, cquit, clientThreadVars, up, down, copen, fdOf, sproc, squit, g_sockets, faulty, raced>>

\* It writes if a response was pending, and reads: on a closed descriptor
\* both fail.  If another thread has accepted a connection t with the same
\* descriptor, t is served, with the metadata of the old connection if the
\* other thread has not cleared it yet.
UseAfterClose(s) ==
    LET owners == {t \in CThread : sock[t] = "open" /\ fdOf[t] = cur[s]}
    IN  /\ sproc = "run" /\ sstate[s] = "closed"
        /\ sstate' = [sstate EXCEPT ![s] = "wait"] /\ cur' = [cur EXCEPT ![s] = NoFd]
        /\ \/ owners = {} /\ UNCHANGED <<up, down, g_sockets, raced>>
           \/ \E t \in owners, writable, readable \in BOOLEAN :
                 /\ ServeConnection(t, writable, readable)
                 /\ raced' = IF sstate[PortOf(t)] = "accepted" /\ <<up, down>>' # <<up, down>>
                             THEN raced \cup {t} ELSE raced
        /\ UNCHANGED <<pipeline, cproc, cquit, clientThreadVars, copen, sock, fdOf, sproc, squit, faulty>>

\* Or the other thread serves t at the same time: a data race on the metadata.
\* Both read what there is; how many responses are written, and what is left
\* of the metadata, is not determined, and the offsets may lead outside the
\* buffers.
RaceOnMetadata(s) ==
    /\ sproc = "run" /\ sstate[s] = "closed"
    /\ \E t \in CThread :
          /\ sock[t] = "open" /\ fdOf[t] = cur[s] /\ sstate[PortOf(t)] = "wait" /\ CanServe(t)
          /\ raced' = raced \cup {t}
          /\ \/ /\ \E p \in 0 .. TotalReqs, r \in 0 .. KeyBytes - 1, w \in 0 .. ValueBytes - 1 :
                      g_sockets' = [g_sockets EXCEPT ![cur[s]] =
                                        [fd |-> cur[s], pending |-> p, r_offset |-> r, w_offset |-> w]]
                /\ up' = [up EXCEPT ![t] = 0]
                /\ \E d \in {down[t], SocketBytes} : down' = [down EXCEPT ![t] = d]
                /\ sstate' = [sstate EXCEPT ![s] = "wait"] /\ cur' = [cur EXCEPT ![s] = NoFd]
                /\ UNCHANGED <<sproc, sock>>
             \/ sproc' = "crash" /\ CloseAll /\ UNCHANGED <<g_sockets, up, down, sstate, cur>>
    /\ UNCHANGED <<pipeline, cproc, cquit, clientThreadVars, copen, fdOf, squit, faulty>>

\* Closing the listening socket resets what it has not accepted.
EndServerThread(s) ==
    /\ sproc = "run" /\ sstate[s] = "wait" /\ squit
    /\ sstate' = [sstate EXCEPT ![s] = "end"]
    /\ sock' = [t \in CThread |-> IF sock[t] = "backlog" /\ PortOf(t) = s THEN "closed" ELSE sock[t]]
    /\ UNCHANGED <<pipeline, cproc, cquit, clientThreadVars, up, down, copen, fdOf, sproc, squit, cur, g_sockets,
                   faulty, raced>>

ServerSignal ==
    /\ sproc = "run" /\ ~squit
    /\ squit' = TRUE /\ faulty' = TRUE
    /\ UNCHANGED <<pipeline, cproc, cquit, clientThreadVars, netVars, sproc, sstate, cur, g_sockets, raced>>

KvServerExit ==
    /\ sproc = "run" /\ \A s \in SThread : sstate[s] = "end"
    /\ sproc' = "exit" /\ CloseAll
    /\ UNCHANGED <<pipeline, cproc, cquit, clientThreadVars, up, down, copen, fdOf, squit, sstate, cur, g_sockets, faulty, raced>>

----------------------------------------------------------------------------
ClientThread(t) ==
    \/ connect_to_target(t) \/ client_send_req(t) \/ ServerDisconnected(t)
    \/ client_recv_resp(t) \/ EndThread(t)

ServerThread(s) ==
    \/ create_listening_socket(s, TRUE) \/ allocate_socket_metadata(s) \/ EndServerThread(s)
    \/ UseAfterClose(s) \/ RaceOnMetadata(s)
    \/ \E t \in CThread : Accept(s, t, TRUE) \/ HandleEvent(s, t) \/ disconnect_socket(s, t)

\* Bound: one fault in a behaviour.
KvFaults ==
    /\ ~faulty
    /\ \/ ClientSignal \/ ServerSignal
       \/ \E s \in SThread : create_listening_socket(s, FALSE) \/ \E t \in CThread : Accept(s, t, FALSE)

KvThreads ==
    \/ \E t \in CThread : ClientThread(t)
    \/ ClientExit
    \/ \E s \in SThread : ServerThread(s)
    \/ KvServerExit

KvNext ==
    \/ KvThreads
    \/ \E p \in PipelineArgs : KvMain(p)
    \/ KvFaults

\* Some thread that can go on does.
KvFairness == WF_kvVars(KvThreads)

KvSpec == KvInit /\ [][KvNext]_kvVars /\ KvFairness

----------------------------------------------------------------------------
\* Types.  No thread sends more than total_reqs requests.
KvTypeOK ==
    /\ \A t \in CThread : /\ req[t] \in 0 .. TotalReqs /\ resp[t] \in 0 .. TotalReqs
                          /\ write_offset[t] < KeyBytes /\ read_offset[t] < ValueBytes
                          /\ up[t] \in 0 .. SocketBytes /\ down[t] \in 0 .. SocketBytes
                          /\ cstate[t] \in {"start", "poll", "read", "done"}
                          /\ sock[t] \in {"none", "backlog", "open", "closed"}
    /\ \A f \in Fd : g_sockets[f].pending \in 0 .. TotalReqs * (1 + Cardinality(raced))
    /\ cproc \in {"off", "run", "exit", "no server", "abort", "SIGFPE"}
    /\ sproc \in {"off", "run", "exit", "crash"}

\* A request gets one response and the streams stay in step, however keys
\* and values are cut up by full sockets (rw_exact): what a connection's
\* client has sent is what the server has answered, has counted as pending
\* and has not read yet.  This holds from the moment the connection's metadata
\* is cleared, also when the thread that closed the descriptor before goes
\* on and serves the new connection (asyncserver.c 213), unless both threads
\* do so at once or the metadata was not cleared yet.  And the server never
\* ends for want of metadata (asyncserver.c 207).
OneResponsePerRequest ==
    /\ KvTypeOK
    /\ \A t \in CThread :
          sock[t] = "open" /\ copen[t] /\ sstate[PortOf(t)] # "accepted" /\ t \notin raced =>
              LET m        == g_sockets[fdOf[t]]
                  answered == (resp[t] * ValueBytes + read_offset[t] + down[t] - m.w_offset) \div ValueBytes
              IN  /\ (answered + m.pending) * KeyBytes + m.r_offset + up[t] = req[t] * KeyBytes + write_offset[t]
                  /\ answered * ValueBytes + m.w_offset = resp[t] * ValueBytes + read_offset[t] + down[t]
    /\ sproc = "exit" => faulty
    /\ sproc = "crash" => raced # {}

\* assert(ts_cons != ts_prod) (asyncclient.c 70): a response finds the time
\* stamp of its request in the ring.
RingNotEmpty == cproc # "abort"

\* How the client ends.  The assertion on the ring of time stamps fails only
\* if the pipeline is not shorter than the ring, or for a connection that
\* two threads of the server have garbled.  When the client ends by itself,
\* some thread has all its responses; and it divides by zero (asyncclient.c
\* 232) only if another thread has none yet, as quit is one variable.
ClientEndsForAReason ==
    /\ cproc = "abort" => pipeline >= MaxPipeline \/ raced # {}
    /\ cproc \in {"exit", "SIGFPE"} /\ ~faulty =>
          \E t \in CThread : /\ resp[t] = TotalReqs
                             /\ cproc = "SIGFPE" => \E u \in CThread \ {t} : resp[u] = 0

\* A client whose server is there comes to its end, without the alarm: no
\* request is forgotten by an epoll loop that waits for the wrong event.
ClientEnds == <>[](cproc # "run" \/ faulty)
=============================================================================
