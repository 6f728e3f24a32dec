-------------------------------- MODULE Sock --------------------------------
(***************************************************************************)
(* The socket API of xv6: sock.c (the socket table and its five system     *)
(* calls), syssock.c (their argument fetching) and the parts of proc.c the *)
(* calls rely on (sleep, wakeup, kill, exit).                              *)
(*                                                                         *)
(* Every call runs under stable.lock from its first table access to its    *)
(* return or to sleep(), which releases the lock; a call is therefore one  *)
(* action up to its sleep and one action ("...Wake") from the moment it    *)
(* has reacquired the lock.  Between wakeup() (SLEEPING -> RUNNABLE) and   *)
(* that action any other process may run.                                  *)
(***************************************************************************)
EXTENDS Integers, FiniteSets

CONSTANTS
    Procs,      \* proc-table entries that use sockets
    NSOCK,      \* number of slots of stable.sock
    NPORT,      \* ports are 0 .. NPORT-1
    SBUFFSIZE,  \* bytes of a receive buffer
    Messages,   \* byte arrays user programs send
    RecvSizes,  \* lengths user programs pass to recv
    MaxSid      \* bound of the model: allocsock succeeds at most MaxSid times

NUL == 0                    \* the string terminator
NULL == -1                  \* no slot
INV_PORT == -1
NoOwner == "NULL"           \* the owner of a free slot
Slots == 0 .. NSOCK - 1
Ports == 0 .. NPORT - 1
Bytes == 0 .. SBUFFSIZE - 1

ASSUME ProcsAssumption == NoOwner \notin Procs
ASSUME NSOCKAssumption == NSOCK \in Nat \ {0}
ASSUME NPORTAssumption == NPORT \in Nat \ {0, 1}
ASSUME SBUFFSIZEAssumption == SBUFFSIZE \in Nat \ {0}
ASSUME MessagesAssumption == Messages \subseteq [Bytes -> Nat]
ASSUME RecvSizesAssumption == RecvSizes \subseteq 0 .. SBUFFSIZE
ASSUME MaxSidAssumption == MaxSid \in Nat

VARIABLES
    sock,       \* stable.sock
    countSock,
    nextsid,
    proc,       \* of struct proc: state, chan, killed
    frame,      \* kernel-stack locals of the call a process is inside of
    ret,        \* the last return of a socket call: to whom, of what, what
    panicked,   \* the kernel has called panic()
    hist        \* history: per slot, sid of the peer given by connect, and
                \* sid of the socket whose send() last wrote the buffer

vars == <<sock, countSock, nextsid, proc, frame, ret, panicked, hist>>

SockStates == {"CLOSED", "OPENED", "LISTENING", "CONNECTED"}
Calls == {"listen", "connect", "send", "recv", "disconnect"}
Codes == {"OK", "E_MISSING_ARG", "E_NOTFOUND", "E_ACCESS_DENIED",
          "E_WRONG_STATE", "E_FAIL", "E_INVALID_ARG",
          "E_CONNECTION_RESET_BY_REMOTE"}

EmptyBuffer == [i \in Bytes |-> NUL]
NoFrame == [fn |-> "none", local |-> NULL, remote |-> NULL,
            data |-> EmptyBuffer, n |-> 0]

\* strncpy of string.c: copies up to and including the terminator, pads to n
\* bytes with NUL, and leaves the bytes from n on as they were.
strncpy(dst, src, n) ==
    [i \in Bytes |-> IF i >= n THEN dst[i]
                     ELSE IF \E j \in 0 .. i : src[j] = NUL THEN NUL
                     ELSE src[i]]

-----------------------------------------------------------------------------
(* The table's helper functions. *)

Open(s) == sock[s].state # "CLOSED"
At(s, port) == Open(s) /\ sock[s].lPort = port

\* The first open socket at a port, or NULL.
getsock(port) ==
    IF port \in Ports /\ \E s \in Slots : At(s, port)
    THEN CHOOSE s \in Slots :
            At(s, port) /\ \A t \in Slots : At(t, port) => s <= t
    ELSE NULL

\* setsockvalue(..., overWriteToDef = true): only the first byte of the
\* buffer is overwritten.
setsockvalue(old, sid, state, owner, lPort) ==
    [sid |-> sid, state |-> state, owner |-> owner, lPort |-> lPort,
     rPort |-> INV_PORT, hasfullbuffer |-> FALSE,
     recvbuffer |-> strncpy(old.recvbuffer, EmptyBuffer, 1)]

resetsock(s) == setsockvalue(sock[s], -1, "CLOSED", NoOwner, INV_PORT)

\* Mutant: the port is not checked.
allocsockPicksUsedPort(s, lport) ==
    lport \in Ports /\ ~Open(s) /\ \A t \in Slots : t < s => Open(t)

\* The slot allocsock hands out for a port: the first CLOSED one, if the port
\* is free.
allocsockPicks(s, lport) ==
    /\ lport \in Ports
    /\ getsock(lport) = NULL
    /\ ~Open(s)
    /\ \A t \in Slots : t < s => Open(t)

allocsockFails(lport) ==
    \/ lport \notin Ports
    \/ getsock(lport) # NULL
    \/ \A s \in Slots : Open(s)

\* The port getfreeport returns: the highest free one; port 0 is never tried.
getfreeportPicks(port) ==
    /\ port \in 1 .. NPORT - 1
    /\ getsock(port) = NULL
    /\ \A q \in 1 .. NPORT - 1 : q > port => getsock(q) # NULL

getfreeportFails == \A q \in 1 .. NPORT - 1 : getsock(q) # NULL

\* wakeup on each of the channels C.
wakeupAll(ps, C) ==
    [q \in Procs |-> IF ps[q].state = "SLEEPING" /\ ps[q].chan \in C
                     THEN [ps[q] EXCEPT !.state = "RUNNABLE"]
                     ELSE ps[q]]

\* sleep(chan, &stable.lock)
sleep(p, c) ==
    [proc EXCEPT ![p] = [@ EXCEPT !.state = "SLEEPING", !.chan = c]]

\* The tail of sleep(), run when the process is scheduled again.
tidied(p) == [proc EXCEPT ![p].chan = NULL]

\* Mutant: the socket is counted off twice.
removesockTwice(R, ps) ==
    /\ proc' = wakeupAll(ps, R)
    /\ sock' = [s \in Slots |-> IF s \in R THEN resetsock(s) ELSE sock[s]]
    /\ countSock' = countSock - 2 * Cardinality(R)

\* removesock of every slot of R: wake its sleepers, reset it, count it off.
removesock(R, ps) ==
    /\ proc' = wakeupAll(ps, R)
    /\ sock' = [s \in Slots |-> IF s \in R THEN resetsock(s) ELSE sock[s]]
    /\ countSock' = countSock - Cardinality(R)

\* The sockets closeprocsocks removes: getprocsock until it returns NULL.
procsocks(p) == {s \in Slots : Open(s) /\ sock[s].owner = p}

\* A call returns to its process.
retsockfunc(p, fn, code, data) ==
    /\ ret' = [proc |-> p, fn |-> fn, code |-> code, data |-> data]
    /\ frame' = [frame EXCEPT ![p] = NoFrame]

\* An error return: nothing but the return value changes.
fails(p, fn, code) ==
    /\ retsockfunc(p, fn, code, EmptyBuffer)
    /\ UNCHANGED <<sock, countSock, nextsid, proc, panicked, hist>>

\* The call sleeps with these locals on its kernel stack.
blocks(p, fn, local, remote, data, n) ==
    frame' = [frame EXCEPT ![p] = [fn |-> fn, local |-> local,
                                   remote |-> remote, data |-> data, n |-> n]]

-----------------------------------------------------------------------------
(* Guards of a process's steps. *)

\* trap() lets a process start a call if it was not killed when it checked;
\* "trap" marks a process killed between that check and the call itself.
CanCall(p) ==
    /\ ~panicked
    /\ proc[p].state = "RUNNABLE"
    /\ \/ frame[p].fn = "none" /\ ~proc[p].killed
       \/ frame[p].fn = "trap"

\* The process has been woken inside call fn and has stable.lock again.
Woken(p, fn) == ~panicked /\ proc[p].state = "RUNNABLE" /\ frame[p].fn = fn

-----------------------------------------------------------------------------
(* listen *)

listen(p, lport) ==
    /\ CanCall(p)
    /\ \/ /\ lport \notin Ports
          /\ fails(p, "listen", "E_INVALID_ARG")
       \/ /\ lport \in Ports
          /\ countSock = NSOCK
          /\ fails(p, "listen", "E_FAIL")
       \/ /\ lport \in Ports
          /\ countSock # NSOCK
          /\ allocsockFails(lport)
          /\ fails(p, "listen", "E_ACCESS_DENIED")
       \/ /\ countSock # NSOCK
          /\ nextsid < MaxSid
          /\ \E s \in Slots :
                /\ allocsockPicks(s, lport)
                /\ sock' = [sock EXCEPT ![s] =
                      setsockvalue(@, nextsid, "LISTENING", p, lport)]
                /\ proc' = sleep(p, s)
                /\ blocks(p, "listen", s, NULL, EmptyBuffer, 0)
                /\ hist' = [hist EXCEPT ![s] = [peer |-> -1, from |-> -1]]
          /\ countSock' = countSock + 1
          /\ nextsid' = nextsid + 1
          /\ UNCHANGED <<ret, panicked>>

listenWake(p) ==
    /\ Woken(p, "listen")
    /\ proc' = tidied(p)
    /\ retsockfunc(p, "listen", "OK", EmptyBuffer)
    /\ UNCHANGED <<sock, countSock, nextsid, panicked, hist>>

-----------------------------------------------------------------------------
(* connect; localhost says whether the host name passes the two strncmp. *)

connectError(rport, localhost) ==
    LET remote == getsock(rport)
    IN  IF rport \notin Ports THEN "E_INVALID_ARG"
        ELSE IF ~localhost THEN "E_INVALID_ARG"
        ELSE IF getfreeportFails THEN "E_FAIL"
        ELSE IF remote = NULL THEN "E_NOTFOUND"
        ELSE IF sock[remote].state # "LISTENING" THEN "E_WRONG_STATE"
        ELSE IF \A s \in Slots : Open(s) THEN "E_FAIL"
        ELSE "OK"

connectJoin(p, local, remote, lport) ==
    /\ sock' = [sock EXCEPT
          ![local] = [setsockvalue(@, nextsid, "CONNECTED", p, lport)
                        EXCEPT !.rPort = sock[remote].lPort],
          ![remote] = [@ EXCEPT !.state = "CONNECTED", !.rPort = lport,
                                !.hasfullbuffer = FALSE]]
    /\ proc' = wakeupAll(proc, {remote})
    /\ hist' = [hist EXCEPT
          ![local] = [peer |-> sock[remote].sid, from |-> -1],
          ![remote] = [peer |-> nextsid, from |-> -1]]

connect(p, rport, localhost) ==
    /\ CanCall(p)
    /\ \/ /\ connectError(rport, localhost) # "OK"
          /\ fails(p, "connect", connectError(rport, localhost))
       \/ /\ connectError(rport, localhost) = "OK"
          /\ nextsid < MaxSid
          /\ \E lport \in Ports, local \in Slots :
                /\ getfreeportPicks(lport)
                /\ allocsockPicks(local, lport)
                /\ connectJoin(p, local, getsock(rport), lport)
          /\ countSock' = countSock + 1
          /\ nextsid' = nextsid + 1
          /\ retsockfunc(p, "connect", "OK", EmptyBuffer)
          /\ UNCHANGED panicked

-----------------------------------------------------------------------------
(* send and recv *)

\* The checks send and recv both make before they touch a buffer.
transferError(p, lport) ==
    LET local == getsock(lport)
        remote == getsock(sock[local].rPort)
    IN  IF lport \notin Ports THEN "E_INVALID_ARG"
        ELSE IF local = NULL THEN "E_NOTFOUND"
        ELSE IF sock[local].owner # p THEN "E_ACCESS_DENIED"
        ELSE IF sock[local].state # "CONNECTED" THEN "E_WRONG_STATE"
        ELSE IF remote = NULL THEN "E_NOTFOUND"
        ELSE IF sock[remote].state # "CONNECTED" THEN "E_WRONG_STATE"
        ELSE "OK"

\* Socket s with data in its receive buffer.
written(s, data, n) ==
    [sock[s] EXCEPT !.recvbuffer = strncpy(@, data, n), !.hasfullbuffer = TRUE]

\* send from line 137 on.  remote is the pointer taken before any sleep.
sendFinish(p, ps, local, remote, data, n) ==
    \/ /\ getsock(sock[local].rPort) = NULL
       /\ removesock({local}, ps)
       /\ retsockfunc(p, "send", "E_CONNECTION_RESET_BY_REMOTE", EmptyBuffer)
       /\ UNCHANGED <<nextsid, panicked, hist>>
    \/ /\ getsock(sock[local].rPort) # NULL
       /\ sock' = [sock EXCEPT ![remote] = written(remote, data, n)]
       /\ proc' = wakeupAll(ps, {local})
       /\ hist' = [hist EXCEPT ![remote].from = sock[local].sid]
       /\ retsockfunc(p, "send", "OK", EmptyBuffer)
       /\ UNCHANGED <<countSock, nextsid, panicked>>

\* sys_send fetches the length from argument 0, which is the port.
sys_send_n(lport) == lport

send(p, lport, data) ==
    /\ CanCall(p)
    /\ LET local == getsock(lport)
           remote == getsock(sock[local].rPort)
           n == sys_send_n(lport)
       IN  \/ /\ transferError(p, lport) # "OK"
              /\ fails(p, "send", transferError(p, lport))
           \/ /\ transferError(p, lport) = "OK"
              /\ ~sock[remote].hasfullbuffer
              /\ sendFinish(p, proc, local, remote, data, n)
           \/ /\ transferError(p, lport) = "OK"
              /\ sock[remote].hasfullbuffer
              /\ proc' = sleep(p, remote)
              /\ blocks(p, "send", local, remote, data, n)
              /\ UNCHANGED <<sock, countSock, nextsid, ret, panicked, hist>>

sendWake(p) ==
    /\ Woken(p, "send")
    /\ sendFinish(p, tidied(p), frame[p].local, frame[p].remote,
                  frame[p].data, frame[p].n)

\* What recv copies out of socket s, and s after it: only the first byte of
\* the buffer is overwritten.
handedOver(s, n) == strncpy(EmptyBuffer, sock[s].recvbuffer, n)
emptied(s) == [sock[s] EXCEPT !.recvbuffer = [@ EXCEPT ![0] = NUL],
                              !.hasfullbuffer = FALSE]

\* Mutant: the blocked sender is not woken.
recvFinishNoWakeup(p, ps, local, n) ==
    /\ sock' = [sock EXCEPT ![local].hasfullbuffer = FALSE]
    /\ proc' = ps
    /\ retsockfunc(p, "recv", "OK", sock[local].recvbuffer)
    /\ UNCHANGED <<countSock, nextsid, panicked, hist>>

\* recv from line 169 on: hand over and empty the buffer, wake the sleepers
\* on the own socket, then look whether the peer is still there.
recvFinish(p, ps, local, n) ==
    \/ /\ getsock(sock[local].rPort) = NULL
       /\ removesock({local}, wakeupAll(ps, {local}))
       /\ retsockfunc(p, "recv", "E_CONNECTION_RESET_BY_REMOTE",
                      handedOver(local, n))
       /\ UNCHANGED <<nextsid, panicked, hist>>
    \/ /\ getsock(sock[local].rPort) # NULL
       /\ sock' = [sock EXCEPT ![local] = emptied(local)]
       /\ proc' = wakeupAll(ps, {local})
       /\ retsockfunc(p, "recv", "OK", handedOver(local, n))
       /\ UNCHANGED <<countSock, nextsid, panicked, hist>>

recv(p, lport, n) ==
    /\ CanCall(p)
    /\ LET local == getsock(lport)
           remote == getsock(sock[local].rPort)
       IN  \/ /\ transferError(p, lport) # "OK"
              /\ fails(p, "recv", transferError(p, lport))
           \/ /\ transferError(p, lport) = "OK"
              /\ sock[local].hasfullbuffer
              /\ recvFinish(p, proc, local, n)
           \/ /\ transferError(p, lport) = "OK"
              /\ ~sock[local].hasfullbuffer
              /\ proc' = sleep(p, remote)
              /\ blocks(p, "recv", local, remote, EmptyBuffer, n)
              /\ UNCHANGED <<sock, countSock, nextsid, ret, panicked, hist>>

recvWake(p) ==
    /\ Woken(p, "recv")
    /\ recvFinish(p, tidied(p), frame[p].local, frame[p].n)

-----------------------------------------------------------------------------
(* disconnect, the argument checks of syssock.c, exit, kill, fork *)

disconnectError(p, lport) ==
    LET local == getsock(lport)
    IN  IF lport \notin Ports THEN "E_INVALID_ARG"
        ELSE IF local = NULL THEN "E_NOTFOUND"
        ELSE IF sock[local].owner # p THEN "E_ACCESS_DENIED"
        ELSE "OK"

disconnect(p, lport) ==
    /\ CanCall(p)
    /\ \/ /\ disconnectError(p, lport) # "OK"
          /\ fails(p, "disconnect", disconnectError(p, lport))
       \/ /\ disconnectError(p, lport) = "OK"
          /\ removesock({getsock(lport)}, proc)
          /\ retsockfunc(p, "disconnect", "OK", EmptyBuffer)
          /\ UNCHANGED <<nextsid, panicked, hist>>

\* argint, argstr or argptr of a sys_ function fails.
missingArg(p, fn) == CanCall(p) /\ fails(p, fn, "E_MISSING_ARG")

\* exit(), called by the program or by trap() for a killed process, then
\* wait() of the parent, which frees the proc-table entry.
exit(p) ==
    /\ ~panicked
    /\ proc[p].state = "RUNNABLE"
    /\ frame[p].fn = "none"
    /\ LET freed == [proc EXCEPT ![p] = [state |-> "UNUSED", chan |-> NULL,
                                         killed |-> FALSE]]
       IN  removesock(procsocks(p), freed)
    /\ UNCHANGED <<nextsid, frame, ret, panicked, hist>>

\* Mutant: closeprocsocks works with ptable.lock held (wakeup1 for wakeup).
killClosing(v) ==
    /\ ~panicked
    /\ proc[v].state # "UNUSED"
    /\ removesock(procsocks(v), [proc EXCEPT
          ![v].killed = TRUE,
          ![v].state = IF @ = "SLEEPING" THEN "RUNNABLE" ELSE @])
    /\ UNCHANGED <<nextsid, frame, ret, panicked, hist>>

\* kill(), called by a running process: it holds ptable.lock when it calls
\* closeprocsocks, whose removesock calls wakeup, whose acquire(&ptable.lock)
\* panics because this CPU already holds that lock.  The locks themselves are
\* no state here: that kill waits for stable.lock with ptable.lock held while
\* sleep and wakeup take them in the other order is in the README.
kill(v) ==
    /\ \E q \in Procs : CanCall(q)
    /\ proc[v].state # "UNUSED"
    /\ \/ /\ procsocks(v) # {}
          /\ panicked' = TRUE
          /\ UNCHANGED <<sock, countSock, nextsid, proc, frame, ret, hist>>
       \/ /\ procsocks(v) = {}
          /\ proc' = [proc EXCEPT ![v] =
                [@ EXCEPT !.killed = TRUE,
                          !.state = IF proc[v].state = "SLEEPING"
                                    THEN "RUNNABLE" ELSE proc[v].state]]
          /\ \/ UNCHANGED frame
             \/ /\ frame[v].fn = "none"
                /\ ~proc[v].killed
                /\ frame' = [frame EXCEPT ![v].fn = "trap"]
          /\ UNCHANGED <<sock, countSock, nextsid, ret, panicked, hist>>

\* fork(): a new process in a free entry; sockets are not inherited.
fork(p) ==
    /\ ~panicked
    /\ proc[p].state = "UNUSED"
    /\ proc' = [proc EXCEPT ![p].state = "RUNNABLE"]
    /\ UNCHANGED <<sock, countSock, nextsid, frame, ret, panicked, hist>>

-----------------------------------------------------------------------------

\* sinit() and the zeroed static stable: every slot CLOSED.
Init ==
    /\ sock = [s \in Slots |-> [sid |-> 0, state |-> "CLOSED",
                                owner |-> NoOwner, lPort |-> 0, rPort |-> 0,
                                hasfullbuffer |-> FALSE,
                                recvbuffer |-> EmptyBuffer]]
    /\ countSock = 0
    /\ nextsid = 0
    /\ proc = [p \in Procs |-> [state |-> "RUNNABLE", chan |-> NULL,
                                killed |-> FALSE]]
    /\ frame = [p \in Procs |-> NoFrame]
    /\ ret = [proc |-> NoOwner, fn |-> "none", code |-> "OK",
              data |-> EmptyBuffer]
    /\ panicked = FALSE
    /\ hist = [s \in Slots |-> [peer |-> -1, from |-> -1]]

\* Ports a program may name: the valid ones and the two next to them.
ArgPorts == -1 .. NPORT

Call(p) ==
    \/ \E port \in ArgPorts : listen(p, port) \/ disconnect(p, port)
    \/ \E port \in ArgPorts, localhost \in BOOLEAN :
          connect(p, port, localhost)
    \/ \E port \in ArgPorts, m \in Messages : send(p, port, m)
    \/ \E port \in ArgPorts, n \in RecvSizes : recv(p, port, n)
    \/ \E fn \in Calls : missingArg(p, fn)

Wake(p) == listenWake(p) \/ sendWake(p) \/ recvWake(p)

Next == \E p \in Procs : Call(p) \/ Wake(p) \/ exit(p) \/ kill(p) \/ fork(p)

Spec == Init /\ [][Next]_vars

\* The scheduler is round robin and stable.lock is held for finitely many
\* steps only, so a woken process runs on.
FairSpec == Spec /\ \A p \in Procs : WF_vars(Wake(p))

-----------------------------------------------------------------------------
(* Invariants *)

Inside(p) == frame[p].fn \in {"listen", "send", "recv"}
OpenSlots == {s \in Slots : Open(s)}

SockRec == [sid : Int, state : SockStates, owner : Procs \cup {NoOwner},
            lPort : Ports \cup {INV_PORT}, rPort : Ports \cup {INV_PORT},
            hasfullbuffer : BOOLEAN, recvbuffer : [Bytes -> Nat]]
ProcRec == [state : {"UNUSED", "RUNNABLE", "SLEEPING"},
            chan : Slots \cup {NULL}, killed : BOOLEAN]
FrameRec == [fn : {"none", "trap", "listen", "send", "recv"},
             local : Slots \cup {NULL}, remote : Slots \cup {NULL},
             data : [Bytes -> Nat], n : Int]
RetRec == [proc : Procs \cup {NoOwner}, fn : Calls \cup {"none"},
           code : Codes, data : [Bytes -> Nat]]

\* Every variable has its type; in particular the count never leaves the
\* range of the table.
TypeOK ==
    /\ sock \in [Slots -> SockRec]
    /\ countSock \in 0 .. NSOCK
    /\ nextsid \in Nat
    /\ proc \in [Procs -> ProcRec]
    /\ frame \in [Procs -> FrameRec]
    /\ ret \in RetRec
    /\ panicked \in BOOLEAN
    /\ hist \in [Slots -> [peer : Int, from : Int]]

\* countSock, on which listen's E_FAIL depends, is the number of open slots:
\* removesock does not look at the state of what it removes, so no call may
\* ever remove a slot that is already free.
CountExact == countSock = Cardinality(OpenSlots)

\* Two open sockets never share a local port, so getsock's "first match" is
\* the only match.
PortsUnique ==
    \A s, t \in OpenSlots : sock[s].lPort = sock[t].lPort => s = t

\* An open socket has a valid port and belongs to a live process: exit leaves
\* no socket behind that a later process in the same entry would inherit.
OwnersAlive ==
    \A s \in OpenSlots :
        /\ sock[s].lPort \in Ports
        /\ sock[s].owner \in Procs
        /\ proc[sock[s].owner].state # "UNUSED"

\* A process inside a call still owns the open socket it called on, however
\* long it slept: the local pointer send and recv use after sleep() is never
\* stale.
LocalStaysOwned ==
    \A p \in Procs : Inside(p) =>
        /\ frame[p].local \in OpenSlots
        /\ sock[frame[p].local].owner = p
        /\ frame[p].fn # "listen" => sock[frame[p].local].state = "CONNECTED"

\* Nobody sleeps on a slot that has been closed: removesock wakes every
\* sleeper before the slot can be handed out again.
NoSleepOnClosed ==
    \A p \in Procs : proc[p].state = "SLEEPING" =>
        /\ Inside(p)
        /\ proc[p].chan \in OpenSlots
        /\ proc[p].chan = IF frame[p].fn = "listen" THEN frame[p].local
                          ELSE frame[p].remote

\* A LISTENING socket's owner sleeps on it, so the connect that finds it wakes
\* somebody; and a listen that has been woken returns 0 for a socket that is
\* CONNECTED.
ListenerWaits ==
    /\ \A s \in Slots : sock[s].state = "LISTENING" =>
          LET p == sock[s].owner
          IN  frame[p].fn = "listen" /\ proc[p].state = "SLEEPING"
                /\ frame[p].local = s
    /\ \A p \in Procs :
          frame[p].fn = "listen" =>
             sock[frame[p].local].state =
                IF proc[p].state = "SLEEPING" THEN "LISTENING" ELSE "CONNECTED"

\* No lost wakeup.  A sender asleep has an unread buffer ahead of it; a
\* receiver asleep has no message of its peer in its own buffer.  (A socket
\* that is not the peer may fill that buffer without waking it: see
\* SendReachesPeer.)
NoLostWakeup ==
    \A p \in Procs : proc[p].state = "SLEEPING" =>
        /\ frame[p].fn = "send" => sock[frame[p].remote].hasfullbuffer
        /\ frame[p].fn = "recv" =>
              LET l == frame[p].local
              IN  ~(sock[l].hasfullbuffer /\ hist[l].from = hist[l].peer)

\* The table of sockets is consistent whatever calls, exits and kills have
\* met: its counter, its ports and its owners.
TableConsistent == TypeOK /\ CountExact /\ PortsUnique /\ OwnersAlive

\* Every sleeper in listen, send or recv waits for something that is still to
\* come, on a socket whose next change wakes it.
SleepersAreWoken == NoSleepOnClosed /\ ListenerWaits /\ NoLostWakeup

-----------------------------------------------------------------------------
(* Action property *)

\* listen answers E_ACCESS_DENIED only for a port in use, never because the
\* table is full: that is E_FAIL.
LimitReported ==
    [][\A port \in Ports, p \in Procs :
          listen(p, port) /\ fails(p, "listen", "E_ACCESS_DENIED")
              => getsock(port) # NULL]_vars

-----------------------------------------------------------------------------
(* Liveness *)

\* A process blocked on a peer that closes gets its call back: removesock
\* wakes it, and it returns E_CONNECTION_RESET_BY_REMOTE or, if the port was
\* reused in between, some other result.
PeerCloseReleases ==
    \A p \in Procs :
        (frame[p].fn \in {"send", "recv"} /\ ~Open(frame[p].remote))
            ~> (~Inside(p) \/ panicked)

\* A listener that has been connected to returns from listen.
ConnectedListenerReturns ==
    \A p \in Procs :
        (frame[p].fn = "listen" /\ sock[frame[p].local].state = "CONNECTED")
            ~> (frame[p].fn # "listen" \/ panicked)

\* The calls that sleep return once what they wait for has happened.
BlockedCallsReturn == PeerCloseReleases /\ ConnectedListenerReturns

-----------------------------------------------------------------------------
(* What the documentation says and the code does not do *)

\* README.md: "send() blocks, if remote host has not yet read earlier data".
SendBlocksWhileUnread ==
    [][\A p \in Procs :
          frame[p].fn = "send" /\ frame'[p].fn = "none" /\ ret'.code = "OK"
              => ~sock[frame[p].remote].hasfullbuffer]_vars

\* README.md: send "Sends a buffer to remote host connected to given
\* localPort": what a connected socket holds unread came from its peer.
SendReachesPeer ==
    \A s \in Slots :
        sock[s].state = "CONNECTED" /\ sock[s].hasfullbuffer
            => hist[s].from = hist[s].peer

\* proc.c, of kill: "Process won't exit until it returns to user space": the
\* kernel goes on running.
KillReturns == ~panicked
=============================================================================
