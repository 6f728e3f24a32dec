----------------------------- MODULE SockProofs -----------------------------
(***************************************************************************)
(* Proofs about Sock, for every table size, port range, set of processes   *)
(* and set of messages.                                                    *)
(*                                                                         *)
(* The inductive invariant is the conjunction of the type invariant with   *)
(* the facts that depend on one another: the count is exact because what   *)
(* send and recv remove after a sleep is still open (LocalStaysOwned), and *)
(* that holds because only the owner's own steps close a socket.           *)
(***************************************************************************)
EXTENDS Sock, FiniteSetTheorems, TLAPS

\* The inductive invariant.
IInv ==
    /\ TypeOK
    /\ CountExact
    /\ PortsUnique
    /\ OwnersAlive
    /\ LocalStaysOwned

-----------------------------------------------------------------------------
(* Facts about the helpers *)

\* getsock returns NULL exactly when the port is not in use, and otherwise
\* an open socket at that port.
LEMMA GetsockSpec ==
    ASSUME PortsUnique, TypeOK, NEW port
    PROVE  /\ getsock(port) = NULL \/ (getsock(port) \in Slots
                                         /\ At(getsock(port), port)
                                         /\ port \in Ports)
           /\ (port \in Ports /\ getsock(port) = NULL)
                  => \A s \in Slots : ~At(s, port)
<1>1. CASE port \in Ports /\ \E s \in Slots : At(s, port)
  <2>1. PICK s \in Slots : At(s, port)
    BY <1>1
  <2>2. \A t \in Slots : At(t, port) => t = s
    BY <2>1 DEF PortsUnique, OpenSlots, At
  <2>3. \A t \in Slots : At(t, port) => s <= t
    BY <2>2 DEF Slots
  <2>4. /\ getsock(port) \in Slots
        /\ At(getsock(port), port)
    BY <1>1, <2>1, <2>3 DEF getsock
  <2>5. getsock(port) # NULL
    BY <2>4, NSOCKAssumption DEF Slots, NULL
  <2> QED
    BY <1>1, <2>4, <2>5
<1>2. CASE ~(port \in Ports /\ \E s \in Slots : At(s, port))
  BY <1>2 DEF getsock
<1> QED
  BY <1>1, <1>2

\* strncpy yields a buffer.
LEMMA StrncpyType ==
    ASSUME NEW dst \in [Bytes -> Nat], NEW src \in [Bytes -> Nat], NEW n
    PROVE  strncpy(dst, src, n) \in [Bytes -> Nat]
BY DEF strncpy, NUL

LEMMA EmptyBufferType == EmptyBuffer \in [Bytes -> Nat]
BY DEF EmptyBuffer, NUL

\* A new or reset slot is well typed.
LEMMA SetsockvalueType ==
    ASSUME TypeOK, NEW s \in Slots, NEW sid \in Int, NEW st \in SockStates,
           NEW o \in Procs \cup {NoOwner}, NEW l \in Ports \cup {INV_PORT}
    PROVE  /\ setsockvalue(sock[s], sid, st, o, l) \in SockRec
           /\ setsockvalue(sock[s], sid, st, o, l).state = st
           /\ setsockvalue(sock[s], sid, st, o, l).owner = o
           /\ setsockvalue(sock[s], sid, st, o, l).lPort = l
<1>1. sock[s].recvbuffer \in [Bytes -> Nat]
  BY DEF TypeOK, SockRec
<1>2. strncpy(sock[s].recvbuffer, EmptyBuffer, 1) \in [Bytes -> Nat]
  BY <1>1, StrncpyType, EmptyBufferType
<1> QED
  BY <1>2 DEF setsockvalue, SockRec

\* A reset slot is a well-typed CLOSED slot.
LEMMA ResetsockType ==
    ASSUME TypeOK, NEW s \in Slots
    PROVE  resetsock(s) \in SockRec /\ resetsock(s).state = "CLOSED"
<1>1. sock[s].recvbuffer \in [Bytes -> Nat]
  BY DEF TypeOK, SockRec
<1>2. strncpy(sock[s].recvbuffer, EmptyBuffer, 1) \in [Bytes -> Nat]
  BY <1>1, StrncpyType, EmptyBufferType
<1> QED
  BY <1>2 DEF resetsock, setsockvalue, SockRec, SockStates

\* Waking processes changes nothing but SLEEPING to RUNNABLE.
LEMMA WakeupAllFacts ==
    ASSUME NEW C, NEW ps \in [Procs -> ProcRec]
    PROVE  /\ wakeupAll(ps, C) \in [Procs -> ProcRec]
           /\ \A p \in Procs : wakeupAll(ps, C)[p].state = "UNUSED"
                                   <=> ps[p].state = "UNUSED"
BY DEF wakeupAll, ProcRec

\* The set of open slots is finite, and its size is at most NSOCK.
LEMMA OpenSlotsFinite ==
    /\ IsFiniteSet(OpenSlots)
    /\ Cardinality(OpenSlots) \in 0 .. NSOCK
<1>1. IsFiniteSet(Slots) /\ Cardinality(Slots) = NSOCK
  BY FS_Interval, NSOCKAssumption DEF Slots
<1>2. OpenSlots \subseteq Slots
  BY DEF OpenSlots
<1>3. IsFiniteSet(OpenSlots) /\ Cardinality(OpenSlots) <= NSOCK
  BY <1>1, <1>2, FS_Subset
<1>4. Cardinality(OpenSlots) \in Nat
  BY <1>3, FS_CardinalityType
<1> QED
  BY <1>3, <1>4, NSOCKAssumption

\* What a step that opens slot s and no other does to the count.
LEMMA OpenOne ==
    ASSUME CountExact, NEW s \in Slots, ~Open(s),
           \A t \in Slots : Open(t)' <=> (t = s \/ Open(t)),
           countSock' = countSock + 1
    PROVE  /\ CountExact'
           /\ countSock' \in 0 .. NSOCK
<1>1. OpenSlots' = OpenSlots \cup {s}
  BY DEF OpenSlots
<1>2. s \notin OpenSlots
  BY DEF OpenSlots
<1>3. Cardinality(OpenSlots') = Cardinality(OpenSlots) + 1
  BY <1>1, <1>2, OpenSlotsFinite, FS_AddElement
<1>4. CountExact'
  BY <1>3 DEF CountExact
<1>5. (Cardinality(OpenSlots) \in 0 .. NSOCK)'
  BY OpenSlotsFinite, PTL
<1> QED
  BY <1>4, <1>5 DEF CountExact

\* What a step that closes the open slots R does to the count.
LEMMA CloseSome ==
    ASSUME CountExact, NEW R, R \subseteq OpenSlots,
           \A t \in Slots : Open(t)' <=> (Open(t) /\ t \notin R),
           countSock' = countSock - Cardinality(R)
    PROVE  /\ CountExact'
           /\ countSock' \in 0 .. NSOCK
<1>1. OpenSlots' = OpenSlots \ R
  BY DEF OpenSlots
<1>2. OpenSlots \cap R = R
  OBVIOUS
<1>3. Cardinality(OpenSlots') = Cardinality(OpenSlots) - Cardinality(R)
  BY <1>1, <1>2, OpenSlotsFinite, FS_Difference
<1>4. CountExact'
  BY <1>3 DEF CountExact
<1>5. (Cardinality(OpenSlots) \in 0 .. NSOCK)'
  BY OpenSlotsFinite, PTL
<1> QED
  BY <1>4, <1>5 DEF CountExact

\* What a step that opens and closes nothing does to the count.
LEMMA OpenNone ==
    ASSUME CountExact, TypeOK, \A t \in Slots : Open(t)' <=> Open(t),
           countSock' = countSock
    PROVE  /\ CountExact'
           /\ countSock' \in 0 .. NSOCK
<1>1. OpenSlots' = OpenSlots
  BY DEF OpenSlots
<1> QED
  BY <1>1 DEF CountExact, TypeOK

-----------------------------------------------------------------------------
(* Preservation, one lemma per kind of step *)

\* An error return preserves the invariant.
LEMMA FailsStep ==
    ASSUME IInv, NEW p \in Procs, NEW fn \in Calls, NEW code \in Codes,
           fails(p, fn, code)
    PROVE  IInv'
<1> USE DEF IInv
<1>1. /\ UNCHANGED <<sock, countSock, nextsid, proc, panicked, hist>>
      /\ ret' = [proc |-> p, fn |-> fn, code |-> code, data |-> EmptyBuffer]
      /\ frame' = [frame EXCEPT ![p] = NoFrame]
  BY DEF fails, retsockfunc
<1>2. NoFrame \in FrameRec /\ NoFrame.fn = "none"
  BY EmptyBufferType DEF NoFrame, FrameRec
<1>3. TypeOK'
  BY <1>1, <1>2, EmptyBufferType DEF TypeOK, RetRec
<1>4. CountExact' /\ PortsUnique' /\ OwnersAlive'
  BY <1>1 DEF CountExact, PortsUnique, OwnersAlive, OpenSlots, Open
<1>5. LocalStaysOwned'
  BY <1>1, <1>2 DEF LocalStaysOwned, Inside, OpenSlots, Open, TypeOK
<1> QED
  BY <1>3, <1>4, <1>5

\* Removing sockets of a process in one of its own steps preserves the
\* invariant, provided the process is inside no call afterwards, and no
\* process disappears unless all its sockets do.
LEMMA RemoveStep ==
    ASSUME IInv, NEW p \in Procs, NEW ps \in [Procs -> ProcRec],
           NEW R, R \subseteq procsocks(p), removesock(R, ps),
           \A q \in Procs : ps[q].state = "UNUSED" =>
               proc[q].state = "UNUSED" \/ (q = p /\ R = procsocks(p)),
           frame' \in [Procs -> FrameRec],
           frame'[p].fn = "none",
           \A q \in Procs : q # p => frame'[q] = frame[q],
           ret' \in RetRec,
           UNCHANGED <<nextsid, panicked, hist>>
    PROVE  IInv'
<1> USE DEF IInv
<1>1. R \subseteq OpenSlots /\ \A s \in R : sock[s].owner = p
  BY DEF procsocks, OpenSlots
<1>2. /\ proc' = wakeupAll(ps, R)
      /\ sock' = [s \in Slots |-> IF s \in R THEN resetsock(s) ELSE sock[s]]
      /\ countSock' = countSock - Cardinality(R)
  BY DEF removesock
<1>3. \A s \in Slots : resetsock(s) \in SockRec
                       /\ resetsock(s).state = "CLOSED"
  BY ResetsockType
<1>4. sock' \in [Slots -> SockRec]
  BY <1>2, <1>3 DEF TypeOK
<1>5. \A t \in Slots : /\ Open(t)' <=> (Open(t) /\ t \notin R)
                       /\ Open(t)' => sock'[t] = sock[t]
  BY <1>2, <1>3 DEF Open
<1>6. CountExact' /\ countSock' \in 0 .. NSOCK
  BY <1>1, <1>2, <1>5, CloseSome
<1>7. /\ proc' \in [Procs -> ProcRec]
      /\ \A q \in Procs : proc'[q].state = "UNUSED" <=> ps[q].state = "UNUSED"
  BY <1>2, WakeupAllFacts
<1>8. TypeOK'
  BY <1>4, <1>6, <1>7 DEF TypeOK
<1>9. PortsUnique'
  BY <1>5 DEF PortsUnique, OpenSlots
<1>10. OwnersAlive'
  <2> SUFFICES ASSUME NEW s \in Slots, Open(s)'
               PROVE  /\ sock'[s].lPort \in Ports
                      /\ sock'[s].owner \in Procs
                      /\ proc'[sock'[s].owner].state # "UNUSED"
    BY DEF OwnersAlive, OpenSlots
  <2>1. Open(s) /\ s \notin R /\ sock'[s] = sock[s]
    BY <1>5
  <2>2. /\ sock[s].lPort \in Ports
        /\ sock[s].owner \in Procs
        /\ proc[sock[s].owner].state # "UNUSED"
    BY <2>1 DEF OwnersAlive, OpenSlots
  <2>3. sock[s].owner = p => R # procsocks(p)
    BY <2>1 DEF procsocks
  <2> QED
    BY <2>1, <2>2, <2>3, <1>7
<1>11. LocalStaysOwned'
  <2> SUFFICES ASSUME NEW q \in Procs, Inside(q)'
               PROVE  /\ frame'[q].local \in OpenSlots'
                      /\ sock'[frame'[q].local].owner = q
                      /\ frame'[q].fn # "listen"
                            => sock'[frame'[q].local].state = "CONNECTED"
    BY DEF LocalStaysOwned
  <2>1. q # p /\ frame'[q] = frame[q]
    BY DEF Inside
  <2>2. Inside(q)
    BY <2>1 DEF Inside
  <2>3. PICK l \in Slots :
              /\ l = frame[q].local
              /\ Open(l)
              /\ sock[l].owner = q
              /\ frame[q].fn # "listen" => sock[l].state = "CONNECTED"
    BY <2>2 DEF LocalStaysOwned, OpenSlots
  <2>4. l \notin R
    BY <2>1, <2>3, <1>1
  <2>5. l \in OpenSlots' /\ sock'[l] = sock[l]
    BY <2>3, <2>4, <1>5 DEF OpenSlots
  <2> QED
    BY <2>1, <2>3, <2>5
<1> QED
  BY <1>6, <1>8, <1>9, <1>10, <1>11

\* A step that changes no socket's state, owner or port preserves the
\* invariant, if the one process whose frame it changes is afterwards inside
\* no call or inside a call on a CONNECTED socket of its own.
LEMMA QuietStep ==
    ASSUME IInv, NEW p \in Procs,
           sock' \in [Slots -> SockRec],
           \A s \in Slots : /\ sock'[s].state = sock[s].state
                            /\ sock'[s].owner = sock[s].owner
                            /\ sock'[s].lPort = sock[s].lPort,
           countSock' = countSock, nextsid' = nextsid,
           proc' \in [Procs -> ProcRec],
           \A q \in Procs : proc'[q].state = "UNUSED"
                               => proc[q].state = "UNUSED",
           frame' \in [Procs -> FrameRec],
           \A q \in Procs : q # p => frame'[q] = frame[q],
           \/ frame'[p].fn \in {"none", "trap"}
           \/ /\ frame'[p].local \in Slots
              /\ sock[frame'[p].local].owner = p
              /\ sock[frame'[p].local].state = "CONNECTED",
           ret' \in RetRec, panicked' \in BOOLEAN,
           hist' \in [Slots -> [peer : Int, from : Int]]
    PROVE  IInv'
<1> USE DEF IInv
<1>1. \A t \in Slots : Open(t)' <=> Open(t)
  BY DEF Open
<1>2. OpenSlots' = OpenSlots
  BY <1>1 DEF OpenSlots
<1>3. CountExact' /\ countSock' \in 0 .. NSOCK
  BY <1>1, OpenNone
<1>4. TypeOK'
  BY <1>3 DEF TypeOK
<1>5. PortsUnique'
  BY <1>2 DEF PortsUnique, OpenSlots
<1>6. OwnersAlive'
  <2> SUFFICES ASSUME NEW s \in OpenSlots
               PROVE  /\ sock'[s].lPort \in Ports
                      /\ sock'[s].owner \in Procs
                      /\ proc'[sock'[s].owner].state # "UNUSED"
    BY <1>2 DEF OwnersAlive
  <2>1. /\ sock[s].lPort \in Ports
        /\ sock[s].owner \in Procs
        /\ proc[sock[s].owner].state # "UNUSED"
    BY DEF OwnersAlive
  <2> QED
    BY <2>1 DEF OpenSlots
<1>7. LocalStaysOwned'
  <2> SUFFICES ASSUME NEW q \in Procs, Inside(q)'
               PROVE  /\ frame'[q].local \in OpenSlots
                      /\ sock'[frame'[q].local].owner = q
                      /\ frame'[q].fn # "listen"
                            => sock'[frame'[q].local].state = "CONNECTED"
    BY <1>2 DEF LocalStaysOwned
  <2>1. CASE q = p
    BY <2>1 DEF Inside, OpenSlots, Open
  <2>2. CASE q # p
    BY <2>2 DEF Inside, LocalStaysOwned, OpenSlots
  <2> QED
    BY <2>1, <2>2
<1> QED
  BY <1>3, <1>4, <1>5, <1>6, <1>7

\* A step of process p that opens slot s on a free port, and otherwise changes
\* of the sockets at most the state of one open slot to CONNECTED, preserves
\* the invariant.
LEMMA OpenStep ==
    ASSUME IInv, NEW p \in Procs, NEW s \in Slots, NEW lport \in Ports,
           ~Open(s), \A t \in Slots : ~At(t, lport),
           proc[p].state # "UNUSED",
           sock' \in [Slots -> SockRec],
           sock'[s].state # "CLOSED",
           sock'[s].owner = p, sock'[s].lPort = lport,
           \A t \in Slots : t # s =>
               /\ sock'[t].owner = sock[t].owner
               /\ sock'[t].lPort = sock[t].lPort
               /\ \/ sock'[t].state = sock[t].state
                  \/ Open(t) /\ sock'[t].state = "CONNECTED",
           countSock' = countSock + 1, nextsid' = nextsid + 1,
           proc' \in [Procs -> ProcRec],
           \A q \in Procs : proc'[q].state = "UNUSED"
                               => proc[q].state = "UNUSED",
           frame' \in [Procs -> FrameRec],
           \A q \in Procs : q # p => frame'[q] = frame[q],
           \/ frame'[p].fn = "none"
           \/ frame'[p].fn = "listen" /\ frame'[p].local = s,
           ret' \in RetRec, panicked' = panicked,
           hist' \in [Slots -> [peer : Int, from : Int]]
    PROVE  IInv'
<1> USE DEF IInv
<1>1. \A t \in Slots : Open(t)' <=> (t = s \/ Open(t))
  BY DEF Open
<1>2. OpenSlots' = OpenSlots \cup {s}
  BY <1>1 DEF OpenSlots
<1>3. CountExact' /\ countSock' \in 0 .. NSOCK
  BY <1>1, OpenOne
<1>4. TypeOK'
  BY <1>3 DEF TypeOK
<1>5. PortsUnique'
  <2> SUFFICES ASSUME NEW t \in OpenSlots', NEW u \in OpenSlots',
                      sock'[t].lPort = sock'[u].lPort
               PROVE  t = u
    BY DEF PortsUnique
  <2>1. \A v \in OpenSlots : v # s /\ sock[v].lPort # lport
    BY DEF At, OpenSlots
  <2>2. \A v \in OpenSlots : sock'[v].lPort = sock[v].lPort
    BY <2>1 DEF OpenSlots
  <2> QED
    BY <1>2, <2>1, <2>2 DEF PortsUnique
<1>6. OwnersAlive'
  <2> SUFFICES ASSUME NEW t \in OpenSlots'
               PROVE  /\ sock'[t].lPort \in Ports
                      /\ sock'[t].owner \in Procs
                      /\ proc'[sock'[t].owner].state # "UNUSED"
    BY DEF OwnersAlive
  <2>1. CASE t = s
    BY <2>1
  <2>2. CASE t # s
    <3>1. t \in OpenSlots
      BY <2>2, <1>2
    <3>2. /\ sock[t].lPort \in Ports
          /\ sock[t].owner \in Procs
          /\ proc[sock[t].owner].state # "UNUSED"
      BY <3>1 DEF OwnersAlive
    <3> QED
      BY <3>1, <3>2, <2>2 DEF OpenSlots
  <2> QED
    BY <2>1, <2>2
<1>7. LocalStaysOwned'
  <2> SUFFICES ASSUME NEW q \in Procs, Inside(q)'
               PROVE  /\ frame'[q].local \in OpenSlots'
                      /\ sock'[frame'[q].local].owner = q
                      /\ frame'[q].fn # "listen"
                            => sock'[frame'[q].local].state = "CONNECTED"
    BY DEF LocalStaysOwned
  <2>1. CASE q = p
    BY <2>1, <1>2 DEF Inside
  <2>2. CASE q # p
    <3>1. /\ frame'[q] = frame[q]
          /\ frame[q].local \in OpenSlots
          /\ sock[frame[q].local].owner = q
          /\ frame[q].fn # "listen" => sock[frame[q].local].state = "CONNECTED"
      BY <2>2 DEF Inside, LocalStaysOwned
    <3>2. frame[q].local # s
      BY <3>1 DEF OpenSlots
    <3> QED
      BY <3>1, <3>2, <1>2 DEF OpenSlots
  <2> QED
    BY <2>1, <2>2
<1> QED
  BY <1>3, <1>4, <1>5, <1>6, <1>7

\* What a return writes is well typed.
LEMMA ReturnType ==
    ASSUME TypeOK, NEW p \in Procs, NEW fn \in Calls, NEW code \in Codes,
           NEW data \in [Bytes -> Nat], retsockfunc(p, fn, code, data)
    PROVE  /\ ret' \in RetRec
           /\ frame' \in [Procs -> FrameRec]
           /\ frame'[p].fn = "none"
           /\ \A q \in Procs : q # p => frame'[q] = frame[q]
<1>1. NoFrame \in FrameRec /\ NoFrame.fn = "none"
  BY EmptyBufferType DEF NoFrame, FrameRec
<1> QED
  BY <1>1 DEF retsockfunc, RetRec, TypeOK

\* listen preserves the invariant.
LEMMA ListenStep ==
    ASSUME IInv, NEW p \in Procs, NEW lport \in ArgPorts, listen(p, lport)
    PROVE  IInv'
<1> USE DEF IInv
<1>1. CASE \E code \in Codes : fails(p, "listen", code)
  BY <1>1, FailsStep DEF Calls
<1>2. ASSUME NEW s \in Slots,
             allocsockPicks(s, lport),
             sock' = [sock EXCEPT ![s] =
                      setsockvalue(@, nextsid, "LISTENING", p, lport)],
             proc' = sleep(p, s),
             blocks(p, "listen", s, NULL, EmptyBuffer, 0),
             hist' = [hist EXCEPT ![s] = [peer |-> -1, from |-> -1]],
             countSock' = countSock + 1,
             nextsid' = nextsid + 1,
             UNCHANGED <<ret, panicked>>
      PROVE  IInv'
  <2>1. lport \in Ports /\ ~Open(s) /\ \A t \in Slots : ~At(t, lport)
    BY <1>2, GetsockSpec DEF allocsockPicks
  <2>2. /\ nextsid \in Int
        /\ "LISTENING" \in SockStates
        /\ p \in Procs \cup {NoOwner}
        /\ lport \in Ports \cup {INV_PORT}
    BY <2>1 DEF TypeOK, SockStates
  <2> DEFINE new == setsockvalue(sock[s], nextsid, "LISTENING", p, lport)
  <2>3. /\ new \in SockRec
        /\ new.state = "LISTENING"
        /\ new.owner = p
        /\ new.lPort = lport
    BY <2>2, SetsockvalueType
  <2>4. sock' = [sock EXCEPT ![s] = new]
    BY <1>2
  <2> HIDE DEF new
  <2>5. /\ sock' \in [Slots -> SockRec]
        /\ sock'[s] = new
        /\ \A t \in Slots : t # s => sock'[t] = sock[t]
    BY <2>3, <2>4 DEF TypeOK
  <2>6. proc[p].state = "RUNNABLE"
    BY DEF listen, CanCall
  <2>7. /\ proc' \in [Procs -> ProcRec]
        /\ \A q \in Procs : proc'[q].state = "UNUSED"
                               => proc[q].state = "UNUSED"
    BY <1>2 DEF sleep, TypeOK, ProcRec
  <2>8. /\ frame' \in [Procs -> FrameRec]
        /\ frame'[p].fn = "listen" /\ frame'[p].local = s
        /\ \A q \in Procs : q # p => frame'[q] = frame[q]
    BY <1>2, EmptyBufferType DEF blocks, TypeOK, FrameRec
  <2>9. hist' \in [Slots -> [peer : Int, from : Int]]
    BY <1>2 DEF TypeOK
  <2>10. ret' \in RetRec /\ panicked' = panicked
    BY <1>2 DEF TypeOK
  <2> QED
    BY <1>2, <2>1, <2>3, <2>5, <2>6, <2>7, <2>8, <2>9, <2>10, OpenStep
<1> QED
  BY <1>1, <1>2 DEF listen, Codes

\* A listener's return preserves the invariant.
LEMMA ListenWakeStep ==
    ASSUME IInv, NEW p \in Procs, listenWake(p)
    PROVE  IInv'
<1> USE DEF IInv
<1>1. /\ ret' \in RetRec
      /\ frame' \in [Procs -> FrameRec]
      /\ frame'[p].fn = "none"
      /\ \A q \in Procs : q # p => frame'[q] = frame[q]
  BY ReturnType, EmptyBufferType DEF listenWake, Calls, Codes
<1>2. /\ proc' \in [Procs -> ProcRec]
      /\ \A q \in Procs : proc'[q].state = "UNUSED" => proc[q].state = "UNUSED"
  BY DEF listenWake, tidied, TypeOK, ProcRec
<1>3. UNCHANGED <<sock, countSock, nextsid, panicked, hist>>
  BY DEF listenWake
<1> QED
  BY <1>1, <1>2, <1>3, QuietStep DEF TypeOK

\* connect preserves the invariant.
LEMMA ConnectStep ==
    ASSUME IInv, NEW p \in Procs, NEW rport \in ArgPorts,
           NEW localhost \in BOOLEAN, connect(p, rport, localhost)
    PROVE  IInv'
<1> USE DEF IInv
<1>1. CASE fails(p, "connect", connectError(rport, localhost))
  <2>1. connectError(rport, localhost) \in Codes
    BY DEF connectError, Codes
  <2> QED
    BY <1>1, <2>1, FailsStep DEF Calls
<1>2. ASSUME connectError(rport, localhost) = "OK",
             NEW lport \in Ports, NEW local \in Slots,
             allocsockPicks(local, lport),
             connectJoin(p, local, getsock(rport), lport),
             countSock' = countSock + 1,
             nextsid' = nextsid + 1,
             retsockfunc(p, "connect", "OK", EmptyBuffer),
             panicked' = panicked
      PROVE  IInv'
  <2> DEFINE remote == getsock(rport)
  <2>1. ~Open(local) /\ \A t \in Slots : ~At(t, lport)
    BY <1>2, GetsockSpec DEF allocsockPicks
  <2>2. remote # NULL /\ sock[remote].state = "LISTENING"
    BY <1>2 DEF connectError
  <2>3. remote \in Slots /\ Open(remote) /\ remote # local
    BY <2>1, <2>2, GetsockSpec DEF At
  <2> HIDE DEF remote
  <2>4. /\ nextsid \in Int
        /\ "CONNECTED" \in SockStates
        /\ p \in Procs \cup {NoOwner}
        /\ lport \in Ports \cup {INV_PORT}
    BY DEF TypeOK, SockStates
  <2> DEFINE new == setsockvalue(sock[local], nextsid, "CONNECTED", p, lport)
             newLocal == [new EXCEPT !.rPort = sock[remote].lPort]
             newRemote == [sock[remote] EXCEPT
                             !.state = "CONNECTED", !.rPort = lport,
                             !.hasfullbuffer = FALSE]
  <2>5. /\ new \in SockRec
        /\ new.state = "CONNECTED"
        /\ new.owner = p
        /\ new.lPort = lport
    BY <2>4, SetsockvalueType
  <2>6. /\ sock' = [sock EXCEPT
              ![local] = newLocal,
              ![remote] = newRemote]
        /\ proc' = wakeupAll(proc, {remote})
        /\ hist' = [hist EXCEPT
              ![local] = [peer |-> sock[remote].sid, from |-> -1],
              ![remote] = [peer |-> nextsid, from |-> -1]]
    BY <1>2 DEF connectJoin, remote
  <2> HIDE DEF new
  <2>7. sock[remote].sid \in Int /\ sock[remote].lPort \in Ports \cup {INV_PORT}
    BY <2>3 DEF TypeOK, SockRec
  <2>8. /\ newLocal \in SockRec
        /\ newLocal.state = "CONNECTED"
        /\ newLocal.owner = p
        /\ newLocal.lPort = lport
    BY <2>5, <2>7 DEF SockRec
  <2>9. /\ newRemote \in SockRec
        /\ newRemote.state = "CONNECTED"
        /\ newRemote.owner = sock[remote].owner
        /\ newRemote.lPort = sock[remote].lPort
    BY <2>3, <2>4 DEF TypeOK, SockRec
  <2> HIDE DEF newLocal, newRemote
  <2>10. /\ sock' \in [Slots -> SockRec]
         /\ sock'[local] = newLocal
         /\ sock'[remote] = newRemote
         /\ \A t \in Slots : t # local /\ t # remote => sock'[t] = sock[t]
    BY <2>3, <2>6, <2>8, <2>9 DEF TypeOK
  <2>11. \A t \in Slots : t # local =>
               /\ sock'[t].owner = sock[t].owner
               /\ sock'[t].lPort = sock[t].lPort
               /\ \/ sock'[t].state = sock[t].state
                  \/ Open(t) /\ sock'[t].state = "CONNECTED"
    BY <2>3, <2>9, <2>10
  <2>12. proc[p].state = "RUNNABLE"
    BY DEF connect, CanCall
  <2>13. /\ proc' \in [Procs -> ProcRec]
         /\ \A q \in Procs : proc'[q].state = "UNUSED"
                               => proc[q].state = "UNUSED"
    BY <2>6, WakeupAllFacts DEF TypeOK
  <2>14. /\ ret' \in RetRec
         /\ frame' \in [Procs -> FrameRec]
         /\ frame'[p].fn = "none"
         /\ \A q \in Procs : q # p => frame'[q] = frame[q]
    BY <1>2, ReturnType, EmptyBufferType DEF Calls, Codes
  <2>15. hist' \in [Slots -> [peer : Int, from : Int]]
    <3>1. /\ [peer |-> sock[remote].sid, from |-> -1] \in [peer : Int, from : Int]
          /\ [peer |-> nextsid, from |-> -1] \in [peer : Int, from : Int]
      BY <2>4, <2>7
    <3> QED
      BY <2>6, <3>1 DEF TypeOK
  <2> QED
    BY <1>2, <2>1, <2>8, <2>12, <2>13, <2>14, <2>15, <2>10, <2>11, OpenStep
<1> QED
  BY <1>1, <1>2 DEF connect

\* The checks send and recv make leave a CONNECTED socket of the caller and an
\* open remote one.
LEMMA TransferChecked ==
    ASSUME IInv, NEW p \in Procs, NEW lport, transferError(p, lport) = "OK"
    PROVE  LET local == getsock(lport)
               remote == getsock(sock[local].rPort)
           IN  /\ local \in Slots
               /\ sock[local].owner = p
               /\ sock[local].state = "CONNECTED"
               /\ remote \in Slots
<1> DEFINE local == getsock(lport)
           remote == getsock(sock[local].rPort)
<1>1. /\ local # NULL
      /\ sock[local].owner = p
      /\ sock[local].state = "CONNECTED"
      /\ remote # NULL
  BY DEF transferError
<1>2. local \in Slots /\ remote \in Slots
  BY <1>1, GetsockSpec DEF IInv
<1> QED
  BY <1>1, <1>2

\* The part of send after its sleep preserves the invariant.
LEMMA SendFinishStep ==
    ASSUME IInv, NEW p \in Procs, NEW ps \in [Procs -> ProcRec],
           \A q \in Procs : ps[q].state = proc[q].state,
           NEW local \in Slots, sock[local].owner = p,
           sock[local].state = "CONNECTED",
           NEW remote \in Slots \cup {NULL},
           NEW data \in [Bytes -> Nat], NEW n,
           sendFinish(p, ps, local, remote, data, n)
    PROVE  IInv'
<1> USE DEF IInv
<1>1. CASE /\ removesock({local}, ps)
           /\ retsockfunc(p, "send", "E_CONNECTION_RESET_BY_REMOTE",
                          EmptyBuffer)
           /\ UNCHANGED <<nextsid, panicked, hist>>
  <2>1. {local} \subseteq procsocks(p)
    BY DEF procsocks, Open
  <2>2. /\ ret' \in RetRec
        /\ frame' \in [Procs -> FrameRec]
        /\ frame'[p].fn = "none"
        /\ \A q \in Procs : q # p => frame'[q] = frame[q]
    BY <1>1, ReturnType, EmptyBufferType DEF Calls, Codes
  <2> QED
    BY <1>1, <2>1, <2>2, RemoveStep
<1>2. CASE /\ sock' = [sock EXCEPT ![remote] = written(remote, data, n)]
           /\ proc' = wakeupAll(ps, {local})
           /\ hist' = [hist EXCEPT ![remote].from = sock[local].sid]
           /\ retsockfunc(p, "send", "OK", EmptyBuffer)
           /\ UNCHANGED <<countSock, nextsid, panicked>>
  <2>1. \A s \in Slots :
            strncpy(sock[s].recvbuffer, data, n) \in [Bytes -> Nat]
    BY StrncpyType DEF TypeOK, SockRec
  <2>6. ASSUME NEW s \in Slots
        PROVE  /\ written(s, data, n) \in SockRec
               /\ written(s, data, n).state = sock[s].state
               /\ written(s, data, n).owner = sock[s].owner
               /\ written(s, data, n).lPort = sock[s].lPort
    BY <2>1 DEF TypeOK, SockRec, written
  <2>2. /\ sock' \in [Slots -> SockRec]
        /\ \A s \in Slots : /\ sock'[s].state = sock[s].state
                            /\ sock'[s].owner = sock[s].owner
                            /\ sock'[s].lPort = sock[s].lPort
    BY <1>2, <2>6 DEF TypeOK
  <2>3. /\ proc' \in [Procs -> ProcRec]
        /\ \A q \in Procs : proc'[q].state = "UNUSED"
                               => proc[q].state = "UNUSED"
    BY <1>2, WakeupAllFacts
  <2>4. hist' \in [Slots -> [peer : Int, from : Int]]
    BY <1>2 DEF TypeOK, SockRec
  <2>5. /\ ret' \in RetRec
        /\ frame' \in [Procs -> FrameRec]
        /\ frame'[p].fn = "none"
        /\ \A q \in Procs : q # p => frame'[q] = frame[q]
    BY <1>2, ReturnType, EmptyBufferType DEF Calls, Codes
  <2> QED
    BY <1>2, <2>2, <2>3, <2>4, <2>5, QuietStep DEF TypeOK
<1> QED
  BY <1>1, <1>2 DEF sendFinish

\* The part of recv after its sleep preserves the invariant.
LEMMA RecvFinishStep ==
    ASSUME IInv, NEW p \in Procs, NEW ps \in [Procs -> ProcRec],
           \A q \in Procs : ps[q].state = proc[q].state,
           NEW local \in Slots, sock[local].owner = p,
           sock[local].state = "CONNECTED", NEW n,
           recvFinish(p, ps, local, n)
    PROVE  IInv'
<1> USE DEF IInv
<1>1. handedOver(local, n) \in [Bytes -> Nat]
  BY StrncpyType, EmptyBufferType DEF TypeOK, SockRec, handedOver
<1>2. CASE /\ removesock({local}, wakeupAll(ps, {local}))
           /\ retsockfunc(p, "recv", "E_CONNECTION_RESET_BY_REMOTE",
                          handedOver(local, n))
           /\ UNCHANGED <<nextsid, panicked, hist>>
  <2>1. {local} \subseteq procsocks(p)
    BY DEF procsocks, Open
  <2>2. /\ ret' \in RetRec
        /\ frame' \in [Procs -> FrameRec]
        /\ frame'[p].fn = "none"
        /\ \A q \in Procs : q # p => frame'[q] = frame[q]
    BY <1>1, <1>2, ReturnType DEF Calls, Codes
  <2> DEFINE woken == wakeupAll(ps, {local})
  <2>3. /\ woken \in [Procs -> ProcRec]
        /\ \A q \in Procs : woken[q].state = "UNUSED"
                               => proc[q].state = "UNUSED"
    BY WakeupAllFacts
  <2>4. removesock({local}, woken)
    BY <1>2
  <2> HIDE DEF woken
  <2> QED
    BY <1>2, <2>1, <2>2, <2>3, <2>4, RemoveStep
<1>3. CASE /\ sock' = [sock EXCEPT ![local] = emptied(local)]
           /\ proc' = wakeupAll(ps, {local})
           /\ retsockfunc(p, "recv", "OK", handedOver(local, n))
           /\ UNCHANGED <<countSock, nextsid, panicked, hist>>
  <2>1. /\ emptied(local) \in SockRec
        /\ emptied(local).state = sock[local].state
        /\ emptied(local).owner = sock[local].owner
        /\ emptied(local).lPort = sock[local].lPort
    BY DEF TypeOK, SockRec, NUL, emptied
  <2>2. /\ sock' \in [Slots -> SockRec]
        /\ \A s \in Slots : /\ sock'[s].state = sock[s].state
                            /\ sock'[s].owner = sock[s].owner
                            /\ sock'[s].lPort = sock[s].lPort
    BY <1>3, <2>1 DEF TypeOK
  <2>3. /\ proc' \in [Procs -> ProcRec]
        /\ \A q \in Procs : proc'[q].state = "UNUSED"
                               => proc[q].state = "UNUSED"
    BY <1>3, WakeupAllFacts
  <2>4. /\ ret' \in RetRec
        /\ frame' \in [Procs -> FrameRec]
        /\ frame'[p].fn = "none"
        /\ \A q \in Procs : q # p => frame'[q] = frame[q]
    BY <1>1, <1>3, ReturnType DEF Calls, Codes
  <2> QED
    BY <1>3, <2>2, <2>3, <2>4, QuietStep DEF TypeOK
<1> QED
  BY <1>2, <1>3 DEF recvFinish

\* A process that goes to sleep in send or recv preserves the invariant.
LEMMA BlockStep ==
    ASSUME IInv, NEW p \in Procs, proc[p].state = "RUNNABLE",
           NEW fn \in {"send", "recv"},
           NEW local \in Slots, sock[local].owner = p,
           sock[local].state = "CONNECTED", NEW remote \in Slots,
           NEW data \in [Bytes -> Nat], NEW n \in Int,
           proc' = sleep(p, remote),
           blocks(p, fn, local, remote, data, n),
           UNCHANGED <<sock, countSock, nextsid, ret, panicked, hist>>
    PROVE  IInv'
<1> USE DEF IInv
<1>1. /\ proc' \in [Procs -> ProcRec]
      /\ \A q \in Procs : proc'[q].state = "UNUSED" => proc[q].state = "UNUSED"
  BY DEF sleep, TypeOK, ProcRec
<1>2. /\ frame' \in [Procs -> FrameRec]
      /\ frame'[p].local = local
      /\ \A q \in Procs : q # p => frame'[q] = frame[q]
  BY DEF blocks, TypeOK, FrameRec
<1> QED
  BY <1>1, <1>2, QuietStep DEF TypeOK

\* send preserves the invariant.
LEMMA SendStep ==
    ASSUME IInv, NEW p \in Procs, NEW lport \in ArgPorts, NEW m \in Messages,
           send(p, lport, m)
    PROVE  IInv'
<1> DEFINE local == getsock(lport)
           remote == getsock(sock[local].rPort)
           n == sys_send_n(lport)
<1>1. proc[p].state = "RUNNABLE"
  BY DEF send, CanCall
<1>2. m \in [Bytes -> Nat] /\ n \in Int
  BY MessagesAssumption, NPORTAssumption DEF sys_send_n, ArgPorts
<1>3. proc \in [Procs -> ProcRec]
  BY DEF IInv, TypeOK
<1>4. CASE fails(p, "send", transferError(p, lport))
  <2>1. transferError(p, lport) \in Codes
    BY DEF transferError, Codes
  <2> QED
    BY <1>4, <2>1, FailsStep DEF Calls
<1>5. CASE /\ transferError(p, lport) = "OK"
           /\ sendFinish(p, proc, local, remote, m, n)
  <2>1. /\ local \in Slots
        /\ sock[local].owner = p
        /\ sock[local].state = "CONNECTED"
        /\ remote \in Slots
    BY <1>5, TransferChecked
  <2> HIDE DEF local, remote, n
  <2> QED
    BY <1>2, <1>3, <1>5, <2>1, SendFinishStep
<1>6. CASE /\ transferError(p, lport) = "OK"
           /\ proc' = sleep(p, remote)
           /\ blocks(p, "send", local, remote, m, n)
           /\ UNCHANGED <<sock, countSock, nextsid, ret, panicked, hist>>
  <2>1. /\ local \in Slots
        /\ sock[local].owner = p
        /\ sock[local].state = "CONNECTED"
        /\ remote \in Slots
    BY <1>6, TransferChecked
  <2> HIDE DEF local, remote, n
  <2> QED
    BY <1>1, <1>2, <1>6, <2>1, BlockStep
<1> QED
  BY <1>4, <1>5, <1>6 DEF send

\* recv preserves the invariant.
LEMMA RecvStep ==
    ASSUME IInv, NEW p \in Procs, NEW lport \in ArgPorts,
           NEW n \in RecvSizes, recv(p, lport, n)
    PROVE  IInv'
<1> DEFINE local == getsock(lport)
           remote == getsock(sock[local].rPort)
<1>1. proc[p].state = "RUNNABLE"
  BY DEF recv, CanCall
<1>2. n \in Int
  BY RecvSizesAssumption, SBUFFSIZEAssumption
<1>3. proc \in [Procs -> ProcRec]
  BY DEF IInv, TypeOK
<1>4. CASE fails(p, "recv", transferError(p, lport))
  <2>1. transferError(p, lport) \in Codes
    BY DEF transferError, Codes
  <2> QED
    BY <1>4, <2>1, FailsStep DEF Calls
<1>5. CASE /\ transferError(p, lport) = "OK"
           /\ recvFinish(p, proc, local, n)
  <2>1. /\ local \in Slots
        /\ sock[local].owner = p
        /\ sock[local].state = "CONNECTED"
    BY <1>5, TransferChecked
  <2> HIDE DEF local
  <2> QED
    BY <1>3, <1>5, <2>1, RecvFinishStep
<1>6. CASE /\ transferError(p, lport) = "OK"
           /\ proc' = sleep(p, remote)
           /\ blocks(p, "recv", local, remote, EmptyBuffer, n)
           /\ UNCHANGED <<sock, countSock, nextsid, ret, panicked, hist>>
  <2>1. /\ local \in Slots
        /\ sock[local].owner = p
        /\ sock[local].state = "CONNECTED"
        /\ remote \in Slots
    BY <1>6, TransferChecked
  <2> HIDE DEF local, remote
  <2> QED
    BY <1>1, <1>2, <1>6, <2>1, EmptyBufferType, BlockStep
<1> QED
  BY <1>4, <1>5, <1>6 DEF recv

\* The woken send and recv preserve the invariant: it is LocalStaysOwned that
\* says their local socket is still there.
LEMMA TransferWakeStep ==
    ASSUME IInv, NEW p \in Procs, sendWake(p) \/ recvWake(p)
    PROVE  IInv'
<1> DEFINE local == frame[p].local
           ps == tidied(p)
<1>1. frame[p].fn \in {"send", "recv"}
  BY DEF sendWake, recvWake, Woken
<1>2. /\ local \in Slots
      /\ sock[local].owner = p
      /\ sock[local].state = "CONNECTED"
  BY <1>1 DEF IInv, LocalStaysOwned, Inside, OpenSlots
<1>3. /\ ps \in [Procs -> ProcRec]
      /\ \A q \in Procs : ps[q].state = proc[q].state
  BY DEF tidied, IInv, TypeOK, ProcRec
<1>4. /\ frame[p].remote \in Slots \cup {NULL}
      /\ frame[p].data \in [Bytes -> Nat]
  BY DEF IInv, TypeOK, FrameRec
<1>5. \/ sendFinish(p, ps, local, frame[p].remote, frame[p].data, frame[p].n)
      \/ recvFinish(p, ps, local, frame[p].n)
  BY DEF sendWake, recvWake
<1> HIDE DEF local, ps
<1> QED
  BY <1>2, <1>3, <1>4, <1>5, SendFinishStep, RecvFinishStep

\* disconnect preserves the invariant.
LEMMA DisconnectStep ==
    ASSUME IInv, NEW p \in Procs, NEW lport \in ArgPorts,
           disconnect(p, lport)
    PROVE  IInv'
<1> DEFINE local == getsock(lport)
<1>1. proc \in [Procs -> ProcRec] /\ TypeOK
  BY DEF IInv, TypeOK
<1>2. CASE fails(p, "disconnect", disconnectError(p, lport))
  <2>1. disconnectError(p, lport) \in Codes
    BY DEF disconnectError, Codes
  <2> QED
    BY <1>2, <2>1, FailsStep DEF Calls
<1>3. CASE /\ disconnectError(p, lport) = "OK"
           /\ removesock({local}, proc)
           /\ retsockfunc(p, "disconnect", "OK", EmptyBuffer)
           /\ UNCHANGED <<nextsid, panicked, hist>>
  <2>1. local # NULL /\ sock[local].owner = p
    BY <1>3 DEF disconnectError
  <2>2. {local} \subseteq procsocks(p)
    BY <2>1, GetsockSpec DEF IInv, procsocks, At
  <2>3. /\ ret' \in RetRec
        /\ frame' \in [Procs -> FrameRec]
        /\ frame'[p].fn = "none"
        /\ \A q \in Procs : q # p => frame'[q] = frame[q]
    BY <1>1, <1>3, ReturnType, EmptyBufferType DEF Calls, Codes
  <2> HIDE DEF local
  <2> QED
    BY <1>1, <1>3, <2>2, <2>3, RemoveStep
<1> QED
  BY <1>2, <1>3 DEF disconnect

\* exit preserves the invariant.
LEMMA ExitStep ==
    ASSUME IInv, NEW p \in Procs, exit(p)
    PROVE  IInv'
<1> DEFINE freed == [proc EXCEPT ![p] = [state |-> "UNUSED", chan |-> NULL,
                                         killed |-> FALSE]]
<1>1. /\ freed \in [Procs -> ProcRec]
      /\ \A q \in Procs : freed[q].state = "UNUSED"
                             => proc[q].state = "UNUSED" \/ q = p
  BY DEF IInv, TypeOK, ProcRec
<1>2. /\ removesock(procsocks(p), freed)
      /\ UNCHANGED <<nextsid, frame, ret, panicked, hist>>
      /\ frame[p].fn = "none"
  BY DEF exit
<1>3. frame' \in [Procs -> FrameRec] /\ ret' \in RetRec
  BY <1>2 DEF IInv, TypeOK
<1> HIDE DEF freed
<1> QED
  BY <1>1, <1>2, <1>3, RemoveStep

\* kill preserves the invariant.
LEMMA KillStep ==
    ASSUME IInv, NEW v \in Procs, kill(v)
    PROVE  IInv'
<1>1. UNCHANGED <<sock, countSock, nextsid, ret, hist>> /\ panicked' \in BOOLEAN
  BY DEF kill, IInv, TypeOK
<1>2. /\ proc' \in [Procs -> ProcRec]
      /\ \A q \in Procs : proc'[q].state = "UNUSED" => proc[q].state = "UNUSED"
  <2> DEFINE new == [proc[v] EXCEPT !.killed = TRUE,
                          !.state = IF proc[v].state = "SLEEPING"
                                    THEN "RUNNABLE" ELSE proc[v].state]
  <2>1. proc[v] \in ProcRec /\ proc \in [Procs -> ProcRec]
    BY DEF IInv, TypeOK
  <2>2. new \in ProcRec /\ (new.state = "UNUSED" => proc[v].state = "UNUSED")
    BY <2>1 DEF ProcRec
  <2>3. proc' = proc \/ proc' = [proc EXCEPT ![v] = new]
    BY DEF kill
  <2> HIDE DEF new
  <2> QED
    BY <2>1, <2>2, <2>3
<1>3. CASE frame' = frame
  <2>1. CASE frame[v].fn \in {"none", "trap"}
    BY <1>1, <1>2, <1>3, <2>1, QuietStep DEF IInv, TypeOK
  <2>2. CASE frame[v].fn \notin {"none", "trap"}
    <3> USE DEF IInv
    <3>1. CountExact' /\ PortsUnique' /\ LocalStaysOwned'
      BY <1>1, <1>3 DEF CountExact, PortsUnique, LocalStaysOwned, OpenSlots,
                        Open, Inside
    <3>2. TypeOK'
      BY <1>1, <1>2, <1>3 DEF TypeOK
    <3>3. OwnersAlive'
      BY <1>1, <1>2 DEF OwnersAlive, OpenSlots, Open
    <3> QED
      BY <3>1, <3>2, <3>3
  <2> QED
    BY <2>1, <2>2
<1>4. CASE frame' = [frame EXCEPT ![v].fn = "trap"]
  <2>1. /\ frame' \in [Procs -> FrameRec]
        /\ frame'[v].fn = "trap"
        /\ \A q \in Procs : q # v => frame'[q] = frame[q]
    BY <1>4 DEF IInv, TypeOK, FrameRec
  <2> QED
    BY <1>1, <1>2, <2>1, QuietStep DEF IInv, TypeOK
<1> QED
  BY <1>3, <1>4 DEF kill

\* fork preserves the invariant.
LEMMA ForkStep ==
    ASSUME IInv, NEW p \in Procs, fork(p)
    PROVE  IInv'
<1> USE DEF IInv
<1>1. /\ UNCHANGED <<sock, countSock, nextsid, frame, ret, panicked, hist>>
      /\ proc' \in [Procs -> ProcRec]
      /\ \A q \in Procs : proc'[q].state = "UNUSED" => proc[q].state = "UNUSED"
  BY DEF fork, TypeOK, ProcRec
<1>2. CountExact' /\ PortsUnique' /\ LocalStaysOwned'
  BY <1>1 DEF CountExact, PortsUnique, LocalStaysOwned, OpenSlots, Open, Inside
<1>3. TypeOK'
  BY <1>1 DEF TypeOK
<1>4. OwnersAlive'
  BY <1>1 DEF OwnersAlive, OpenSlots, Open
<1> QED
  BY <1>2, <1>3, <1>4

-----------------------------------------------------------------------------
(* The theorems *)

\* The boot state satisfies the invariant.
LEMMA InitIInv == Init => IInv
<1> SUFFICES ASSUME Init PROVE IInv
  OBVIOUS
<1>1. OpenSlots = {}
  BY DEF Init, OpenSlots, Open
<1>2. CountExact
  BY <1>1, FS_EmptySet DEF Init, CountExact
<1>3. NoFrame \in FrameRec /\ NoFrame.fn = "none"
  BY EmptyBufferType DEF NoFrame, FrameRec
<1>4. 0 \in Ports /\ 0 \in 0 .. NSOCK
  BY NPORTAssumption, NSOCKAssumption DEF Ports
<1>5. sock \in [Slots -> SockRec]
  BY <1>4, EmptyBufferType DEF Init, SockRec, SockStates
<1>6. proc \in [Procs -> ProcRec]
  BY DEF Init, ProcRec
<1>7. ret \in RetRec
  BY EmptyBufferType DEF Init, RetRec, Codes
<1>8. frame \in [Procs -> FrameRec]
  BY <1>3 DEF Init
<1>9. hist \in [Slots -> [peer : Int, from : Int]]
  BY DEF Init
<1>10. TypeOK
  BY <1>4, <1>5, <1>6, <1>7, <1>8, <1>9 DEF Init, TypeOK
<1>11. PortsUnique /\ OwnersAlive
  BY <1>1 DEF PortsUnique, OwnersAlive
<1>12. LocalStaysOwned
  BY <1>3 DEF Init, LocalStaysOwned, Inside
<1> QED
  BY <1>2, <1>10, <1>11, <1>12 DEF IInv

\* Every step preserves the invariant.
LEMMA NextIInv == IInv /\ [Next]_vars => IInv'
<1> SUFFICES ASSUME IInv, [Next]_vars PROVE IInv'
  OBVIOUS
<1>1. CASE UNCHANGED vars
  BY <1>1 DEF vars, IInv, TypeOK, CountExact, PortsUnique, OwnersAlive,
              LocalStaysOwned, OpenSlots, Open, Inside
<1>2. ASSUME NEW p \in Procs, Call(p)
      PROVE  IInv'
  <2>1. ASSUME NEW fn \in Calls, missingArg(p, fn)
        PROVE  IInv'
    BY <2>1, FailsStep DEF missingArg, Codes
  <2> QED
    BY <1>2, <2>1, ListenStep, DisconnectStep, ConnectStep, SendStep, RecvStep
       DEF Call
<1>3. ASSUME NEW p \in Procs, Wake(p)
      PROVE  IInv'
  BY <1>3, ListenWakeStep, TransferWakeStep DEF Wake
<1> QED
  BY <1>1, <1>2, <1>3, ExitStep, KillStep, ForkStep DEF Next

\* The type invariant, for every instance: in particular countSock stays
\* within the table's size although connect never compares it with NSOCK.
THEOREM TypeCorrect == Spec => []TypeOK
<1>1. IInv => TypeOK
  BY DEF IInv
<1> QED
  BY <1>1, InitIInv, NextIInv, PTL DEF Spec

\* The socket count is exact: removesock, which never looks at what it
\* removes, is never called on a free slot.
THEOREM SockCountExact == Spec => []CountExact
<1>1. IInv => CountExact
  BY DEF IInv
<1> QED
  BY <1>1, InitIInv, NextIInv, PTL DEF Spec

\* No two open sockets share a port.
THEOREM SockPortsUnique == Spec => []PortsUnique
<1>1. IInv => PortsUnique
  BY DEF IInv
<1> QED
  BY <1>1, InitIInv, NextIInv, PTL DEF Spec

\* No socket outlives its process.
THEOREM SockOwnersAlive == Spec => []OwnersAlive
<1>1. IInv => OwnersAlive
  BY DEF IInv
<1> QED
  BY <1>1, InitIInv, NextIInv, PTL DEF Spec

\* The table is consistent in every reachable state, for any numbers of
\* processes, sockets and ports.
THEOREM SockTableConsistent == Spec => []TableConsistent
<1>1. IInv => TableConsistent
  BY DEF IInv, TableConsistent
<1> QED
  BY <1>1, InitIInv, NextIInv, PTL DEF Spec

\* The local socket a sleeping call will use again is still its process's.
THEOREM SockLocalStaysOwned == Spec => []LocalStaysOwned
<1>1. IInv => LocalStaysOwned
  BY DEF IInv
<1> QED
  BY <1>1, InitIInv, NextIInv, PTL DEF Spec

\* listen blames a port in use only when one is: a full table is E_FAIL.
THEOREM SockLimitReported == Spec => LimitReported
<1> DEFINE Blamed == \A port \in Ports, p \in Procs :
                         listen(p, port) /\ fails(p, "listen", "E_ACCESS_DENIED")
                             => getsock(port) # NULL
<1>1. IInv => Blamed
  <2> SUFFICES ASSUME IInv, NEW port \in Ports, NEW p \in Procs,
                      listen(p, port), fails(p, "listen", "E_ACCESS_DENIED")
               PROVE  getsock(port) # NULL
    OBVIOUS
  <2>1. countSock' = countSock
    BY DEF fails
  <2>2. ret'.code = "E_ACCESS_DENIED"
    BY DEF fails, retsockfunc
  <2>3. countSock # NSOCK /\ allocsockFails(port)
    BY <2>1, <2>2 DEF listen, fails, retsockfunc, IInv, TypeOK
  <2>4. ~ \A s \in Slots : Open(s)
    <3> SUFFICES ASSUME \A s \in Slots : Open(s) PROVE FALSE
      OBVIOUS
    <3>1. OpenSlots = 0 .. NSOCK - 1
      BY DEF OpenSlots, Slots
    <3>2. Cardinality(OpenSlots) = NSOCK
      BY <3>1, FS_Interval, NSOCKAssumption
    <3> QED
      BY <3>2, <2>3 DEF IInv, CountExact
  <2> QED
    BY <2>3, <2>4 DEF allocsockFails
<1> QED
  BY <1>1, InitIInv, NextIInv, PTL DEF Spec, LimitReported

-----------------------------------------------------------------------------
(* No lost wakeup *)

\* Socket numbers are handed out once, and a peer's number has been handed out.
SidsFresh ==
    /\ \A s \in OpenSlots : sock[s].sid \in 0 .. nextsid - 1
    /\ \A s, t \in OpenSlots : sock[s].sid = sock[t].sid => s = t
    /\ \A s \in Slots : hist[s].peer < nextsid

\* While the peer connect gave a socket is open, it is the one socket at rPort.
PeersAtPort ==
    \A s, t \in OpenSlots :
        sock[s].state = "CONNECTED" /\ hist[s].peer = sock[t].sid
            => sock[t].lPort = sock[s].rPort

\* A receiver sleeps on the socket at its rPort.
ReceiverAtPort ==
    \A p \in Procs :
        proc[p].state = "SLEEPING" /\ frame[p].fn = "recv"
            => sock[frame[p].remote].lPort = sock[frame[p].local].rPort

\* What SleepersAreWoken needs to be inductive, on top of IInv: the socket a
\* receiver sleeps on is the only one that can send it a message of its peer.
WInv ==
    /\ NoSleepOnClosed
    /\ ListenerWaits
    /\ NoLostWakeup
    /\ SidsFresh
    /\ PeersAtPort
    /\ ReceiverAtPort

\* Sockets keep who they are.
SameSocket(s) ==
    /\ sock'[s].sid = sock[s].sid
    /\ sock'[s].state = sock[s].state
    /\ sock'[s].owner = sock[s].owner
    /\ sock'[s].lPort = sock[s].lPort
    /\ sock'[s].rPort = sock[s].rPort

\* The sleepers that stay asleep are those of the others that are on no
\* channel of C.
OnlyWakes(p, C) ==
    \A q \in Procs :
        /\ proc'[q].state = "SLEEPING" =>
              /\ q # p /\ proc[q].state = "SLEEPING"
              /\ proc'[q].chan = proc[q].chan /\ proc[q].chan \notin C
        /\ q # p /\ proc[q].state = "SLEEPING" /\ proc[q].chan \notin C =>
              proc'[q].state = "SLEEPING"

\* A step of p that puts nobody to sleep, opens no socket, closes the sockets R
\* and wakes the sleepers on C, R among them; C is no listening socket.  It may
\* empty buffers of C only, and fill another with a message of its peer only if
\* that peer is in C.
Calm(p, C, R) ==
    /\ R \subseteq C /\ C \subseteq OpenSlots
    /\ \A s \in C : sock[s].state # "LISTENING"
    /\ OnlyWakes(p, C)
    /\ \A s \in R : sock'[s].state = "CLOSED"
    /\ \A s \in Slots : s \notin R => SameSocket(s)
    /\ \A s \in Slots : hist'[s].peer = hist[s].peer
    /\ nextsid' = nextsid
    /\ ~Inside(p)' /\ \A q \in Procs : q # p => frame'[q] = frame[q]
    /\ \A s \in Slots : s \notin C /\ sock[s].hasfullbuffer
                            => sock'[s].hasfullbuffer
    /\ \A s \in Slots :
           s \notin R /\ sock'[s].hasfullbuffer
               /\ hist'[s].from = hist'[s].peer =>
               \/ sock[s].hasfullbuffer /\ hist[s].from = hist[s].peer
               \/ \E t \in C : hist[s].peer = sock[t].sid

LEMMA CalmStep ==
    ASSUME IInv, IInv', WInv, NEW p \in Procs, NEW C, NEW R,
           proc[p].state # "SLEEPING", Calm(p, C, R)
    PROVE  WInv'
<1> USE DEF Calm
<1>1. \A s \in Slots : Open(s)' <=> Open(s) /\ s \notin R
  BY DEF Open, SameSocket
<1>2. \A s \in OpenSlots' : s \in OpenSlots /\ s \in Slots /\ s \notin R
                              /\ SameSocket(s)
  BY <1>1 DEF OpenSlots
<1>3. \A s \in OpenSlots : s \in Slots /\ (s \notin R => s \in OpenSlots')
  BY <1>1 DEF OpenSlots
<1>4. ASSUME NEW q \in Procs, Inside(q)'
      PROVE  /\ q # p /\ frame'[q] = frame[q] /\ Inside(q)
             /\ frame[q].local \in OpenSlots /\ frame[q].local \in OpenSlots'
             /\ SameSocket(frame[q].local)
  <2>1. q # p /\ frame'[q] = frame[q] /\ Inside(q)
    BY <1>4 DEF Inside
  <2>2. frame'[q].local \in OpenSlots'
    BY <1>4 DEF IInv, LocalStaysOwned
  <2> QED
    BY <1>2, <2>1, <2>2
<1>5. ASSUME NEW q \in Procs, proc'[q].state = "SLEEPING"
      PROVE  /\ Inside(q) /\ Inside(q)' /\ frame'[q] = frame[q]
             /\ proc[q].state = "SLEEPING" /\ proc[q].chan \notin C
             /\ proc'[q].chan = proc[q].chan
             /\ proc[q].chan \in OpenSlots /\ proc[q].chan \in OpenSlots'
             /\ proc[q].chan = IF frame[q].fn = "listen" THEN frame[q].local
                               ELSE frame[q].remote
             /\ SameSocket(proc[q].chan)
  <2>1. /\ q # p /\ proc[q].state = "SLEEPING" /\ proc[q].chan \notin C
        /\ proc'[q].chan = proc[q].chan
    BY <1>5 DEF OnlyWakes
  <2>2. frame'[q] = frame[q]
    BY <2>1
  <2>3. /\ Inside(q)
        /\ proc[q].chan \in OpenSlots
        /\ proc[q].chan = IF frame[q].fn = "listen" THEN frame[q].local
                          ELSE frame[q].remote
    BY <2>1 DEF WInv, NoSleepOnClosed
  <2> QED
    BY <1>2, <1>3, <2>1, <2>2, <2>3 DEF Inside
<1>6. NoSleepOnClosed'
  BY <1>5 DEF NoSleepOnClosed
<1>7. ListenerWaits'
  <2>1. ASSUME NEW s \in Slots, sock'[s].state = "LISTENING"
        PROVE  /\ frame'[sock'[s].owner].fn = "listen"
               /\ proc'[sock'[s].owner].state = "SLEEPING"
               /\ frame'[sock'[s].owner].local = s
    <3>1. s \notin R /\ SameSocket(s)
      BY <2>1
    <3>2. sock[s].state = "LISTENING" /\ sock'[s].owner = sock[s].owner
      BY <2>1, <3>1 DEF SameSocket
    <3>3. PICK q \in Procs : q = sock[s].owner
      BY <3>2 DEF IInv, OwnersAlive, OpenSlots, Open
    <3>4. /\ frame[q].fn = "listen" /\ proc[q].state = "SLEEPING"
          /\ frame[q].local = s
      BY <3>2, <3>3 DEF WInv, ListenerWaits
    <3>5. proc[q].chan = s
      BY <3>4 DEF WInv, NoSleepOnClosed
    <3>6. s \notin C /\ q # p
      BY <3>2, <3>4
    <3>7. proc'[q].state = "SLEEPING" /\ frame'[q] = frame[q]
      BY <3>4, <3>5, <3>6 DEF OnlyWakes
    <3> QED
      BY <3>2, <3>3, <3>4, <3>7
  <2>2. ASSUME NEW q \in Procs, frame'[q].fn = "listen"
        PROVE  sock'[frame'[q].local].state =
                  IF proc'[q].state = "SLEEPING" THEN "LISTENING"
                                                 ELSE "CONNECTED"
    <3>1. Inside(q)'
      BY <2>2 DEF Inside
    <3>2. /\ q # p /\ frame'[q] = frame[q]
          /\ sock'[frame[q].local].state = sock[frame[q].local].state
      BY <1>4, <3>1 DEF SameSocket
    <3>3. sock[frame[q].local].state =
              IF proc[q].state = "SLEEPING" THEN "LISTENING" ELSE "CONNECTED"
      BY <2>2, <3>2 DEF WInv, ListenerWaits
    <3>4. CASE proc'[q].state = "SLEEPING"
      BY <1>5, <3>2, <3>3, <3>4
    <3>5. CASE proc'[q].state # "SLEEPING" /\ proc[q].state = "SLEEPING"
      <4>1. proc[q].chan \in C
        BY <3>2, <3>5 DEF OnlyWakes
      <4>2. proc[q].chan = frame[q].local
        BY <2>2, <3>2, <3>5 DEF WInv, NoSleepOnClosed
      <4> QED
        BY <3>3, <3>5, <4>1, <4>2
    <3>6. CASE proc'[q].state # "SLEEPING" /\ proc[q].state # "SLEEPING"
      BY <3>2, <3>3, <3>6
    <3> QED
      BY <3>4, <3>5, <3>6
  <2> QED
    BY <2>1, <2>2 DEF ListenerWaits
<1>8. NoLostWakeup'
  <2> SUFFICES ASSUME NEW q \in Procs, proc'[q].state = "SLEEPING"
               PROVE  /\ frame'[q].fn = "send"
                            => sock'[frame'[q].remote].hasfullbuffer
                      /\ frame'[q].fn = "recv" =>
                            ~ (/\ sock'[frame'[q].local].hasfullbuffer
                               /\ hist'[frame'[q].local].from
                                    = hist'[frame'[q].local].peer)
    BY DEF NoLostWakeup
  <2>1. /\ frame'[q] = frame[q] /\ proc[q].state = "SLEEPING"
        /\ proc[q].chan \notin C /\ proc[q].chan \in OpenSlots /\ Inside(q)'
        /\ proc[q].chan = IF frame[q].fn = "listen" THEN frame[q].local
                          ELSE frame[q].remote
    BY <1>5
  <2>2. CASE frame[q].fn = "send"
    <3>1. sock[frame[q].remote].hasfullbuffer /\ frame[q].remote = proc[q].chan
      BY <2>1, <2>2 DEF WInv, NoLostWakeup
    <3>2. sock'[frame[q].remote].hasfullbuffer
      BY <1>3, <2>1, <3>1
    <3> QED
      BY <2>1, <2>2, <3>2
  <2>3. CASE frame[q].fn = "recv"
    <3> DEFINE l == frame[q].local
    <3>1. l \in OpenSlots /\ l \in Slots /\ l \notin R
      BY <1>2, <1>4, <2>1
    <3>2. sock[l].state = "CONNECTED"
      BY <2>3 DEF IInv, LocalStaysOwned, Inside
    <3>3. ~(sock[l].hasfullbuffer /\ hist[l].from = hist[l].peer)
      BY <2>1, <2>3 DEF WInv, NoLostWakeup
    <3>4. ASSUME NEW t \in C, hist[l].peer = sock[t].sid
          PROVE  FALSE
      <4>1. sock[t].lPort = sock[l].rPort
        BY <3>1, <3>2, <3>4 DEF WInv, PeersAtPort
      <4>2. sock[frame[q].remote].lPort = sock[l].rPort
        BY <2>1, <2>3 DEF WInv, ReceiverAtPort
      <4>3. frame[q].remote = t
        BY <2>1, <2>3, <4>1, <4>2 DEF IInv, PortsUnique
      <4> QED
        BY <2>1, <2>3, <4>3
    <3>5. ~(sock'[l].hasfullbuffer /\ hist'[l].from = hist'[l].peer)
      BY <3>1, <3>3, <3>4
    <3> QED
      BY <2>1, <2>3, <3>5
  <2> QED
    BY <2>1, <2>2, <2>3
<1>9. SidsFresh'
  BY <1>2 DEF WInv, SidsFresh, SameSocket
<1>10. PeersAtPort'
  BY <1>2 DEF WInv, PeersAtPort, SameSocket
<1>11. ReceiverAtPort'
  <2> SUFFICES ASSUME NEW q \in Procs, proc'[q].state = "SLEEPING",
                      frame'[q].fn = "recv"
               PROVE  sock'[frame'[q].remote].lPort
                        = sock'[frame'[q].local].rPort
    BY DEF ReceiverAtPort
  <2>1. /\ frame'[q] = frame[q] /\ proc[q].state = "SLEEPING" /\ Inside(q)'
        /\ proc[q].chan = frame[q].remote /\ SameSocket(proc[q].chan)
    BY <1>5
  <2>2. SameSocket(frame[q].local)
    BY <1>4, <2>1
  <2> QED
    BY <2>1, <2>2 DEF WInv, ReceiverAtPort, SameSocket
<1> QED
  BY <1>6, <1>7, <1>8, <1>9, <1>10, <1>11 DEF WInv

\* Waking the sleepers on C, when p itself is awake.
LEMMA WakesOnly ==
    ASSUME NEW p \in Procs, NEW C, NEW ps \in [Procs -> ProcRec],
           proc' = wakeupAll(ps, C), ps[p].state # "SLEEPING",
           \A q \in Procs : q # p => ps[q] = proc[q]
    PROVE  OnlyWakes(p, C)
BY DEF wakeupAll, OnlyWakes, ProcRec

\* The places of the others stay what they were.
LEMMA WakesNone ==
    ASSUME NEW p \in Procs, proc[p].state # "SLEEPING",
           proc'[p].state # "SLEEPING",
           \A q \in Procs : q # p => proc'[q] = proc[q]
    PROVE  OnlyWakes(p, {})
BY DEF OnlyWakes

\* A process that is not asleep has no listening socket.
LEMMA AwakeOwnsNoListener ==
    ASSUME WInv, NEW p \in Procs, proc[p].state # "SLEEPING", NEW s \in Slots,
           sock[s].owner = p
    PROVE  sock[s].state # "LISTENING"
BY DEF WInv, ListenerWaits

\* After a return the process is in no call.
LEMMA Returned ==
    ASSUME TypeOK, NEW p \in Procs, NEW fn, NEW code, NEW d,
           retsockfunc(p, fn, code, d)
    PROVE  ~Inside(p)' /\ \A q \in Procs : q # p => frame'[q] = frame[q]
BY DEF TypeOK, retsockfunc, NoFrame, Inside

\* A step of an awake process that leaves the table and the others alone.
LEMMA AloneWaits ==
    ASSUME IInv, IInv', WInv, NEW p \in Procs, proc[p].state # "SLEEPING",
           proc'[p].state # "SLEEPING",
           \A q \in Procs : q # p => proc'[q] = proc[q] /\ frame'[q] = frame[q],
           ~Inside(p)', UNCHANGED <<sock, nextsid, hist>>
    PROVE  WInv'
<1>1. OnlyWakes(p, {})
  BY WakesNone
<1>2. \A s \in Slots : SameSocket(s)
  BY DEF SameSocket
<1>3. /\ \A s \in Slots : sock'[s] = sock[s] /\ hist'[s] = hist[s]
      /\ nextsid' = nextsid
  OBVIOUS
<1> DEFINE none == {}
<1>4. /\ none \subseteq none /\ none \subseteq OpenSlots
      /\ \A s \in none : FALSE
      /\ OnlyWakes(p, none)
  BY <1>1
<1> HIDE DEF none
<1>5. Calm(p, none, none)
  BY <1>2, <1>3, <1>4 DEF Calm
<1> QED
  BY <1>5, CalmStep

\* An awake process removes sockets of its own.
LEMMA RemoveWaits ==
    ASSUME IInv, IInv', WInv, NEW p \in Procs, proc[p].state # "SLEEPING",
           NEW R, R \subseteq procsocks(p),
           OnlyWakes(p, R),
           sock' = [s \in Slots |-> IF s \in R THEN resetsock(s) ELSE sock[s]],
           UNCHANGED <<nextsid, hist>>,
           ~Inside(p)', \A q \in Procs : q # p => frame'[q] = frame[q]
    PROVE  WInv'
<1>1. R \subseteq OpenSlots /\ R \subseteq Slots
        /\ \A s \in R : sock[s].owner = p
  BY DEF procsocks, OpenSlots
<1>2. \A s \in R : sock[s].state # "LISTENING"
  BY <1>1, AwakeOwnsNoListener
<1>3. \A s \in R : sock'[s].state = "CLOSED"
  BY <1>1, ResetsockType DEF IInv
<1>4. \A s \in Slots : s \notin R => sock'[s] = sock[s]
  OBVIOUS
<1>5. \A s \in Slots : s \notin R => SameSocket(s)
  BY <1>4 DEF SameSocket
<1>6. Calm(p, R, R)
  BY <1>1, <1>2, <1>3, <1>4, <1>5 DEF Calm
<1> QED
  BY <1>6, CalmStep

\* The part of send after its sleep.
LEMMA SendFinishWaits ==
    ASSUME IInv, IInv', WInv, NEW p \in Procs, proc[p].state # "SLEEPING",
           NEW ps \in [Procs -> ProcRec],
           ps[p].state # "SLEEPING", \A q \in Procs : q # p => ps[q] = proc[q],
           NEW local \in Slots, sock[local].owner = p,
           sock[local].state = "CONNECTED",
           NEW remote \in Slots \cup {NULL}, NEW data, NEW n,
           sendFinish(p, ps, local, remote, data, n)
    PROVE  WInv'
<1>1. ~Inside(p)' /\ \A q \in Procs : q # p => frame'[q] = frame[q]
  BY Returned DEF sendFinish, IInv
<1>2. local \in OpenSlots /\ local \in procsocks(p)
  BY DEF OpenSlots, Open, procsocks
<1>3. CASE removesock({local}, ps) /\ UNCHANGED <<nextsid, hist>>
  <2>1. OnlyWakes(p, {local})
    BY <1>3, WakesOnly DEF removesock
  <2> QED
    BY <1>1, <1>2, <1>3, <2>1, RemoveWaits DEF removesock
<1>4. CASE /\ sock' = [sock EXCEPT ![remote] = written(remote, data, n)]
           /\ proc' = wakeupAll(ps, {local})
           /\ hist' = [hist EXCEPT ![remote].from = sock[local].sid]
           /\ nextsid' = nextsid
  <2>1. OnlyWakes(p, {local})
    BY <1>4, WakesOnly
  <2>2. /\ sock \in [Slots -> SockRec]
        /\ hist \in [Slots -> [peer : Int, from : Int]]
    BY DEF IInv, TypeOK
  <2>3. \A s \in Slots :
            /\ SameSocket(s)
            /\ s # remote => sock'[s] = sock[s] /\ hist'[s] = hist[s]
            /\ s = remote => /\ sock'[s].hasfullbuffer
                             /\ hist'[s].from = sock[local].sid
            /\ hist'[s].peer = hist[s].peer
    BY <1>4, <2>2 DEF SameSocket, written, SockRec
  <2> DEFINE C == {local}  none == {}
  <2>4. /\ none \subseteq C /\ C \subseteq OpenSlots /\ OnlyWakes(p, C)
        /\ \A s \in C : s = local
        /\ \A s \in none : FALSE
        /\ local \in C
    BY <1>2, <2>1
  <2> HIDE DEF C, none
  <2>5. \A s \in C : sock[s].state # "LISTENING"
    BY <2>4
  <2>6. ASSUME NEW s \in Slots
        PROVE  /\ s \notin C /\ sock[s].hasfullbuffer
                     => sock'[s].hasfullbuffer
               /\ sock'[s].hasfullbuffer /\ hist'[s].from = hist'[s].peer =>
                     \/ sock[s].hasfullbuffer /\ hist[s].from = hist[s].peer
                     \/ \E t \in C : hist[s].peer = sock[t].sid
    BY <2>3, <2>4
  <2>7. /\ \A s \in none : sock'[s].state = "CLOSED"
        /\ \A s \in Slots : s \notin none => SameSocket(s)
        /\ \A s \in Slots : hist'[s].peer = hist[s].peer
        /\ nextsid' = nextsid
    BY <1>4, <2>3, <2>4
  <2>8. \A s \in Slots :
            s \notin none /\ sock'[s].hasfullbuffer
                /\ hist'[s].from = hist'[s].peer =>
                \/ sock[s].hasfullbuffer /\ hist[s].from = hist[s].peer
                \/ \E t \in C : hist[s].peer = sock[t].sid
    BY <2>6
  <2>9. \A s \in Slots : s \notin C /\ sock[s].hasfullbuffer
                                => sock'[s].hasfullbuffer
    BY <2>6
  <2>10. Calm(p, C, none)
    BY <1>1, <2>4, <2>5, <2>7, <2>8, <2>9 DEF Calm
  <2> QED
    BY <2>10, CalmStep
<1> QED
  BY <1>3, <1>4 DEF sendFinish

\* The part of recv after its sleep.
LEMMA RecvFinishWaits ==
    ASSUME IInv, IInv', WInv, NEW p \in Procs, proc[p].state # "SLEEPING",
           NEW ps \in [Procs -> ProcRec],
           ps[p].state # "SLEEPING", \A q \in Procs : q # p => ps[q] = proc[q],
           NEW local \in Slots, sock[local].owner = p,
           sock[local].state = "CONNECTED", NEW n,
           recvFinish(p, ps, local, n)
    PROVE  WInv'
<1>1. ~Inside(p)' /\ \A q \in Procs : q # p => frame'[q] = frame[q]
  BY Returned DEF recvFinish, IInv
<1>2. local \in OpenSlots /\ local \in procsocks(p)
  BY DEF OpenSlots, Open, procsocks
<1>3. CASE /\ removesock({local}, wakeupAll(ps, {local}))
           /\ UNCHANGED <<nextsid, hist>>
  <2>1. wakeupAll(wakeupAll(ps, {local}), {local}) = wakeupAll(ps, {local})
    BY DEF wakeupAll, ProcRec
  <2>2. OnlyWakes(p, {local})
    BY <1>3, <2>1, WakesOnly DEF removesock
  <2> QED
    BY <1>1, <1>2, <1>3, <2>2, RemoveWaits DEF removesock
<1>4. CASE /\ sock' = [sock EXCEPT ![local] = emptied(local)]
           /\ proc' = wakeupAll(ps, {local})
           /\ UNCHANGED <<nextsid, hist>>
  <2>1. OnlyWakes(p, {local})
    BY <1>4, WakesOnly
  <2>2. sock \in [Slots -> SockRec]
    BY DEF IInv, TypeOK
  <2>3. \A s \in Slots :
            /\ SameSocket(s)
            /\ s # local => sock'[s] = sock[s]
            /\ s = local => ~sock'[s].hasfullbuffer
    BY <1>4, <2>2 DEF SameSocket, emptied, SockRec
  <2> DEFINE C == {local}  none == {}
  <2>4. /\ none \subseteq C /\ C \subseteq OpenSlots /\ OnlyWakes(p, C)
        /\ \A s \in C : s = local
        /\ \A s \in none : FALSE
        /\ local \in C
    BY <1>2, <2>1
  <2> HIDE DEF C, none
  <2>5. \A s \in C : sock[s].state # "LISTENING"
    BY <2>4
  <2>6. ASSUME NEW s \in Slots
        PROVE  /\ s \notin C /\ sock[s].hasfullbuffer
                     => sock'[s].hasfullbuffer
               /\ sock'[s].hasfullbuffer /\ hist'[s].from = hist'[s].peer =>
                     sock[s].hasfullbuffer /\ hist[s].from = hist[s].peer
    BY <1>4, <2>3, <2>4
  <2>7. /\ \A s \in none : sock'[s].state = "CLOSED"
        /\ \A s \in Slots : s \notin none => SameSocket(s)
        /\ \A s \in Slots : hist'[s].peer = hist[s].peer
        /\ nextsid' = nextsid
    BY <1>4, <2>3, <2>4
  <2>8. \A s \in Slots :
            s \notin none /\ sock'[s].hasfullbuffer
                /\ hist'[s].from = hist'[s].peer =>
                \/ sock[s].hasfullbuffer /\ hist[s].from = hist[s].peer
                \/ \E t \in C : hist[s].peer = sock[t].sid
    BY <2>6
  <2>9. \A s \in Slots : s \notin C /\ sock[s].hasfullbuffer
                                => sock'[s].hasfullbuffer
    BY <2>6
  <2>10. Calm(p, C, none)
    BY <1>1, <2>4, <2>5, <2>7, <2>8, <2>9 DEF Calm
  <2> QED
    BY <2>10, CalmStep
<1> QED
  BY <1>3, <1>4 DEF recvFinish

\* A process goes to sleep in send, on a full buffer, or in recv, with an empty
\* one, on the socket at its rPort.
LEMMA BlockWaits ==
    ASSUME IInv, WInv, NEW p \in Procs, proc[p].state = "RUNNABLE",
           NEW fn, fn = "send" \/ fn = "recv",
           NEW local \in OpenSlots, NEW remote \in OpenSlots,
           sock[remote].lPort = sock[local].rPort,
           fn = "send" => sock[remote].hasfullbuffer,
           fn = "recv" => ~sock[local].hasfullbuffer,
           NEW data, NEW n,
           proc' = sleep(p, remote), blocks(p, fn, local, remote, data, n),
           UNCHANGED <<sock, nextsid, hist>>
    PROVE  WInv'
<1>1. proc \in [Procs -> ProcRec] /\ frame \in [Procs -> FrameRec]
  BY DEF IInv, TypeOK
<1>2. /\ proc'[p].state = "SLEEPING" /\ proc'[p].chan = remote
      /\ frame'[p].fn = fn /\ frame'[p].local = local
      /\ frame'[p].remote = remote
      /\ \A q \in Procs : q # p => proc'[q] = proc[q] /\ frame'[q] = frame[q]
  BY <1>1 DEF sleep, blocks, ProcRec
<1>3. OpenSlots' = OpenSlots
  BY DEF OpenSlots, Open
<1>4. NoSleepOnClosed'
  <2> SUFFICES ASSUME NEW q \in Procs, proc'[q].state = "SLEEPING"
               PROVE  /\ Inside(q)'
                      /\ proc'[q].chan \in OpenSlots
                      /\ proc'[q].chan = IF frame'[q].fn = "listen"
                                         THEN frame'[q].local
                                         ELSE frame'[q].remote
    BY <1>3 DEF NoSleepOnClosed
  <2>1. CASE q = p
    BY <1>2, <2>1 DEF Inside
  <2>2. CASE q # p
    BY <1>2, <2>2 DEF Inside, WInv, NoSleepOnClosed
  <2> QED
    BY <2>1, <2>2
<1>5. ListenerWaits'
  <2>1. ASSUME NEW s \in Slots, sock[s].state = "LISTENING"
        PROVE  /\ frame'[sock[s].owner].fn = "listen"
               /\ proc'[sock[s].owner].state = "SLEEPING"
               /\ frame'[sock[s].owner].local = s
    <3>1. PICK q \in Procs : q = sock[s].owner
      BY <2>1 DEF IInv, OwnersAlive, OpenSlots, Open
    <3>2. /\ frame[q].fn = "listen" /\ proc[q].state = "SLEEPING"
          /\ frame[q].local = s
      BY <2>1, <3>1 DEF WInv, ListenerWaits
    <3>3. q # p
      BY <3>2
    <3> QED
      BY <1>2, <3>1, <3>2, <3>3
  <2>2. ASSUME NEW q \in Procs, frame'[q].fn = "listen"
        PROVE  sock[frame'[q].local].state =
                  IF proc'[q].state = "SLEEPING" THEN "LISTENING"
                                                 ELSE "CONNECTED"
    <3>1. q # p
      BY <1>2, <2>2
    <3> QED
      BY <1>2, <2>2, <3>1 DEF WInv, ListenerWaits
  <2> QED
    BY <2>1, <2>2 DEF ListenerWaits
<1>6. NoLostWakeup'
  <2> SUFFICES ASSUME NEW q \in Procs, proc'[q].state = "SLEEPING"
               PROVE  /\ frame'[q].fn = "send"
                            => sock[frame'[q].remote].hasfullbuffer
                      /\ frame'[q].fn = "recv" =>
                            ~ (/\ sock[frame'[q].local].hasfullbuffer
                               /\ hist[frame'[q].local].from
                                    = hist[frame'[q].local].peer)
    BY DEF NoLostWakeup
  <2>1. CASE q = p
    BY <1>2, <2>1
  <2>2. CASE q # p
    BY <1>2, <2>2 DEF WInv, NoLostWakeup
  <2> QED
    BY <2>1, <2>2
<1>7. SidsFresh' /\ PeersAtPort'
  BY <1>3 DEF WInv, SidsFresh, PeersAtPort
<1>8. ReceiverAtPort'
  BY <1>2 DEF WInv, ReceiverAtPort
<1> QED
  BY <1>4, <1>5, <1>6, <1>7, <1>8 DEF WInv

\* listen opens a socket and goes to sleep on it.
LEMMA ListenWaits ==
    ASSUME IInv, IInv', WInv, NEW p \in Procs, NEW lport,
           proc[p].state = "RUNNABLE", NEW s \in Slots, ~Open(s),
           sock' = [sock EXCEPT ![s] =
                      setsockvalue(@, nextsid, "LISTENING", p, lport)],
           proc' = sleep(p, s),
           blocks(p, "listen", s, NULL, EmptyBuffer, 0),
           hist' = [hist EXCEPT ![s] = [peer |-> -1, from |-> -1]],
           nextsid' = nextsid + 1
    PROVE  WInv'
<1>1. /\ proc \in [Procs -> ProcRec] /\ frame \in [Procs -> FrameRec]
      /\ sock \in [Slots -> SockRec] /\ nextsid \in Nat
      /\ hist \in [Slots -> [peer : Int, from : Int]]
  BY DEF IInv, TypeOK
<1>2. /\ proc'[p].state = "SLEEPING" /\ proc'[p].chan = s
      /\ frame'[p].fn = "listen" /\ frame'[p].local = s
      /\ \A q \in Procs : q # p => proc'[q] = proc[q] /\ frame'[q] = frame[q]
  BY <1>1 DEF sleep, blocks, ProcRec
<1>3. /\ sock'[s].state = "LISTENING" /\ sock'[s].sid = nextsid
      /\ sock'[s].owner = p
      /\ hist'[s].peer = -1
      /\ \A t \in Slots : t # s => sock'[t] = sock[t] /\ hist'[t] = hist[t]
  BY <1>1 DEF setsockvalue
<1>4. OpenSlots' = OpenSlots \cup {s} /\ s \notin OpenSlots
        /\ OpenSlots \subseteq Slots
  BY <1>3 DEF OpenSlots, Open
<1>5. \A t \in OpenSlots : t # s /\ sock'[t] = sock[t] /\ hist'[t] = hist[t]
  BY <1>3, <1>4
<1>6. ASSUME NEW q \in Procs, q # p, Inside(q)
      PROVE  frame[q].local \in OpenSlots
  BY <1>6 DEF IInv, LocalStaysOwned
<1>7. ASSUME NEW q \in Procs, proc'[q].state = "SLEEPING", q # p
      PROVE  /\ proc[q].state = "SLEEPING" /\ Inside(q)
             /\ proc'[q] = proc[q] /\ frame'[q] = frame[q]
             /\ frame[q].local \in OpenSlots
             /\ proc[q].chan \in OpenSlots
             /\ proc[q].chan = IF frame[q].fn = "listen" THEN frame[q].local
                               ELSE frame[q].remote
  BY <1>2, <1>6, <1>7 DEF WInv, NoSleepOnClosed
<1>8. NoSleepOnClosed'
  <2> SUFFICES ASSUME NEW q \in Procs, proc'[q].state = "SLEEPING"
               PROVE  /\ Inside(q)'
                      /\ proc'[q].chan \in OpenSlots'
                      /\ proc'[q].chan = IF frame'[q].fn = "listen"
                                         THEN frame'[q].local
                                         ELSE frame'[q].remote
    BY DEF NoSleepOnClosed
  <2>1. CASE q = p
    BY <1>2, <1>4, <2>1 DEF Inside
  <2>2. CASE q # p
    BY <1>4, <1>7, <2>2 DEF Inside
  <2> QED
    BY <2>1, <2>2
<1>9. ListenerWaits'
  <2>1. ASSUME NEW t \in Slots, sock'[t].state = "LISTENING"
        PROVE  /\ frame'[sock'[t].owner].fn = "listen"
               /\ proc'[sock'[t].owner].state = "SLEEPING"
               /\ frame'[sock'[t].owner].local = t
    <3>1. CASE t = s
      BY <1>2, <1>3, <3>1
    <3>2. CASE t # s
      <4>1. sock'[t] = sock[t] /\ sock[t].state = "LISTENING"
        BY <1>3, <2>1, <3>2
      <4>2. PICK q \in Procs : q = sock[t].owner
        BY <4>1 DEF IInv, OwnersAlive, OpenSlots, Open
      <4>3. /\ frame[q].fn = "listen" /\ proc[q].state = "SLEEPING"
            /\ frame[q].local = t
        BY <4>1, <4>2 DEF WInv, ListenerWaits
      <4>4. q # p
        BY <4>3
      <4> QED
        BY <1>2, <4>1, <4>2, <4>3, <4>4
    <3> QED
      BY <3>1, <3>2
  <2>2. ASSUME NEW q \in Procs, frame'[q].fn = "listen"
        PROVE  sock'[frame'[q].local].state =
                  IF proc'[q].state = "SLEEPING" THEN "LISTENING"
                                                 ELSE "CONNECTED"
    <3>1. CASE q = p
      BY <1>2, <1>3, <3>1
    <3>2. CASE q # p
      <4>1. /\ frame'[q] = frame[q] /\ proc'[q] = proc[q] /\ Inside(q)
        BY <1>2, <2>2, <3>2 DEF Inside
      <4>2. sock'[frame[q].local] = sock[frame[q].local]
        BY <1>5, <1>6, <3>2, <4>1
      <4> QED
        BY <2>2, <4>1, <4>2 DEF WInv, ListenerWaits
    <3> QED
      BY <3>1, <3>2
  <2> QED
    BY <2>1, <2>2 DEF ListenerWaits
<1>10. NoLostWakeup'
  <2> SUFFICES ASSUME NEW q \in Procs, proc'[q].state = "SLEEPING"
               PROVE  /\ frame'[q].fn = "send"
                            => sock'[frame'[q].remote].hasfullbuffer
                      /\ frame'[q].fn = "recv" =>
                            ~ (/\ sock'[frame'[q].local].hasfullbuffer
                               /\ hist'[frame'[q].local].from
                                    = hist'[frame'[q].local].peer)
    BY DEF NoLostWakeup
  <2>1. CASE q = p
    BY <1>2, <2>1
  <2>2. CASE q # p
    <3>1. /\ frame'[q] = frame[q] /\ proc[q].state = "SLEEPING"
          /\ frame[q].fn = "send" => frame[q].remote \in OpenSlots
          /\ frame[q].local \in OpenSlots
      BY <1>7, <2>2
    <3>2. /\ frame[q].fn = "send" => sock[frame[q].remote].hasfullbuffer
          /\ frame[q].fn = "recv" =>
                ~ (/\ sock[frame[q].local].hasfullbuffer
                   /\ hist[frame[q].local].from = hist[frame[q].local].peer)
      BY <3>1 DEF WInv, NoLostWakeup
    <3> QED
      BY <1>5, <3>1, <3>2
  <2> QED
    BY <2>1, <2>2
<1>11. SidsFresh'
  <2>1. \A t \in OpenSlots : sock[t].sid \in 0 .. nextsid - 1
    BY DEF WInv, SidsFresh
  <2>2. \A t \in OpenSlots' : sock'[t].sid \in 0 .. nextsid' - 1
    BY <1>1, <1>3, <1>4, <1>5, <2>1
  <2>3. \A t, u \in OpenSlots' : sock'[t].sid = sock'[u].sid => t = u
    BY <1>1, <1>3, <1>4, <1>5, <2>1 DEF WInv, SidsFresh
  <2>4. \A t \in Slots : hist'[t].peer < nextsid'
    BY <1>1, <1>3 DEF WInv, SidsFresh
  <2> QED
    BY <2>2, <2>3, <2>4 DEF SidsFresh
<1>12. PeersAtPort'
  <2> SUFFICES ASSUME NEW t \in OpenSlots', NEW u \in OpenSlots',
                      sock'[t].state = "CONNECTED",
                      hist'[t].peer = sock'[u].sid
               PROVE  sock'[u].lPort = sock'[t].rPort
    BY DEF PeersAtPort
  <2>1. t \in OpenSlots
    BY <1>3, <1>4
  <2>2. hist'[t].peer < nextsid /\ hist'[t].peer \in Int
    BY <1>1, <1>4, <1>5, <2>1 DEF WInv, SidsFresh
  <2>3. u \in OpenSlots
    BY <1>1, <1>3, <1>4, <2>2
  <2> QED
    BY <1>5, <2>1, <2>3 DEF WInv, PeersAtPort
<1>13. ReceiverAtPort'
  <2> SUFFICES ASSUME NEW q \in Procs, proc'[q].state = "SLEEPING",
                      frame'[q].fn = "recv"
               PROVE  sock'[frame'[q].remote].lPort
                        = sock'[frame'[q].local].rPort
    BY DEF ReceiverAtPort
  <2>1. q # p
    BY <1>2
  <2>2. /\ frame'[q] = frame[q] /\ proc[q].state = "SLEEPING"
        /\ frame[q].remote \in OpenSlots /\ frame[q].local \in OpenSlots
    BY <1>7, <2>1
  <2> QED
    BY <1>5, <2>2 DEF WInv, ReceiverAtPort
<1> QED
  BY <1>8, <1>9, <1>10, <1>11, <1>12, <1>13 DEF WInv

\* connect opens a socket, joins it with a listening one and wakes the listener.
LEMMA ConnectWaits ==
    ASSUME IInv, IInv', WInv, NEW p \in Procs, NEW lport,
           proc[p].state = "RUNNABLE",
           NEW local \in Slots, ~Open(local),
           NEW remote \in Slots, sock[remote].state = "LISTENING",
           connectJoin(p, local, remote, lport),
           nextsid' = nextsid + 1,
           ~Inside(p)', \A q \in Procs : q # p => frame'[q] = frame[q]
    PROVE  WInv'
<1>1. /\ proc \in [Procs -> ProcRec] /\ frame \in [Procs -> FrameRec]
      /\ sock \in [Slots -> SockRec] /\ nextsid \in Nat
      /\ hist \in [Slots -> [peer : Int, from : Int]]
  BY DEF IInv, TypeOK
<1>2. OnlyWakes(p, {remote})
  BY <1>1, WakesOnly DEF connectJoin
<1>3. remote # local /\ remote \in OpenSlots /\ local \notin OpenSlots
  BY DEF Open, OpenSlots
<1>4. /\ sock'[local].state = "CONNECTED" /\ sock'[local].sid = nextsid
      /\ sock'[local].rPort = sock[remote].lPort
      /\ sock'[local].lPort = lport
  BY <1>1, <1>3 DEF connectJoin, setsockvalue
<1>5. /\ sock'[remote].state = "CONNECTED"
      /\ sock'[remote].sid = sock[remote].sid
      /\ sock'[remote].rPort = lport
      /\ sock'[remote].lPort = sock[remote].lPort
  BY <1>1, <1>3 DEF connectJoin, SockRec
<1>6. /\ hist'[local].peer = sock[remote].sid
      /\ hist'[remote].peer = nextsid
      /\ \A t \in Slots : t # local /\ t # remote =>
             sock'[t] = sock[t] /\ hist'[t] = hist[t]
  BY <1>1, <1>3 DEF connectJoin
<1>7. OpenSlots' = OpenSlots \cup {local} /\ OpenSlots \subseteq Slots
  BY <1>3, <1>4, <1>5, <1>6 DEF OpenSlots, Open
<1>8. \A t \in OpenSlots : t # local
        /\ (t # remote => sock'[t] = sock[t] /\ hist'[t] = hist[t])
        /\ sock'[t].sid = sock[t].sid /\ sock'[t].lPort = sock[t].lPort
  BY <1>3, <1>5, <1>6, <1>7
<1>9. ASSUME NEW q \in Procs, Inside(q)'
      PROVE  /\ q # p /\ frame'[q] = frame[q] /\ Inside(q)
             /\ frame[q].local \in OpenSlots
             /\ frame[q].fn # "listen" =>
                   frame[q].local # remote
                     /\ sock'[frame[q].local] = sock[frame[q].local]
                     /\ hist'[frame[q].local] = hist[frame[q].local]
  <2>1. q # p /\ frame'[q] = frame[q] /\ Inside(q)
    BY <1>9 DEF Inside
  <2>2. /\ frame[q].local \in OpenSlots
        /\ frame[q].fn # "listen" => sock[frame[q].local].state = "CONNECTED"
    BY <2>1 DEF IInv, LocalStaysOwned
  <2> QED
    BY <1>8, <2>1, <2>2
<1>10. ASSUME NEW q \in Procs, proc'[q].state = "SLEEPING"
       PROVE  /\ proc[q].state = "SLEEPING" /\ proc'[q].chan = proc[q].chan
              /\ Inside(q)' /\ frame'[q] = frame[q]
              /\ proc[q].chan \in OpenSlots /\ proc[q].chan # remote
              /\ proc[q].chan = IF frame[q].fn = "listen" THEN frame[q].local
                                ELSE frame[q].remote
              /\ sock'[proc[q].chan] = sock[proc[q].chan]
  <2>1. /\ q # p /\ proc[q].state = "SLEEPING" /\ proc[q].chan # remote
        /\ proc'[q].chan = proc[q].chan
    BY <1>2, <1>10 DEF OnlyWakes
  <2>2. /\ Inside(q) /\ proc[q].chan \in OpenSlots
        /\ proc[q].chan = IF frame[q].fn = "listen" THEN frame[q].local
                          ELSE frame[q].remote
    BY <2>1 DEF WInv, NoSleepOnClosed
  <2> QED
    BY <1>8, <2>1, <2>2 DEF Inside
<1>11. NoSleepOnClosed'
  BY <1>7, <1>10 DEF NoSleepOnClosed
<1>12. ListenerWaits'
  <2>1. ASSUME NEW t \in Slots, sock'[t].state = "LISTENING"
        PROVE  /\ frame'[sock'[t].owner].fn = "listen"
               /\ proc'[sock'[t].owner].state = "SLEEPING"
               /\ frame'[sock'[t].owner].local = t
    <3>1. /\ t # local /\ t # remote /\ sock'[t] = sock[t]
          /\ sock[t].state = "LISTENING"
      BY <1>4, <1>5, <1>6, <2>1
    <3>2. PICK q \in Procs : q = sock[t].owner
      BY <3>1 DEF IInv, OwnersAlive, OpenSlots, Open
    <3>3. /\ frame[q].fn = "listen" /\ proc[q].state = "SLEEPING"
          /\ frame[q].local = t
      BY <3>1, <3>2 DEF WInv, ListenerWaits
    <3>4. proc[q].chan = t /\ q # p
      BY <3>3 DEF WInv, NoSleepOnClosed
    <3>5. proc'[q].state = "SLEEPING" /\ frame'[q] = frame[q]
      BY <1>2, <3>1, <3>3, <3>4 DEF OnlyWakes
    <3> QED
      BY <3>1, <3>2, <3>3, <3>5
  <2>2. ASSUME NEW q \in Procs, frame'[q].fn = "listen"
        PROVE  sock'[frame'[q].local].state =
                  IF proc'[q].state = "SLEEPING" THEN "LISTENING"
                                                 ELSE "CONNECTED"
    <3>1. Inside(q)'
      BY <2>2 DEF Inside
    <3>2. q # p /\ frame'[q] = frame[q] /\ frame[q].local \in OpenSlots
      BY <1>9, <3>1
    <3>3. sock[frame[q].local].state =
              IF proc[q].state = "SLEEPING" THEN "LISTENING" ELSE "CONNECTED"
      BY <2>2, <3>2 DEF WInv, ListenerWaits
    <3>4. CASE proc'[q].state = "SLEEPING"
      BY <1>10, <2>2, <3>2, <3>3, <3>4
    <3>5. CASE proc'[q].state # "SLEEPING" /\ proc[q].state = "SLEEPING"
      <4>1. proc[q].chan = remote
        BY <1>2, <3>2, <3>5 DEF OnlyWakes
      <4>2. proc[q].chan = frame[q].local
        BY <2>2, <3>2, <3>5 DEF WInv, NoSleepOnClosed
      <4> QED
        BY <1>5, <3>2, <3>5, <4>1, <4>2
    <3>6. CASE proc'[q].state # "SLEEPING" /\ proc[q].state # "SLEEPING"
      <4>1. frame[q].local # remote
        BY <3>3, <3>6
      <4> QED
        BY <1>8, <3>2, <3>3, <3>6, <4>1
    <3> QED
      BY <3>4, <3>5, <3>6
  <2> QED
    BY <2>1, <2>2 DEF ListenerWaits
<1>13. NoLostWakeup'
  <2> SUFFICES ASSUME NEW q \in Procs, proc'[q].state = "SLEEPING"
               PROVE  /\ frame'[q].fn = "send"
                            => sock'[frame'[q].remote].hasfullbuffer
                      /\ frame'[q].fn = "recv" =>
                            ~ (/\ sock'[frame'[q].local].hasfullbuffer
                               /\ hist'[frame'[q].local].from
                                    = hist'[frame'[q].local].peer)
    BY DEF NoLostWakeup
  <2>1. /\ frame'[q] = frame[q] /\ proc[q].state = "SLEEPING"
        /\ frame[q].fn = "send" =>
              sock'[frame[q].remote] = sock[frame[q].remote]
    BY <1>10
  <2>2. frame[q].fn = "recv" =>
            /\ sock'[frame[q].local] = sock[frame[q].local]
            /\ hist'[frame[q].local] = hist[frame[q].local]
    BY <1>9, <1>10
  <2>3. /\ frame[q].fn = "send" => sock[frame[q].remote].hasfullbuffer
        /\ frame[q].fn = "recv" =>
              ~ (/\ sock[frame[q].local].hasfullbuffer
                 /\ hist[frame[q].local].from = hist[frame[q].local].peer)
    BY <2>1 DEF WInv, NoLostWakeup
  <2> QED
    BY <2>1, <2>2, <2>3
<1>14. SidsFresh'
  <2>1. \A t \in OpenSlots : sock[t].sid \in 0 .. nextsid - 1
    BY DEF WInv, SidsFresh
  <2>2. \A t \in OpenSlots' : sock'[t].sid \in 0 .. nextsid' - 1
    BY <1>1, <1>4, <1>7, <1>8, <2>1
  <2>3. \A t, u \in OpenSlots' : sock'[t].sid = sock'[u].sid => t = u
    BY <1>1, <1>4, <1>7, <1>8, <2>1 DEF WInv, SidsFresh
  <2>4. ASSUME NEW t \in Slots
        PROVE  hist'[t].peer < nextsid'
    <3>1. hist[t].peer < nextsid /\ hist[t].peer \in Int
      BY <1>1 DEF WInv, SidsFresh
    <3>2. sock[remote].sid < nextsid /\ sock[remote].sid \in Int
      BY <1>1, <1>3, <2>1
    <3>3. hist'[t].peer = hist[t].peer \/ hist'[t].peer = nextsid
            \/ hist'[t].peer = sock[remote].sid
      BY <1>6
    <3> QED
      BY <1>1, <3>1, <3>2, <3>3
  <2> QED
    BY <2>2, <2>3, <2>4 DEF SidsFresh
<1>15. PeersAtPort'
  <2> SUFFICES ASSUME NEW t \in OpenSlots', NEW u \in OpenSlots',
                      sock'[t].state = "CONNECTED",
                      hist'[t].peer = sock'[u].sid
               PROVE  sock'[u].lPort = sock'[t].rPort
    BY DEF PeersAtPort
  <2>1. /\ sock'[local].sid = nextsid
        /\ \A v \in OpenSlots : sock'[v].sid < nextsid
    BY <1>1, <1>4, <1>8 DEF WInv, SidsFresh
  <2>2. CASE t = local
    <3>1. sock[remote].sid \in Int /\ sock[remote].sid < nextsid
            /\ nextsid \in Int
      BY <1>1, <1>3 DEF WInv, SidsFresh
    <3>3. sock'[u].sid # nextsid
      BY <1>6, <2>2, <3>1
    <3>4. u \in OpenSlots
      BY <1>7, <2>1, <3>3
    <3>2. u = remote
      BY <1>3, <1>6, <1>8, <2>2, <3>4 DEF WInv, SidsFresh
    <3> QED
      BY <1>4, <1>5, <2>2, <3>2
  <2>3. CASE t = remote
    <3>1. u = local
      BY <1>1, <1>6, <1>7, <2>1, <2>3
    <3> QED
      BY <1>4, <1>5, <2>3, <3>1
  <2>4. CASE t # local /\ t # remote
    <3>1. t \in OpenSlots /\ sock'[t] = sock[t] /\ hist'[t] = hist[t]
      BY <1>7, <1>8, <2>4
    <3>2. hist[t].peer < nextsid /\ hist[t].peer \in Int
      BY <1>1, <1>7, <3>1 DEF WInv, SidsFresh
    <3>3. u \in OpenSlots
      BY <1>1, <1>7, <2>1, <3>1, <3>2
    <3>4. sock[u].lPort = sock[t].rPort
      BY <1>8, <3>1, <3>3 DEF WInv, PeersAtPort
    <3> QED
      BY <1>8, <3>1, <3>3, <3>4
  <2> QED
    BY <2>2, <2>3, <2>4
<1>16. ReceiverAtPort'
  <2> SUFFICES ASSUME NEW q \in Procs, proc'[q].state = "SLEEPING",
                      frame'[q].fn = "recv"
               PROVE  sock'[frame'[q].remote].lPort
                        = sock'[frame'[q].local].rPort
    BY DEF ReceiverAtPort
  <2>1. /\ frame'[q] = frame[q] /\ proc[q].state = "SLEEPING" /\ Inside(q)'
        /\ sock'[frame[q].remote] = sock[frame[q].remote]
    BY <1>10
  <2>2. sock'[frame[q].local] = sock[frame[q].local]
    BY <1>9, <2>1
  <2> QED
    BY <2>1, <2>2 DEF WInv, ReceiverAtPort
<1> QED
  BY <1>11, <1>12, <1>13, <1>14, <1>15, <1>16 DEF WInv

\* Every step keeps the sleepers' invariant.
LEMMA NextWInv == IInv /\ IInv' /\ WInv /\ [Next]_vars => WInv'
<1> SUFFICES ASSUME IInv, IInv', WInv, [Next]_vars PROVE WInv'
  OBVIOUS
<1>1. TypeOK /\ PortsUnique /\ proc \in [Procs -> ProcRec]
  BY DEF IInv, TypeOK
<1>2. CASE UNCHANGED vars
  BY <1>2 DEF vars, WInv, NoSleepOnClosed, ListenerWaits, NoLostWakeup,
              SidsFresh, PeersAtPort, ReceiverAtPort, OpenSlots, Open, Inside
<1>3. ASSUME NEW p \in Procs, CanCall(p)
      PROVE  proc[p].state = "RUNNABLE" /\ proc[p].state # "SLEEPING"
  BY <1>3 DEF CanCall
<1>4. ASSUME NEW p \in Procs, CanCall(p), NEW fn, NEW code, fails(p, fn, code)
      PROVE  WInv'
  <2>1. ~Inside(p)' /\ \A q \in Procs : q # p => frame'[q] = frame[q]
    BY <1>1, <1>4, Returned DEF fails
  <2>2. UNCHANGED <<sock, nextsid, hist, proc>>
    BY <1>4 DEF fails
  <2>3. proc[p].state # "SLEEPING" /\ proc'[p].state # "SLEEPING"
    BY <1>3, <1>4, <2>2
  <2> QED
    BY <2>1, <2>2, <2>3, AloneWaits
<1>5. ASSUME NEW p \in Procs, NEW port \in ArgPorts, listen(p, port)
      PROVE  WInv'
  <2>1. CanCall(p)
    BY <1>5 DEF listen
  <2>2. ASSUME NEW s \in Slots, allocsockPicks(s, port),
               sock' = [sock EXCEPT ![s] =
                      setsockvalue(@, nextsid, "LISTENING", p, port)],
               proc' = sleep(p, s),
               blocks(p, "listen", s, NULL, EmptyBuffer, 0),
               hist' = [hist EXCEPT ![s] = [peer |-> -1, from |-> -1]],
               nextsid' = nextsid + 1
        PROVE  WInv'
    <3>1. ~Open(s)
      BY <2>2 DEF allocsockPicks
    <3> QED
      BY <1>3, <2>1, <2>2, <3>1, ListenWaits
  <2> QED
    BY <1>4, <1>5, <2>1, <2>2 DEF listen
<1>6. ASSUME NEW p \in Procs, listenWake(p)
      PROVE  WInv'
  <2>1. ~Inside(p)' /\ \A q \in Procs : q # p => frame'[q] = frame[q]
    BY <1>1, <1>6, Returned DEF listenWake
  <2>2. /\ proc[p].state # "SLEEPING" /\ proc'[p].state # "SLEEPING"
        /\ \A q \in Procs : q # p => proc'[q] = proc[q]
    BY <1>1, <1>6 DEF listenWake, Woken, tidied, ProcRec
  <2>3. UNCHANGED <<sock, nextsid, hist>>
    BY <1>6 DEF listenWake
  <2> QED
    BY <2>1, <2>2, <2>3, AloneWaits
<1>7. ASSUME NEW p \in Procs, NEW port, NEW localhost, connect(p, port, localhost)
      PROVE  WInv'
  <2>1. CanCall(p)
    BY <1>7 DEF connect
  <2>2. ASSUME connectError(port, localhost) = "OK",
               NEW lport \in Ports, NEW local \in Slots,
               allocsockPicks(local, lport),
               connectJoin(p, local, getsock(port), lport),
               nextsid' = nextsid + 1,
               retsockfunc(p, "connect", "OK", EmptyBuffer)
        PROVE  WInv'
    <3>1. ~Open(local)
      BY <2>2 DEF allocsockPicks
    <3>2. getsock(port) # NULL /\ sock[getsock(port)].state = "LISTENING"
      BY <2>2 DEF connectError
    <3>3. getsock(port) \in Slots
      BY <1>1, <3>2, GetsockSpec
    <3>4. ~Inside(p)' /\ \A q \in Procs : q # p => frame'[q] = frame[q]
      BY <1>1, <2>2, Returned
    <3> QED
      BY <1>3, <2>1, <2>2, <3>1, <3>2, <3>3, <3>4, ConnectWaits
  <2> QED
    BY <1>4, <1>7, <2>1, <2>2 DEF connect
<1>8. ASSUME NEW p \in Procs, NEW port, transferError(p, port) = "OK"
      PROVE  LET local == getsock(port)
                 remote == getsock(sock[local].rPort)
             IN  /\ local \in Slots /\ local \in OpenSlots
                 /\ sock[local].owner = p /\ sock[local].state = "CONNECTED"
                 /\ remote \in Slots /\ remote \in OpenSlots
                 /\ sock[remote].lPort = sock[local].rPort
  <2> DEFINE local == getsock(port)
             remote == getsock(sock[local].rPort)
  <2>1. /\ local # NULL /\ remote # NULL
        /\ sock[local].owner = p /\ sock[local].state = "CONNECTED"
    BY <1>8 DEF transferError
  <2>2. local \in Slots /\ At(local, port)
    BY <1>1, <2>1, GetsockSpec
  <2>3. remote \in Slots /\ At(remote, sock[local].rPort)
    BY <1>1, <2>1, GetsockSpec
  <2> QED
    BY <2>1, <2>2, <2>3 DEF At, OpenSlots
<1>9. ASSUME NEW p \in Procs, NEW port, NEW m, send(p, port, m)
      PROVE  WInv'
  <2> DEFINE local == getsock(port)
             remote == getsock(sock[local].rPort)
             n == sys_send_n(port)
  <2>1. CanCall(p)
    BY <1>9 DEF send
  <2>2. CASE fails(p, "send", transferError(p, port))
    BY <1>4, <2>1, <2>2
  <2>3. CASE /\ transferError(p, port) = "OK"
             /\ sendFinish(p, proc, local, remote, m, n)
    <3>1. /\ local \in Slots /\ sock[local].owner = p
          /\ sock[local].state = "CONNECTED" /\ remote \in Slots
      BY <1>8, <2>3
    <3> HIDE DEF local, remote, n
    <3> QED
      BY <1>1, <1>3, <2>1, <2>3, <3>1, SendFinishWaits
  <2>4. CASE /\ transferError(p, port) = "OK"
             /\ sock[remote].hasfullbuffer
             /\ proc' = sleep(p, remote)
             /\ blocks(p, "send", local, remote, m, n)
             /\ UNCHANGED <<sock, countSock, nextsid, ret, panicked, hist>>
    <3>1. /\ local \in OpenSlots /\ remote \in OpenSlots
          /\ sock[remote].lPort = sock[local].rPort
      BY <1>8, <2>4
    <3> HIDE DEF local, remote, n
    <3> QED
      BY <1>3, <2>1, <2>4, <3>1, BlockWaits
  <2> QED
    BY <1>9, <2>2, <2>3, <2>4 DEF send
<1>10. ASSUME NEW p \in Procs, NEW port, NEW n, recv(p, port, n)
       PROVE  WInv'
  <2> DEFINE local == getsock(port)
             remote == getsock(sock[local].rPort)
  <2>1. CanCall(p)
    BY <1>10 DEF recv
  <2>2. CASE fails(p, "recv", transferError(p, port))
    BY <1>4, <2>1, <2>2
  <2>3. CASE /\ transferError(p, port) = "OK"
             /\ recvFinish(p, proc, local, n)
    <3>1. /\ local \in Slots /\ sock[local].owner = p
          /\ sock[local].state = "CONNECTED"
      BY <1>8, <2>3
    <3> HIDE DEF local
    <3> QED
      BY <1>1, <1>3, <2>1, <2>3, <3>1, RecvFinishWaits
  <2>4. CASE /\ transferError(p, port) = "OK"
             /\ ~sock[local].hasfullbuffer
             /\ proc' = sleep(p, remote)
             /\ blocks(p, "recv", local, remote, EmptyBuffer, n)
             /\ UNCHANGED <<sock, countSock, nextsid, ret, panicked, hist>>
    <3>1. /\ local \in OpenSlots /\ remote \in OpenSlots
          /\ sock[remote].lPort = sock[local].rPort
      BY <1>8, <2>4
    <3> HIDE DEF local, remote
    <3> QED
      BY <1>3, <2>1, <2>4, <3>1, BlockWaits
  <2> QED
    BY <1>10, <2>2, <2>3, <2>4 DEF recv
<1>11. ASSUME NEW p \in Procs, sendWake(p) \/ recvWake(p)
       PROVE  WInv'
  <2> DEFINE local == frame[p].local
             ps == tidied(p)
  <2>1. /\ proc[p].state # "SLEEPING"
        /\ frame[p].fn = "send" \/ frame[p].fn = "recv"
    BY <1>11 DEF sendWake, recvWake, Woken
  <2>2. /\ local \in Slots /\ sock[local].owner = p
        /\ sock[local].state = "CONNECTED"
    BY <2>1 DEF IInv, LocalStaysOwned, Inside, OpenSlots
  <2>3. /\ ps \in [Procs -> ProcRec] /\ ps[p].state # "SLEEPING"
        /\ \A q \in Procs : q # p => ps[q] = proc[q]
    BY <1>1, <2>1 DEF tidied, ProcRec
  <2>4. frame[p].remote \in Slots \cup {NULL}
    BY <1>1 DEF TypeOK, FrameRec
  <2>5. \/ sendFinish(p, ps, local, frame[p].remote, frame[p].data, frame[p].n)
        \/ recvFinish(p, ps, local, frame[p].n)
    BY <1>11 DEF sendWake, recvWake
  <2> HIDE DEF local, ps
  <2> QED
    BY <2>1, <2>2, <2>3, <2>4, <2>5, SendFinishWaits, RecvFinishWaits
<1>12. ASSUME NEW p \in Procs, NEW port, disconnect(p, port)
       PROVE  WInv'
  <2> DEFINE local == getsock(port)
  <2>1. CanCall(p)
    BY <1>12 DEF disconnect
  <2>2. CASE fails(p, "disconnect", disconnectError(p, port))
    BY <1>4, <2>1, <2>2
  <2>3. CASE /\ disconnectError(p, port) = "OK"
             /\ removesock({local}, proc)
             /\ retsockfunc(p, "disconnect", "OK", EmptyBuffer)
             /\ UNCHANGED <<nextsid, panicked, hist>>
    <3>1. local # NULL /\ sock[local].owner = p
      BY <2>3 DEF disconnectError
    <3>2. {local} \subseteq procsocks(p)
      BY <1>1, <3>1, GetsockSpec DEF procsocks, At
    <3>3. ~Inside(p)' /\ \A q \in Procs : q # p => frame'[q] = frame[q]
      BY <1>1, <2>3, Returned
    <3> HIDE DEF local
    <3>4. OnlyWakes(p, {local})
      BY <1>1, <1>3, <2>1, <2>3, WakesOnly DEF removesock
    <3> QED
      BY <1>3, <2>1, <2>3, <3>2, <3>3, <3>4, RemoveWaits DEF removesock
  <2> QED
    BY <1>12, <2>2, <2>3 DEF disconnect
<1>13. ASSUME NEW p \in Procs, exit(p)
       PROVE  WInv'
  <2> DEFINE freed == [proc EXCEPT ![p] = [state |-> "UNUSED", chan |-> NULL,
                                           killed |-> FALSE]]
  <2>1. /\ freed \in [Procs -> ProcRec] /\ freed[p].state # "SLEEPING"
        /\ \A q \in Procs : q # p => freed[q] = proc[q]
    BY <1>1 DEF ProcRec
  <2>2. /\ removesock(procsocks(p), freed) /\ UNCHANGED <<nextsid, hist>>
        /\ proc[p].state # "SLEEPING"
        /\ ~Inside(p)' /\ \A q \in Procs : q # p => frame'[q] = frame[q]
    BY <1>13 DEF exit, Inside
  <2> HIDE DEF freed
  <2>3. OnlyWakes(p, procsocks(p))
    BY <2>1, <2>2, WakesOnly DEF removesock
  <2> QED
    BY <2>2, <2>3, RemoveWaits DEF removesock
<1>14. ASSUME NEW v \in Procs, kill(v)
       PROVE  WInv'
  <2>1. CASE UNCHANGED <<sock, nextsid, proc, frame, hist>>
    BY <2>1 DEF WInv, NoSleepOnClosed, ListenerWaits, NoLostWakeup,
                SidsFresh, PeersAtPort, ReceiverAtPort, OpenSlots, Open, Inside
  <2>2. CASE procsocks(v) = {} /\ UNCHANGED <<sock, nextsid, hist>>
    <3>1. ~Inside(v)
      BY <2>2 DEF procsocks, IInv, LocalStaysOwned, OpenSlots
    <3>2. proc[v].state # "SLEEPING"
      BY <3>1 DEF WInv, NoSleepOnClosed
    <3> DEFINE new == [proc[v] EXCEPT
                          !.killed = TRUE,
                          !.state = IF proc[v].state = "SLEEPING"
                                    THEN "RUNNABLE" ELSE proc[v].state]
    <3>5. new.state # "SLEEPING"
      BY <1>1, <3>2 DEF ProcRec
    <3>6. proc' = proc \/ proc' = [proc EXCEPT ![v] = new]
      BY <1>14 DEF kill
    <3> HIDE DEF new
    <3>3. /\ proc'[v].state # "SLEEPING"
          /\ \A q \in Procs : q # v => proc'[q] = proc[q]
      BY <1>1, <3>2, <3>5, <3>6
    <3>4. ~Inside(v)' /\ \A q \in Procs : q # v => frame'[q] = frame[q]
      <4>1. frame' = frame \/ frame' = [frame EXCEPT ![v].fn = "trap"]
        BY <1>14 DEF kill
      <4>2. frame \in [Procs -> FrameRec]
        BY <1>1 DEF TypeOK
      <4>3. CASE frame' = frame
        BY <3>1, <4>3 DEF Inside
      <4>4. CASE frame' = [frame EXCEPT ![v].fn = "trap"]
        BY <4>2, <4>4 DEF Inside, FrameRec
      <4> QED
        BY <4>1, <4>3, <4>4
    <3> QED
      BY <2>2, <3>2, <3>3, <3>4, AloneWaits
  <2> QED
    BY <1>14, <2>1, <2>2 DEF kill
<1>15. ASSUME NEW p \in Procs, fork(p)
       PROVE  WInv'
  <2>1. /\ proc[p].state = "UNUSED" /\ proc'[p].state # "SLEEPING"
        /\ \A q \in Procs : q # p => proc'[q] = proc[q] /\ frame'[q] = frame[q]
        /\ UNCHANGED <<sock, nextsid, hist, frame>>
    BY <1>1, <1>15 DEF fork, ProcRec
  <2>2. ~Inside(p)'
    BY <2>1 DEF Inside, IInv, LocalStaysOwned, OwnersAlive
  <2> QED
    BY <2>1, <2>2, AloneWaits
<1>16. ASSUME NEW p \in Procs, Call(p)
       PROVE  WInv'
  BY <1>4, <1>5, <1>7, <1>9, <1>10, <1>12, <1>16 DEF Call, missingArg
<1> QED
  BY <1>2, <1>6, <1>11, <1>13, <1>14, <1>15, <1>16 DEF Next, Wake

\* No call of the socket API sleeps for ever on something that has already
\* happened: whoever closes, fills or empties the socket a process sleeps on
\* wakes it, although send, recv and connect find one another by port number
\* and ports are reused.
THEOREM SockSleepersAreWoken == Spec => []SleepersAreWoken
<1>1. Init => WInv
  BY DEF Init, WInv, NoSleepOnClosed, ListenerWaits, NoLostWakeup, SidsFresh,
         PeersAtPort, ReceiverAtPort, OpenSlots, Open, NoFrame
<1>2. WInv => SleepersAreWoken
  BY DEF WInv, SleepersAreWoken
<1> QED
  BY <1>1, <1>2, InitIInv, NextIInv, NextWInv, PTL DEF Spec
=============================================================================
