------------------------------ MODULE GdbStub --------------------------------
(***************************************************************************)
(* The GDB remote stub, spikes/spike-j/host/gdb_stub.c: a server thread    *)
(* that reads packets, and the emulator's CPU thread, which calls          *)
(* fc_gdb_stub_step at a breakpoint.  Both send packets on the one socket  *)
(* and both then recv() one byte, "the ack", from it, while read_pkt       *)
(* recv()s from it too.                                                    *)
(*                                                                         *)
(* The byte stream towards the stub has acks, the '$' that opens a packet  *)
(* and the rest of the packet; a byte taken out of the rest leaves another *)
(* packet or one whose checksum is short.  GDB and the CPU loop are        *)
(* external: gdb_stub.h says how they use the stub.                        *)
(***************************************************************************)
EXTENDS Integers, Sequences, SequencesExt, FiniteSets

CONSTANTS Addrs,        \* the instructions the cart loops over: 1 .. n
          MaxBreaks,    \* MAX_BREAKS
          Asked,        \* the packets GDB sends, a subset of Requests
          MaxRequests,  \* packets GDB sends over all sessions (bound)
          MaxSessions,  \* connections (bound)
          MaxWire       \* unread bytes with which the CPU may stop again (bound)

VARIABLES running, halted, pending, reload_pending, breaks,   \* g_gdb
          client_fd,    \* g_gdb.client_fd >= 0
          server,       \* where the server thread is, and the packet it has
          cpu,          \* where the CPU thread is; pc; the action it was given
          main,         \* the thread that calls fc_gdb_stub_shutdown
          net,          \* the socket
          gdb           \* the client

state == <<running, halted, pending, reload_pending, breaks, client_fd>>
stubVars == <<state, server, cpu, main, net, gdb>>

P(op, a) == [op |-> op, a |-> a]
Ack == P("+", 0)
Dollar == P("$", 0)
Requests == [op : {"Z0", "z0"}, a : Addrs] \cup {P(o, 0) : o \in {"c", "s", "reload", "other"}}

ASSUME StubAssumption ==
  /\ 1 \in Addrs /\ Addrs \subseteq Nat
  /\ MaxBreaks \in Nat
  /\ Asked \subseteq Requests

Replies == {"+", "", "OK", "E", "T05swbreak", "T05library"}

\* What is left of a packet when one byte is taken out of it: "vCont;s"
\* without its s is a continue, an address loses a digit.
Bitten(p) == {P("other", 0), P("cut", 0), p}
             \cup (IF p.op = "s" THEN {P("c", 0)} ELSE {})
             \cup (IF p.op \in {"Z0", "z0"} THEN {P(p.op, a) : a \in Addrs} ELSE {})

\* `bitten` records that some thread took a byte that was not an ack; `held`
\* that the descriptor is closed and the socket is not, because a recv() of
\* the other thread is still waiting on it.
NoNet == [peer |-> "none", shut |-> FALSE, lshut |-> FALSE, bitten |-> FALSE,
          held |-> FALSE, toStub |-> <<>>, toGdb |-> <<>>]

StubInit ==
  /\ running = TRUE /\ halted = FALSE /\ pending = "c" /\ reload_pending = FALSE
  /\ breaks = <<>> /\ client_fd = FALSE
  /\ server = [at |-> "top", req |-> Dollar, out |-> ""]
  /\ cpu = [at |-> "run", pc |-> 1, action |-> "c"]
  /\ main = "run" /\ net = NoNet
  /\ gdb = [at |-> "off", req |-> Dollar, sent |-> 0, sessions |-> 0]

------------------------------------------------------------------------------
\* recv() returns with nothing when what was sent is read and the peer has
\* closed or the socket is shut down.  A close() of the descriptor by another
\* thread does not make a recv() that waits return.
Eof == net.toStub = <<>> /\ (net.peer = "closed" \/ net.shut)

\* recv(client_fd, &ack, 1, 0) of send_pkt, by either thread: any byte will do.
TakeOneByte ==
  \/ Eof /\ UNCHANGED net
  \/ /\ net.toStub # <<>>
     /\ LET b == Head(net.toStub) IN
        \/ b = Ack /\ net' = [net EXCEPT !.toStub = Tail(@)]
        \/ b = Dollar /\ net' = [net EXCEPT !.toStub = Tail(@), !.bitten = TRUE]
        \/ /\ b \notin {Ack, Dollar}
           /\ \E r \in Bitten(b) : net' = [net EXCEPT !.toStub[1] = r, !.bitten = TRUE]

\* The write half of send_pkt.
ToGdb(reply) == [net EXCEPT !.toGdb = IF net.peer = "open" /\ ~net.shut
                                          THEN Append(@, reply) ELSE @]

(***************************** gdb_thread_main *****************************)
SvTop ==
  /\ server.at = "top"
  /\ server' = [server EXCEPT !.at = IF running THEN "accept" ELSE "done"]
  /\ UNCHANGED <<state, cpu, main, net, gdb>>

SvAccept ==
  /\ server.at = "accept" /\ net.peer # "none" /\ ~net.held
  /\ server' = [server EXCEPT !.at = "loop"]
  /\ client_fd' = TRUE /\ halted' = TRUE
  /\ UNCHANGED <<running, pending, reload_pending, breaks, cpu, main, net, gdb>>

SvAcceptFails ==
  /\ server.at = "accept" /\ net.lshut /\ ~running
  /\ server' = [server EXCEPT !.at = "done"]
  /\ UNCHANGED <<state, cpu, main, net, gdb>>

SvLoop ==
  /\ server.at = "loop"
  /\ server' = [server EXCEPT !.at = IF running THEN "read" ELSE "close"]
  /\ UNCHANGED <<state, cpu, main, net, gdb>>

\* read_pkt up to the '$', or its end.
SvRead ==
  /\ server.at = "read"
  /\ \/ /\ net.toStub # <<>>
        /\ net' = [net EXCEPT !.toStub = Tail(@)]
        /\ server' = [server EXCEPT !.at = IF Head(net.toStub) = Dollar THEN "body" ELSE "read"]
     \/ Eof /\ server' = [server EXCEPT !.at = "close"] /\ UNCHANGED net
  /\ UNCHANGED <<state, cpu, main, gdb>>

\* read_pkt from there: the checksum is drained, not compared.
SvBody ==
  /\ server.at = "body" /\ net.toStub # <<>>
  /\ LET p == Head(net.toStub) IN
     IF p.op = "cut"
     THEN /\ server' = [server EXCEPT !.at = "close"]
          /\ net' = [net EXCEPT !.toStub = Tail(@)]
     ELSE /\ server' = [server EXCEPT !.at = "handle", !.req = p]
          /\ net' = [ToGdb("+") EXCEPT !.toStub = Tail(@)]
  /\ UNCHANGED <<state, cpu, main, gdb>>

Out(reply) == server' = [server EXCEPT !.at = "send", !.out = reply]

handle_Z0_unbounded(a) ==                                         \* mutant
  /\ UNCHANGED <<running, halted, pending, reload_pending, client_fd>>
  /\ Out("OK") /\ breaks' = Append(breaks, a)
handle_Z0(a) ==
  /\ UNCHANGED <<running, halted, pending, reload_pending, client_fd>>
  /\ \/ Len(breaks) >= MaxBreaks /\ Out("E") /\ UNCHANGED breaks
     \/ Len(breaks) < MaxBreaks /\ Out("OK") /\ breaks' = Append(breaks, a)

\* The loop moves the entry it keeps at i to the place its counter `kept` has
\* reached, the number of entries kept up to i.
KeptBreaks(a) == {i \in DOMAIN breaks : breaks[i] # a}
kept(a, i) == Cardinality({k \in KeptBreaks(a) : k <= i})
Without(a) == [n \in 1 .. Cardinality(KeptBreaks(a)) |->
                 breaks[CHOOSE i \in KeptBreaks(a) : kept(a, i) = n]]
handle_z0(a) ==
  /\ UNCHANGED <<running, halted, pending, reload_pending, client_fd>>
  /\ Out("OK")
  /\ breaks' = Without(a)

handle_vCont(action) ==
  /\ UNCHANGED <<running, reload_pending, breaks, client_fd>>
  /\ pending' = action /\ halted' = FALSE
  /\ Out("")

\* ops.reload_cart may fail.
handle_qFc32_reload ==
  /\ UNCHANGED <<running, halted, pending, breaks, client_fd>>
  /\ \/ Out("E") /\ UNCHANGED reload_pending
     \/ Out("OK") /\ reload_pending' = TRUE

\* handle_packet; registers, memory, qXfer and unknown packets only reply.
SvHandle ==
  /\ server.at = "handle"
  /\ \/ server.req.op = "Z0" /\ handle_Z0(server.req.a)
     \/ server.req.op = "z0" /\ handle_z0(server.req.a)
     \/ server.req.op \in {"c", "s"} /\ handle_vCont(server.req.op)
     \/ server.req.op = "reload" /\ handle_qFc32_reload
     \/ server.req.op = "other" /\ UNCHANGED state /\ (Out("OK") \/ Out(""))
  /\ UNCHANGED <<cpu, main, net, gdb>>

\* send_pkt(out), which handle_packet calls whatever the handler did.
SvSend ==
  /\ server.at \in {"send", "sendlib"}
  /\ net' = ToGdb(IF server.at = "send" THEN server.out ELSE "T05library")
  /\ server' = [server EXCEPT !.at = IF @ = "send" THEN "ack" ELSE "acklib", !.out = ""]
  /\ UNCHANGED <<state, cpu, main, gdb>>

SvAck ==
  /\ server.at \in {"ack", "acklib"} /\ TakeOneByte
  /\ reload_pending' = (reload_pending /\ server.at = "ack")
  /\ server' = [server EXCEPT !.at = IF reload_pending' THEN "sendlib" ELSE "loop",
                              !.req = Dollar]
  /\ UNCHANGED <<running, halted, pending, breaks, client_fd, cpu, main, gdb>>

\* The socket is gone, and the client sees it at once.
Gone == /\ net' = [NoNet EXCEPT !.lshut = net.lshut]
        /\ gdb' = [gdb EXCEPT !.at = "off", !.req = Dollar]

\* close(fd), without a shutdown: a CPU that waits in its recv() goes on
\* waiting, and keeps the socket and with it the client's connection.
CloseFd == \/ cpu.at # "ack" /\ Gone
           \/ cpu.at = "ack" /\ net' = [net EXCEPT !.held = TRUE] /\ UNCHANGED gdb

SvCloseHalted ==                                                  \* mutant
  /\ server.at = "close"
  /\ server' = [server EXCEPT !.at = "top"]
  /\ client_fd' = FALSE
  /\ CloseFd
  /\ UNCHANGED <<running, halted, pending, reload_pending, breaks, cpu, main>>
SvClose ==
  /\ server.at = "close"
  /\ server' = [server EXCEPT !.at = "top"]
  /\ client_fd' = FALSE /\ halted' = FALSE
  /\ CloseFd
  /\ UNCHANGED <<running, pending, reload_pending, breaks, cpu, main>>

Server == \/ SvTop \/ SvAccept \/ SvAcceptFails \/ SvLoop \/ SvRead \/ SvBody
          \/ SvHandle \/ SvSend \/ SvAck \/ SvClose

(******************* the CPU thread and fc_gdb_stub_step *******************)
check_break(pc) == pc \in ToSet(breaks)
Following(pc) == IF pc + 1 \in Addrs THEN pc + 1 ELSE 1

\* The emulator's loop asks before each instruction, and after a single step.
CpuRun ==
  /\ cpu.at = "run" /\ ~check_break(cpu.pc) /\ cpu.action # "s"
  /\ cpu' = [cpu EXCEPT !.pc = Following(@)]
  /\ UNCHANGED <<state, server, main, net, gdb>>

CpuStop ==
  /\ cpu.at = "run" /\ (check_break(cpu.pc) \/ cpu.action = "s")
  /\ halted' = TRUE
  /\ cpu' = [cpu EXCEPT !.at = "send"]
  /\ UNCHANGED <<running, pending, reload_pending, breaks, client_fd, server, main, net, gdb>>

CpuSend ==
  /\ cpu.at = "send"
  /\ Len(net.toStub) + Len(net.toGdb) < MaxWire
  /\ \/ client_fd /\ net' = ToGdb("T05swbreak") /\ cpu' = [cpu EXCEPT !.at = "recv"]
     \/ ~client_fd /\ UNCHANGED net /\ cpu' = [cpu EXCEPT !.at = "wait"]
  /\ UNCHANGED <<state, server, main, gdb>>

\* recv(g_gdb.client_fd, ...): the descriptor is read again, and may be -1 by now.
CpuRecv ==
  /\ cpu.at = "recv"
  /\ cpu' = [cpu EXCEPT !.at = IF client_fd THEN "ack" ELSE "wait"]
  /\ UNCHANGED <<state, server, main, net, gdb>>

\* The recv() returns; with it goes a socket that was only held by it.
CpuTakes == \/ ~net.held /\ TakeOneByte /\ UNCHANGED gdb
            \/ net.held /\ (Eof \/ net.toStub # <<>>) /\ Gone

CpuAckHalts ==                                                    \* mutant
  /\ cpu.at = "ack" /\ CpuTakes
  /\ cpu' = [cpu EXCEPT !.at = "wait"]
  /\ halted' = TRUE
  /\ UNCHANGED <<running, pending, reload_pending, breaks, client_fd, server, main>>
CpuAck ==
  /\ cpu.at = "ack" /\ CpuTakes
  /\ cpu' = [cpu EXCEPT !.at = "wait"]
  /\ UNCHANGED <<state, server, main>>

\* The poll every 2 ms; the instruction stopped at is then executed.
CpuResume ==
  /\ cpu.at = "wait" /\ (~halted \/ ~running)
  /\ cpu' = [at |-> "run", pc |-> Following(cpu.pc), action |-> pending]
  /\ UNCHANGED <<state, server, main, net, gdb>>

Cpu == CpuRun \/ CpuStop \/ CpuSend \/ CpuRecv \/ CpuAck \/ CpuResume

(*************************** fc_gdb_stub_shutdown **************************)
MainStop ==
  /\ main = "run" /\ main' = "client" /\ running' = FALSE
  /\ UNCHANGED <<halted, pending, reload_pending, breaks, client_fd, server, cpu, net, gdb>>

MainLeavesClient ==                                             \* mutant
  /\ main = "client" /\ main' = "listen"
  /\ net' = [net EXCEPT !.shut = FALSE]
  /\ UNCHANGED <<state, server, cpu, gdb>>
MainShutClient ==
  /\ main = "client" /\ main' = "listen"
  /\ net' = [net EXCEPT !.shut = client_fd]
  /\ UNCHANGED <<state, server, cpu, gdb>>

MainShutListen ==
  /\ main = "listen" /\ main' = "join"
  /\ net' = [net EXCEPT !.lshut = TRUE]
  /\ UNCHANGED <<state, server, cpu, gdb>>

MainJoin ==
  /\ main = "join" /\ server.at = "done" /\ main' = "done"
  /\ UNCHANGED <<state, server, cpu, net, gdb>>

Main == MainStop \/ MainShutClient \/ MainShutListen \/ MainJoin

(*********************************** GDB ***********************************)
Connect ==
  /\ gdb.at = "off" /\ net.peer = "none" /\ ~net.lshut /\ gdb.sessions < MaxSessions
  /\ gdb' = [gdb EXCEPT !.at = "idle", !.sessions = @ + 1]
  /\ net' = [net EXCEPT !.peer = "open"]
  /\ UNCHANGED <<state, server, cpu, main>>

Request(r) ==
  /\ gdb.at = "idle" /\ gdb.sent < MaxRequests /\ ~net.shut
  /\ gdb' = [gdb EXCEPT !.at = IF r.op \in {"c", "s"} THEN "resumed" ELSE "reply",
                        !.req = r, !.sent = @ + 1]
  /\ net' = [net EXCEPT !.toStub = @ \o <<Dollar, r>>]
  /\ UNCHANGED <<state, server, cpu, main>>

\* `req` is the packet sent and not acked.  Acks every packet; after a vCont only a stop reply ends the wait.
Receive ==
  /\ gdb.at # "off" /\ net.toGdb # <<>>
  /\ LET p == Head(net.toGdb) IN
     IF p = "+"
     THEN /\ gdb' = [gdb EXCEPT !.req = Dollar]
          /\ net' = [net EXCEPT !.toGdb = Tail(@)]
     ELSE /\ gdb' = [gdb EXCEPT !.at = IF @ = "resumed" /\ p = "" THEN @ ELSE "idle"]
          /\ net' = [net EXCEPT !.toGdb = Tail(@), !.toStub = Append(@, Ack)]
  /\ UNCHANGED <<state, server, cpu, main>>

\* No '+' came: the packet is sent again.
Retransmit ==
  /\ gdb.at \in {"reply", "resumed"} /\ gdb.req # Dollar /\ ~net.shut
  /\ net.toStub = <<>> /\ net.toGdb = <<>> /\ server.at = "read"
  /\ net' = [net EXCEPT !.toStub = <<Dollar, gdb.req>>]
  /\ UNCHANGED <<state, server, cpu, main, gdb>>

Disconnect ==
  /\ gdb.at # "off"
  /\ gdb' = [gdb EXCEPT !.at = "off", !.req = Dollar]
  /\ net' = [net EXCEPT !.peer = "closed", !.toGdb = <<>>]
  /\ UNCHANGED <<state, server, cpu, main>>

Gdb == Connect \/ (\E r \in Asked : Request(r)) \/ Receive \/ Retransmit \/ Disconnect

StubNext == Server \/ Cpu \/ Main \/ Gdb

\* The threads are scheduled and GDB keeps reading its socket; nobody has to
\* send a command, leave, or shut the stub down.
Fairness == /\ WF_stubVars(Server) /\ WF_stubVars(Cpu) /\ WF_stubVars(Receive) /\ WF_stubVars(Retransmit)
            /\ WF_stubVars(MainShutClient \/ MainShutListen \/ MainJoin)
StubSpec == StubInit /\ [][StubNext]_stubVars /\ Fairness

------------------------------------------------------------------------------
(* The stub's state has its types; the break table never outgrows its      *)
(* array, the server holds a connection only between accept and close, and *)
(* one outlives its close exactly in the CPU's recv().                     *)
StubTypeOK ==
  /\ {running, halted, reload_pending, client_fd} \subseteq BOOLEAN
  /\ pending \in {"c", "s"}
  /\ breaks \in Seq(Addrs) /\ Len(breaks) <= MaxBreaks
  /\ server.at \in {"top", "accept", "loop", "read", "body", "handle", "send", "ack",
                    "sendlib", "acklib", "close", "done"}
  /\ server.req \in Requests \cup {Dollar} /\ server.out \in Replies
  /\ client_fd <=> server.at \notin {"top", "accept", "done"}
  /\ net.held <=> ~client_fd /\ cpu.at = "ack"
  /\ cpu \in [at : {"run", "send", "recv", "ack", "wait"}, pc : Addrs, action : {"c", "s"}]
  /\ main \in {"run", "client", "listen", "join", "done"}
  /\ \A i \in DOMAIN net.toStub :
       net.toStub[i] \in Requests \cup {Ack, Dollar, P("cut", 0)}
  /\ \A i \in DOMAIN net.toGdb : net.toGdb[i] \in Replies
  /\ gdb.at \in {"off", "idle", "reply", "resumed"}

(* As long as neither thread took a byte of a packet for its ack, the CPU  *)
(* that polls in fc_gdb_stub_step and a GDB that has continued it never    *)
(* wait for each other: halted is set before the stop reply is sent, so    *)
(* the continue that answers it is never overwritten.  A CPU still in the  *)
(* recv() of its ack, which the server may have read, is not meant.        *)
NoStandoff ==
  ~( /\ cpu.at = "wait" /\ halted /\ running
     /\ gdb.at = "resumed" /\ gdb.req = Dollar /\ ~net.bitten
     /\ server.at \in {"read", "ack", "acklib"} /\ net.toStub = <<>> /\ net.toGdb = <<>> )

(* The stub's two threads stay in their protocol's states, and a poll for  *)
(* a continue that has come and gone there is none.                        *)
StubSound == StubTypeOK /\ NoStandoff

(* A CPU parked when its debugger goes away runs on, unless the next one   *)
(* is already there.                                                       *)
DetachFreesTheCpu ==
  (cpu.at = "wait" /\ net.peer = "closed") ~> (cpu.at # "wait" \/ gdb.at # "off")

\* The server took the CPU's ack for its own and then closed the descriptor:
\* the CPU waits in its recv() for a byte the debugger has no reason to send.
LeftInRecv == net.held /\ net.peer = "open" /\ net.toStub = <<>> /\ net.toGdb = <<>>

(* fc_gdb_stub_shutdown returns, from wherever the two threads are, and    *)
(* the CPU runs on: all but the one that the server thread left in the     *)
(* recv() of an ack when it closed the connection before                   *)
(* fc_gdb_stub_shutdown could shut it down.                                *)
ShutdownEnds == main # "run" ~> (main = "done" /\ (cpu.at = "run" \/ LeftInRecv))

(* "fc_gdb_stub_step() which blocks until the client sends c/s/etc."       *)
(* (gdb_stub.h:12): the continue of a debugger that stays wakes the CPU.   *)
ResumeWakesTheCpu ==
  (gdb.at = "resumed" /\ cpu.at = "wait") ~> (cpu.at # "wait" \/ gdb.at # "resumed")

(* handle_vCont: "No immediate response -- emitted when CPU stops again"   *)
(* (gdb_stub.c:288): what a vCont puts on the wire is the ack only.        *)
NoImmediateResponse ==
  (gdb.at = "resumed" /\ server.req.op \in {"c", "s"}) => "" \notin ToSet(net.toGdb)
==============================================================================
