-------------------------------- MODULE Relay --------------------------------
(***************************************************************************)
(* The two programs that copy between two ends, 0 and 1: vb copies frames  *)
(* between two interfaces, nc-vsock bytes between its standard input and   *)
(* output (a TCP connection with -t) and a vsock connection.               *)
(*                                                                         *)
(* vb drops what it cannot send; nc-vsock waits until the rest of what it  *)
(* has read can be written and reads nothing meanwhile, from either end.   *)
(***************************************************************************)
EXTENDS Integers, Sequences, SequencesExt, FiniteSetsExt

CONSTANTS
    Input,         \* what each end sends: ascending numbers
    BufSize,       \* bytes of one read of nc-vsock
    Capacity,      \* bytes an end holds that it has not taken yet
    MaxAddrs       \* addresses getaddrinfo() may return

Ends == {0, 1}
ASSUME RelayAssumption ==
    /\ Input \in [Ends -> Seq(Nat)]
    /\ \A i \in Ends : \A a, b \in 1..Len(Input[i]) : a < b => Input[i][a] < Input[i][b]
    /\ {BufSize, Capacity, MaxAddrs} \subseteq Nat \ {0}

VARIABLES
    relay,         \* "vb", "nc"
    at,            \* where it is
    mode,          \* the command line of nc-vsock
    fds,           \* the descriptors that are open: vb's ends, nc's "remote" and "tcp"
    stdio,         \* what standard input and output are: "terminal", "tcp"
    addrs, tcp,    \* addresses to try, and what the last of them gave: -1, a closed
                   \* descriptor's number or an open one
    todo, closed,  \* what each end has still to send, and whether it is at its end
    got, held,     \* what was written to each end, and how much of it it has not taken
    selected,      \* ends select() found readable and the loop has not come to
    from, buf,     \* the end last read, and what of that is not written
    sigint         \* SIGINT has been handled

setupVars == <<mode, fds, stdio, addrs, tcp>>
endVars   == <<todo, closed, got, held>>
relayVars == <<relay, at, setupVars, endVars, selected, from, buf, sigint>>

RelayInit ==
    /\ relay \in {"vb", "nc"} /\ at = "start"
    /\ mode = "none" /\ fds = {} /\ stdio = "terminal" /\ addrs = 0 /\ tcp = "-1"
    /\ todo = Input /\ closed = [i \in Ends |-> FALSE]
    /\ got = [i \in Ends |-> <<>>] /\ held = [i \in Ends |-> 0]
    /\ selected = {} /\ from = 0 /\ buf = <<>> /\ sigint = FALSE

Other(i) == 1 - i
Goto(l) == at' = l

-----------------------------------------------------------------------------
(***************************************************************************)
(* vb.  Nothing in OpenSocket is checked: an end that could not be opened  *)
(* is -1, for which FD_SET is undefined: the build aborts or select() does *)
(* not see the end, and sendto() refuses it.  An end whose bind() failed   *)
(* receives from every interface and sends to none: Input is what the      *)
(* socket delivers, and Forward may drop any frame.                        *)
(***************************************************************************)
OpenSockets ==
    /\ relay = "vb" /\ at = "start"
    /\ fds' \in SUBSET Ends
    /\ \/ Goto(IF fds' = {} THEN "blind" ELSE "select")
       \/ fds' # Ends /\ Goto("end")
    /\ UNCHANGED <<relay, mode, stdio, addrs, tcp, endVars, selected, from, buf, sigint>>

\* select() of no descriptor at all waits for a signal only.
BlindSelect ==
    /\ relay = "vb" /\ at = "blind" /\ Goto("blocked")
    /\ UNCHANGED <<relay, setupVars, endVars, selected, from, buf, sigint>>

\* Both ends are closed wherever the program is; before the handler is
\* installed the signal ends it.  It may come again.
CtrlCHandler ==
    /\ relay = "vb" /\ at # "end" /\ (~ sigint \/ at = "blocked")
    /\ sigint' = TRUE /\ fds' = {}
    /\ at' = IF at \in {"start", "blocked"} THEN "end" ELSE at
    /\ UNCHANGED <<relay, mode, stdio, addrs, tcp, endVars, selected, from, buf>>

ReadableEnds == {i \in Ends : todo[i] # <<>> \/ closed[i]}

\* select() fails once the sockets are closed, or interrupted while it waits.
MakeBridge ==
    /\ relay = "vb" /\ at = "select"
    /\ \/ sigint /\ Goto("end") /\ UNCHANGED selected
       \/ ~ sigint /\ selected' \in (SUBSET {i \in fds : todo[i] # <<>>}) \ {{}} /\ Goto("copy")
    /\ UNCHANGED <<relay, setupVars, endVars, from, buf, sigint>>

\* An end that is closed meanwhile is still in the set: recvfrom() and
\* sendto() fail and nothing is copied.
Forward ==
    /\ relay = "vb" /\ at = "copy"
    /\ IF selected = {} THEN Goto("select") /\ UNCHANGED <<selected, todo, got>>
       ELSE LET i == Min(selected) IN
         /\ selected' = selected \ {i} /\ UNCHANGED at
         /\ IF i \in fds
            THEN /\ todo' = [todo EXCEPT ![i] = Tail(@)]
                 /\ \/ Other(i) \in fds /\ got' = [got EXCEPT ![Other(i)] = Append(@, Head(todo[i]))]
                    \/ UNCHANGED got
            ELSE UNCHANGED <<todo, got>>
    /\ UNCHANGED <<relay, setupVars, closed, held, from, buf, sigint>>

-----------------------------------------------------------------------------
(***************************************************************************)
(* nc-vsock until both ends are connected.                                 *)
(***************************************************************************)
ReadArgs ==
    /\ relay = "nc" /\ at = "start"
    /\ mode' \in {"listen", "listen_tcp", "connect", "usage"}
    /\ Goto(CASE mode' = "usage" -> "end" [] mode' = "connect" -> "connect" [] OTHER -> "listen")
    /\ UNCHANGED <<relay, fds, stdio, addrs, tcp, endVars, selected, from, buf, sigint>>

\* A number that does not parse, or a call that fails: what is open is closed.
VsockFails ==
    /\ at \in {"listen", "connect"} /\ Goto("end")
    /\ UNCHANGED <<relay, setupVars, endVars, selected, from, buf, sigint>>

VsockListen ==
    /\ at = "listen" /\ fds' = {"remote"}
    /\ Goto(IF mode = "listen_tcp" THEN "resolve" ELSE "select")
    /\ UNCHANGED <<relay, mode, stdio, addrs, tcp, endVars, selected, from, buf, sigint>>

VsockConnect ==
    /\ at = "connect" /\ fds' = {"remote"} /\ Goto("select")
    /\ UNCHANGED <<relay, mode, stdio, addrs, tcp, endVars, selected, from, buf, sigint>>

Resolve ==
    /\ at = "resolve"
    /\ \/ addrs' \in 1..MaxAddrs /\ Goto("tcp")
       \/ UNCHANGED addrs /\ Goto("end")
    /\ UNCHANGED <<relay, mode, fds, stdio, tcp, endVars, selected, from, buf, sigint>>

\* One address: when connect() fails the descriptor is closed, and its number
\* is what tcp_connect returns unless another address follows.
TcpConnect ==
    /\ at = "tcp" /\ addrs > 0
    /\ \/ tcp' = "-1"     /\ addrs' = addrs - 1 /\ UNCHANGED fds
       \/ tcp' = "closed" /\ addrs' = addrs - 1 /\ UNCHANGED fds
       \/ tcp' = "open"   /\ addrs' = 0         /\ fds' = fds \cup {"tcp"}
    /\ UNCHANGED <<relay, at, mode, stdio, endVars, selected, from, buf, sigint>>

\* The number is used whether or not it is open.
Dup2Unchecked ==
    /\ at = "tcp" /\ addrs = 0
    /\ IF tcp = "-1" THEN Goto("end") /\ UNCHANGED stdio
                     ELSE Goto("select") /\ stdio' = "tcp"
    /\ UNCHANGED <<relay, mode, fds, addrs, tcp, endVars, selected, from, buf, sigint>>

\* dup2() refuses a descriptor that is not open; that, and not the result of
\* connect(), is what keeps the program from relaying a dead connection.
Dup2 ==
    /\ at = "tcp" /\ addrs = 0
    /\ \/ tcp = "open" /\ Goto("select") /\ stdio' = "tcp"
       \/ tcp # "open" /\ Goto("end") /\ UNCHANGED stdio
    /\ UNCHANGED <<relay, mode, fds, addrs, tcp, endVars, selected, from, buf, sigint>>

-----------------------------------------------------------------------------
(***************************************************************************)
(* main_loop and xfer_data.                                                *)
(***************************************************************************)
MainLoop ==
    /\ relay = "nc" /\ at = "select"
    /\ selected' \in (SUBSET ReadableEnds) \ {{}} /\ Goto("xfer")
    /\ UNCHANGED <<relay, setupVars, endVars, from, buf, sigint>>

\* The end of an input is taken for nothing to read.
XferReadGoesOn ==
    /\ at = "xfer" /\ selected # {}
    /\ LET i == Min(selected) IN
         /\ selected' = selected \ {i} /\ from' = i
         /\ IF todo[i] = <<>> THEN UNCHANGED <<at, buf, todo>>
            ELSE \E n \in 1..Min({BufSize, Len(todo[i])}) :
                   /\ buf' = SubSeq(todo[i], 1, n) /\ Goto("write")
                   /\ todo' = [todo EXCEPT ![i] = SubSeq(@, n + 1, Len(@))]
    /\ UNCHANGED <<relay, setupVars, closed, got, held, sigint>>

\* One read; at the end of either input the program ends.
XferRead ==
    /\ at = "xfer" /\ selected # {}
    /\ LET i == Min(selected) IN
         /\ selected' = selected \ {i} /\ from' = i
         /\ IF todo[i] = <<>> THEN Goto("end") /\ UNCHANGED <<buf, todo>>
            ELSE \E n \in 1..Min({BufSize, Len(todo[i])}) :
                   /\ buf' = SubSeq(todo[i], 1, n) /\ Goto("write")
                   /\ todo' = [todo EXCEPT ![i] = SubSeq(@, n + 1, Len(@))]
    /\ UNCHANGED <<relay, setupVars, closed, got, held, sigint>>

XferNone ==
    /\ at = "xfer" /\ selected = {} /\ Goto("select")
    /\ UNCHANGED <<relay, setupVars, endVars, selected, from, buf, sigint>>

Room == Capacity - held[Other(from)]

\* The rest is counted down but the pointer stays.
XferWriteResends ==
    /\ at = "write"
    /\ \E n \in (IF Room = 0 THEN {0} ELSE 1..Min({Room, Len(buf)})) :
         /\ got' = [got EXCEPT ![Other(from)] = @ \o SubSeq(buf, 1, n)]
         /\ held' = [held EXCEPT ![Other(from)] = @ + n]
         /\ buf' = SubSeq(buf, 1, Len(buf) - n)
         /\ Goto(IF n = Len(buf) THEN "xfer" ELSE "wait")
    /\ UNCHANGED <<relay, setupVars, todo, closed, selected, from, sigint>>

\* write() takes a part, or nothing (EAGAIN) when the end is full.
XferWrite ==
    /\ at = "write"
    /\ \E n \in (IF Room = 0 THEN {0} ELSE 1..Min({Room, Len(buf)})) :
         /\ got' = [got EXCEPT ![Other(from)] = @ \o SubSeq(buf, 1, n)]
         /\ held' = [held EXCEPT ![Other(from)] = @ + n]
         /\ buf' = SubSeq(buf, n + 1, Len(buf))
         /\ Goto(IF n = Len(buf) THEN "xfer" ELSE "wait")
    /\ UNCHANGED <<relay, setupVars, todo, closed, selected, from, sigint>>

\* The end has gone: EPIPE.
XferWriteFails ==
    /\ at = "write" /\ closed[Other(from)] /\ Goto("end")
    /\ UNCHANGED <<relay, setupVars, endVars, selected, from, buf, sigint>>

XferWait ==
    /\ at = "wait" /\ Room > 0 /\ Goto("write")
    /\ UNCHANGED <<relay, setupVars, endVars, selected, from, buf, sigint>>

-----------------------------------------------------------------------------
(***************************************************************************)
(* The ends of nc-vsock: each takes what it was sent, and closes.          *)
(***************************************************************************)
Drain(i) ==
    /\ held[i] > 0 /\ held' = [held EXCEPT ![i] = 0]
    /\ UNCHANGED <<relay, at, setupVars, todo, closed, got, selected, from, buf, sigint>>

Hangup(i) ==
    /\ relay = "nc" /\ todo[i] = <<>> /\ ~ closed[i] /\ closed' = [closed EXCEPT ![i] = TRUE]
    /\ UNCHANGED <<relay, at, setupVars, todo, got, held, selected, from, buf, sigint>>

BridgeStep == OpenSockets \/ BlindSelect \/ MakeBridge \/ Forward
NcSetup == ReadArgs \/ VsockFails \/ VsockListen \/ VsockConnect \/ Resolve \/ TcpConnect \/ Dup2
NcStep == MainLoop \/ XferRead \/ XferNone \/ XferWrite \/ XferWriteFails \/ XferWait

RelayNext == BridgeStep \/ CtrlCHandler \/ NcSetup \/ NcStep \/ \E i \in Ends : Drain(i) \/ Hangup(i)

RelaySpec == RelayInit /\ [][RelayNext]_relayVars

\* The programs run.  Nobody has to connect to accept(), to send anything, or
\* to take what it is sent.
RelayFair ==
    /\ WF_relayVars(BridgeStep) /\ WF_relayVars(NcStep)
    /\ WF_relayVars(at # "listen" /\ NcSetup)

-----------------------------------------------------------------------------
\* nc-vsock passes on every byte, once and in order, through partial writes,
\* full ends and the other direction's turns; vb may drop a frame but never
\* repeats, reorders or invents one.
RelayInOrder ==
    \A i \in Ends :
      LET out == got[Other(i)] IN
      /\ relay = "nc" =>
           Input[i] = out \o (IF from = i THEN buf ELSE <<>>) \o todo[i]
      /\ ToSet(out) \subseteq ToSet(Input[i])
      /\ \A a, b \in 1..Len(out) : a < b => out[a] < out[b]

\* nc-vsock copies only when the vsock connection is there and, with -t, a
\* TCP connection has taken the place of the terminal.
StartsConnected ==
    relay = "nc" /\ at \in {"select", "xfer", "write", "wait"} =>
      /\ "remote" \in fds
      /\ mode = "listen_tcp" => stdio = "tcp" /\ "tcp" \in fds
      /\ mode # "listen_tcp" => stdio = "terminal"

NcCopying == relay = "nc" /\ at \in {"select", "xfer", "write", "wait"}

\* The end that has to take the rest of a read takes nothing.
PeerFull == at = "wait" /\ Room = 0

\* After SIGINT vb leaves its loop, wherever the handler closed its sockets,
\* unless it had none and the signal came before select().  nc-vsock ends once
\* an end it is connected to has closed, unless the other end takes nothing for
\* ever.
RelayEnds ==
    /\ sigint /\ at \notin {"blind", "blocked"} ~> at = "end"
    /\ [](NcCopying /\ (\E i \in Ends : closed[i]) => <>(at = "end" \/ []PeerFull))
=============================================================================
