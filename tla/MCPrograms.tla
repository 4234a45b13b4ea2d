----------------------------- MODULE MCPrograms -----------------------------
(* The socket servers with their clients, one of the two relays, or the      *)
(* two-lcore loopback: one program in each behaviour.                        *)
EXTENDS SocketServers, Relay, LcoreLoopback
VARIABLE program
Msg == <<1, 2>>
In  == [i \in Ends |-> IF i = 0 THEN <<1, 2, 3>> ELSE <<4, 5>>]

NoServer ==
    /\ prog = "none" /\ server = "exited" /\ backlog = <<>> /\ batch = <<>>
    /\ conn = [f \in Fds |-> None] /\ client = [c \in Clients |-> "closed"]
    /\ sent = [c \in Clients |-> <<>>] /\ stream = sent /\ shown = sent /\ reply = {}
NoRelay ==
    /\ relay = "none" /\ at = "end" /\ mode = "none" /\ fds = {} /\ stdio = "terminal"
    /\ addrs = 0 /\ tcp = "-1" /\ todo = Input /\ closed = [i \in Ends |-> FALSE]
    /\ got = [i \in Ends |-> <<>>] /\ held = [i \in Ends |-> 0]
    /\ selected = {} /\ from = 0 /\ buf = <<>> /\ sigint = FALSE

AnyInit ==
    /\ Init
    /\ \/ program = "server"   /\ SockInit /\ NoRelay
       \/ program = "relay"    /\ NoServer /\ RelayInit
       \/ program = "loopback" /\ NoServer /\ NoRelay
AnyNext ==
    /\ UNCHANGED program
    /\ \/ program = "server"   /\ SockNext  /\ UNCHANGED <<relayVars, vars>>
       \/ program = "relay"    /\ RelayNext /\ UNCHANGED <<sockVars, vars>>
       \/ program = "loopback" /\ Next      /\ UNCHANGED <<sockVars, relayVars>>
       \* The others may come to an end or wait for ever; the loopback may not.
       \/ program # "loopback" /\ UNCHANGED <<sockVars, relayVars, vars>>
AnySpec ==
    /\ AnyInit /\ [][AnyNext]_<<program, sockVars, relayVars, vars>>
    /\ SockFair /\ RelayFair
    /\ WF_vars(SetupSecond) /\ WF_vars(Launch) /\ WF_vars(NewDeviceReady)
    /\ WF_vars(Producer) /\ WF_vars(Consumer)
=============================================================================
