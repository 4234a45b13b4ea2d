------------------------------- MODULE MCTools -------------------------------
(* One of six independent programs or algorithms runs in each behaviour;    *)
(* the others stay where they begin.                                        *)
EXTENDS Launcher, Enqueue, Receivers, Sniffer, VhostMemory, RobustBackend
VARIABLE tool
M == <<0>>
F == <<1, 2, 3>>
C == {[p |-> "tcp", n |-> 1], [p |-> "udp", n |-> 0], [p |-> "tcp", n |-> 2]}

Init ==
    /\ tool \in {"launcher", "enqueue", "receivers", "sniffer", "memory", "robust"}
    /\ LaunchInit /\ EnqInit /\ RecvInit /\ SniffInit /\ MemInit /\ RobInit
    /\ tool # "launcher"  => root
    /\ tool # "enqueue"   => desc = [d \in Slots |-> [len |-> 2, next |-> None, write |-> TRUE]]
    /\ tool # "receivers" => rprog = "vid"
    /\ tool # "sniffer"   => sniffer = "raw" /\ buffer[1].n = 0
Next ==
    /\ UNCHANGED tool
    /\ \/ tool = "launcher"  /\ LaunchNext /\ UNCHANGED <<enqVars, recvVars, sniffVars, memVars, robVars>>
       \/ tool = "enqueue"   /\ EnqNext    /\ UNCHANGED <<launchVars, recvVars, sniffVars, memVars, robVars>>
       \/ tool = "receivers" /\ RecvNext   /\ UNCHANGED <<launchVars, enqVars, sniffVars, memVars, robVars>>
       \/ tool = "sniffer"   /\ SniffNext  /\ UNCHANGED <<launchVars, enqVars, recvVars, memVars, robVars>>
       \/ tool = "memory"    /\ MemNext    /\ UNCHANGED <<launchVars, enqVars, recvVars, sniffVars, robVars>>
       \/ tool = "robust"    /\ RobNext    /\ UNCHANGED <<launchVars, enqVars, recvVars, sniffVars, memVars>>
vars == <<tool, launchVars, enqVars, recvVars, sniffVars, memVars, robVars>>

\* The receivers poll without end and a port sends what it has taken; the back
\* end's main thread and the event thread of the library are scheduled.
Spec ==
    /\ Init /\ [][Next]_vars
    /\ WF_recvVars(tool = "receivers" /\ Work) /\ WF_recvVars(tool = "receivers" /\ TxDone)
    /\ WF_robVars(tool = "robust" /\ Main) /\ WF_robVars(tool = "robust" /\ Worker)
    /\ WF_robVars(tool = "robust" /\ TakeDown)
    /\ WF_robVars(tool = "robust" /\ DestroyDeviceReady)
=============================================================================
