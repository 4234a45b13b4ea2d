------------------------------ MODULE Launcher -------------------------------
(***************************************************************************)
(* The program that starts the virtual machines (dpdk/lm/startvm.cpp):     *)
(* options, the table of MAC addresses, and one command per machine with   *)
(* its own and its ports' addresses, display, telnet port and CPUs.        *)
(***************************************************************************)
EXTENDS Integers, Sequences, SequencesExt

CONSTANTS
    MaxByte,       \* MAX_U8_VAL
    TableSize,     \* addresses pregenerated: 1024
    MaxVMs,        \* bound on -num_lm
    MaxPorts,      \* bound on the ports of one machine
    Bases          \* what -display and -telnet_port may be, the default included

\* The carries of the table stay clear of the first byte.
ASSUME LauncherAssumption ==
    /\ {MaxByte, TableSize, MaxVMs, MaxPorts} \subseteq Nat \ {0}
    /\ Bases \subseteq Int
    /\ TableSize <= 2 * (MaxByte + 1) * (MaxByte + 1)

VARIABLES
    step,                      \* "options", "check", "assign", "start", "exit"
    num_lm, ports_per_lm,      \* -1 when not given
    ports_lm_index,            \* <<>> when not given
    dry, root, bridge, lm_vcpu,\* bridge: "no", "incomplete" or "yes"
    ports_index,
    idx_lm, idx_port, display, telnet_port, vcpu_pin_start,
    started                    \* the machines started

optionVars == <<num_lm, ports_per_lm, ports_lm_index, dry, root, bridge, lm_vcpu>>
counters   == <<idx_lm, idx_port, display, telnet_port, vcpu_pin_start>>
launchVars == <<step, optionVars, counters, ports_index, started>>

(***************************************************************************)
(* The last byte counts; its carries go to the parent byte, which moves    *)
(* one to the left when it is full and never comes back.                   *)
(***************************************************************************)
IncrMac(m) ==
    IF m.mac[6] < MaxByte THEN [m EXCEPT !.mac[6] = @ + 1]
    ELSE LET full == m.mac[m.parent] = MaxByte
             p    == IF full THEN m.parent - 1 ELSE m.parent
         IN  [mac |-> [b \in 1..6 |-> CASE b = p -> m.mac[b] + 1
                                        [] b = 6 \/ (full /\ b = m.parent) -> 0
                                        [] OTHER -> m.mac[b]],
              parent |-> p]

MacTable[i \in 0..TableSize] ==
    IF i = 0 THEN [mac |-> <<0, 96, 47, 0, 0, 0>>, parent |-> 5] ELSE IncrMac(MacTable[i - 1])
macaddr(i) == MacTable[i + 1].mac

-----------------------------------------------------------------------------
LaunchInit ==
    /\ step = "options"
    /\ num_lm = -1 /\ ports_per_lm = -1 /\ ports_lm_index = <<>>
    /\ dry = FALSE /\ root \in BOOLEAN /\ bridge = "no" /\ lm_vcpu = FALSE
    /\ idx_lm = 0 /\ idx_port = 0 /\ display = 1000 /\ telnet_port = 1000 /\ vcpu_pin_start = -1
    /\ ports_index = <<>> /\ started = <<>>

\* The addresses of the ports start where those of the machines do.
OptionsSameBase ==
    /\ step = "options" /\ step' = "check"
    /\ num_lm' \in {-1} \cup 0..MaxVMs /\ ports_per_lm' \in {-1} \cup 0..MaxPorts
    /\ ports_lm_index' \in SeqOf(0..MaxPorts, MaxVMs)
    /\ dry' \in BOOLEAN /\ bridge' \in {"no", "incomplete", "yes"} /\ lm_vcpu' \in BOOLEAN
    /\ vcpu_pin_start' \in {-1, 4} /\ display' \in Bases /\ telnet_port' \in Bases
    /\ idx_port' = 0
    /\ UNCHANGED <<root, idx_lm, ports_index, started>>

\* The ports' addresses follow those of the machines: idx_port = num_lm.
Options ==
    /\ step = "options" /\ step' = "check"
    /\ num_lm' \in {-1} \cup 0..MaxVMs /\ ports_per_lm' \in {-1} \cup 0..MaxPorts
    /\ ports_lm_index' \in SeqOf(0..MaxPorts, MaxVMs)
    /\ dry' \in BOOLEAN /\ bridge' \in {"no", "incomplete", "yes"} /\ lm_vcpu' \in BOOLEAN
    /\ vcpu_pin_start' \in {-1, 4} /\ display' \in Bases /\ telnet_port' \in Bases
    /\ idx_port' = IF num_lm' = -1 THEN 0 ELSE num_lm'
    /\ UNCHANGED <<root, idx_lm, ports_index, started>>

\* -help, or an option that is not known: the usage, and the end.
Usage ==
    /\ step = "options" /\ step' = "exit"
    /\ UNCHANGED <<optionVars, counters, ports_index, started>>

CheckOptions ==
    /\ step = "check"
    /\ step' = IF \/ bridge = "incomplete"
                  \/ ~ dry /\ ~ root
                  \/ vcpu_pin_start # -1 /\ ~ lm_vcpu THEN "exit" ELSE "assign"
    /\ UNCHANGED <<optionVars, counters, ports_index, started>>

\* assign_port_indexing, and the test that there is an entry for each machine.
AssignPorts ==
    /\ step = "assign"
    /\ ports_index' = IF ports_lm_index # <<>> THEN ports_lm_index
                      ELSE [i \in 1..(IF num_lm < 0 THEN 0 ELSE num_lm) |-> ports_per_lm]
    /\ step' = IF Len(ports_index') = num_lm THEN "start" ELSE "exit"
    /\ UNCHANGED <<optionVars, counters, started>>

\* One round of the loop over the machines; a count below 0 gives no ports.
StartVM ==
    /\ step = "start" /\ Len(started) < num_lm
    /\ LET i == Len(started) + 1
           n == IF ports_index[i] < 0 THEN 0 ELSE ports_index[i]
       IN  /\ started' = Append(started,
                [mac   |-> macaddr(idx_lm),
                 ports |-> [j \in 1..n |-> macaddr(idx_port + j - 1)],
                 vnc   |-> display, telnet |-> 8900 + telnet_port,
                 cpus  |-> IF vcpu_pin_start = -1 THEN {}
                           ELSE vcpu_pin_start..(vcpu_pin_start + 2 * n - 1)])
           /\ idx_port' = idx_port + n
           /\ vcpu_pin_start' = IF vcpu_pin_start = -1 THEN -1 ELSE vcpu_pin_start + 2 * n
    /\ idx_lm' = idx_lm + 1 /\ display' = display + 1 /\ telnet_port' = telnet_port + 1
    /\ UNCHANGED <<step, optionVars, ports_index>>

LaunchEnd ==
    /\ step = "start" /\ Len(started) >= num_lm /\ step' = "exit"
    /\ UNCHANGED <<optionVars, counters, ports_index, started>>

LaunchNext == Options \/ Usage \/ CheckOptions \/ AssignPorts \/ StartVM \/ LaunchEnd

LaunchSpec == LaunchInit /\ [][LaunchNext]_launchVars

-----------------------------------------------------------------------------
MacsOf(v) == <<v.mac>> \o v.ports

\* No two interfaces, of one machine or of two, get the same MAC address,
\* although machines and ports draw from one table through two indices and the
\* table's carries move from byte to byte, as long as the table, whose end the
\* program never tests for, has an address for each; no two machines share a
\* display, a telnet port or a CPU.
NothingShared ==
    \A a, b \in 1..Len(started) :
      /\ idx_port <= TableSize =>
           \A j \in 1..Len(MacsOf(started[a])), k \in 1..Len(MacsOf(started[b])) :
             MacsOf(started[a])[j] = MacsOf(started[b])[k] => a = b /\ j = k
      /\ a # b =>
           /\ started[a].vnc # started[b].vnc /\ started[a].telnet # started[b].telnet
           /\ started[a].cpus \cap started[b].cpus = {}
=============================================================================
