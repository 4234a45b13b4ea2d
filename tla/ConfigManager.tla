--------------------------- MODULE ConfigManager ---------------------------
(***************************************************************************)
(* vtb::ConfigManager (config_manager.cpp) with the CmdlineParser it owns  *)
(* (cmdline_parser.cpp): init() parses the command line, then the rest of  *)
(* the program keeps typed values in the database and the state of vhost   *)
(* devices and sockets in the port map.                                    *)
(*                                                                         *)
(* A token of the command line is a string; Flags are those that start     *)
(* with '-'.  argv here is argv[1..], without the program's name.          *)
(***************************************************************************)
EXTENDS Integers, Sequences

CONSTANTS
    Flags, Words,      \* tokens that start with '-', and that do not
    MaxArgs,           \* bound: tokens on the command line
    Keys, Types,       \* of the database
    Ports, Fds,        \* port ids and socket descriptors
    MAX_QUEUE_PAIRS,
    CtlMod,            \* stands for 2^16, the range of vd.ctlq_id
    MaxCalls           \* bound: calls after init()

ASSUME ConfigAssumption ==
    /\ Flags \cap Words = {} /\ "--" \in Flags
    /\ MaxArgs \in Nat /\ MAX_QUEUE_PAIRS \in Nat \ {0} /\ MaxCalls \in Nat
    /\ Fds \subseteq Nat /\ CtlMod \in Nat \ {0}

VARIABLES
    manager,     \* "start", "up" when init() returned true, "ended", or "overrun":
                 \* memory outside the arrays of a portmap was written
    argv,
    m_arguments, \* found and value of each argument
    threw,       \* parse() threw
    m_database, pmap,
    calls,       \* how many calls have been made since
    asked, given, \* history: queue states and sockets since the device was set up,
    control      \* and the control descriptor last given to the port

parseVars == <<argv, m_arguments, threw>>
portVars  == <<pmap, asked, given, control>>
cfgVars == <<manager, parseVars, m_database, portVars, calls>>

\* The arguments the constructor registers.
Arguments ==
    << [long |-> "--help",     short |-> "-h", required |-> FALSE, default |-> "false"],
       [long |-> "--portmask", short |-> "-p", required |-> TRUE,  default |-> "0x0"],
       [long |-> "--mode",     short |-> "-m", required |-> FALSE, default |-> "polling"],
       [long |-> "--burst",    short |-> "-b", required |-> FALSE, default |-> "32"] >>

Args == 1..Len(Arguments)
Help == 1

\* The arguments a token names: one or none.
Named(token) == {a \in Args : token \in {Arguments[a].long, Arguments[a].short}}

\* An argument is named by a flag, never by a word.
ASSUME NamesAssumption == \A token \in Words : Named(token) = {}

Default == [a \in Args |-> [found |-> FALSE, value |-> Arguments[a].default]]

-----------------------------------------------------------------------------
(***************************************************************************)
(* CmdlineParser::parse.                                                   *)
(***************************************************************************)

\* Where the options of the application begin: behind the first "--".
StartIndex(av) ==
    LET ends == {i \in 1..Len(av) : av[i] = "--"}
    IN  IF ends = {} THEN Len(av) + 1
        ELSE (CHOOSE i \in ends : \A j \in ends : i <= j) + 1

\* The value that was taken is looked at again.
TurnOnce(s, av) ==
    LET hits == Named(av[s.i])
        a    == CHOOSE b \in hits : TRUE
        next == s.i + 1
    IN  IF hits = {} THEN [s EXCEPT !.threw = TRUE]
        ELSE IF next <= Len(av) /\ av[next] \notin Flags
        THEN [s EXCEPT !.i = next, !.args[a] = [found |-> TRUE, value |-> av[next]]]
        ELSE [s EXCEPT !.i = next, !.args[a].found = TRUE,
                       !.threw = Arguments[a].required /\ s.args[a].value = ""]

\* One turn of the loop over the options: the token must name an argument,
\* and takes the next token for its value unless that starts with '-'.
Turn(s, av) ==
    LET hits == Named(av[s.i])
        a    == CHOOSE b \in hits : TRUE
        next == s.i + 1
    IN  IF hits = {} THEN [s EXCEPT !.threw = TRUE]
        ELSE IF next <= Len(av) /\ av[next] \notin Flags
        THEN [s EXCEPT !.i = next + 1, !.args[a] = [found |-> TRUE, value |-> av[next]]]
        ELSE [s EXCEPT !.i = next, !.args[a].found = TRUE,
                       !.threw = Arguments[a].required /\ s.args[a].value = ""]

\* The loop, and the check that no required argument is missing.
Parse(av) ==
    LET turn[k \in 0..Len(av)] ==
          IF k = 0 THEN [i |-> StartIndex(av), args |-> Default, threw |-> FALSE]
          ELSE IF turn[k - 1].threw \/ turn[k - 1].i > Len(av) THEN turn[k - 1]
          ELSE Turn(turn[k - 1], av)
        s == turn[Len(av)]
    IN  [args  |-> s.args,
         threw |-> s.threw \/ \E a \in Args : Arguments[a].required /\ ~ s.args[a].found]

\* get<bool>.
IsTrue(value) == value \in {"true", "1", "yes", "-h", "--help"}

-----------------------------------------------------------------------------
\* A command line is given; the object is constructed.
CfgInit ==
    /\ manager = "start"
    /\ \E n \in 0..MaxArgs : argv \in [1..n -> Flags \cup Words]
    /\ m_arguments = Default /\ threw = FALSE
    /\ m_database = [k \in Keys |-> "none"] /\ pmap = [p \in {} |-> {}]
    /\ calls = 0 /\ asked = [p \in Ports |-> {}] /\ given = [p \in Ports |-> <<>>]
    /\ control = [p \in Ports |-> 0]

\* ConfigManager::init: what parse() throws is caught here.  main() goes on only
\* when init() returns true.
InitConfig ==
    /\ manager = "start"
    /\ LET r  == Parse(argv)
           ok == ~ r.threw /\ ~ IsTrue(r.args[Help].value)
       IN  /\ m_arguments' = r.args /\ threw' = r.threw
           /\ manager' = IF ok THEN "up" ELSE "ended"
    /\ UNCHANGED <<argv, m_database, portVars, calls>>

-----------------------------------------------------------------------------
(***************************************************************************)
(* Calls after init(), each under a bound on their number.                 *)
(***************************************************************************)
Call == /\ manager = "up" /\ calls < MaxCalls
        /\ calls' = calls + 1
        /\ UNCHANGED <<manager, parseVars>>

\* An index outside qp[]: what is overwritten is undefined, and the model ends.
Overrun ==
    /\ manager = "up" /\ calls < MaxCalls
    /\ manager' = "overrun" /\ calls' = calls + 1
    /\ UNCHANGED <<parseVars, m_database, portVars>>

\* setValue<T>: the value is kept with its type.
SetValue(k, t) ==
    /\ Call
    /\ m_database' = [m_database EXCEPT ![k] = t]
    /\ UNCHANGED portVars

Pairs == 0..(MAX_QUEUE_PAIRS - 1)

\* A portmap that operator[] makes: all zero.
NewPort == [vid |-> 0, nof_queue_pairs |-> 0, ready |-> FALSE, vctl |-> 0, pctl |-> 0,
            vrx |-> [i \in Pairs |-> 0], vtx |-> [i \in Pairs |-> 0],
            rx_enabled |-> [i \in Pairs |-> FALSE], tx_enabled |-> [i \in Pairs |-> FALSE],
            prx |-> [i \in Pairs |-> 0], ptx |-> [i \in Pairs |-> 0]]

\* pmap[port_id].
At(port_id) == IF port_id \in DOMAIN pmap THEN pmap[port_id] ELSE NewPort

\* pmap with a new content for a port.
Store(port_id, pm) ==
    [p \in DOMAIN pmap \cup {port_id} |-> IF p = port_id THEN pm ELSE pmap[p]]

\* The queues and sockets keep what they had with the previous device.
InitVhostDeviceKeeps(port_id, vid, nof_pairs) ==
    /\ Call /\ nof_pairs <= MAX_QUEUE_PAIRS
    /\ LET old == At(port_id)
           set(f, g(_)) == [i \in Pairs |-> IF i < nof_pairs THEN g(i) ELSE f[i]]
       IN  pmap' = Store(port_id,
             [old EXCEPT !.vid = vid, !.nof_queue_pairs = nof_pairs, !.ready = TRUE,
                !.vrx = set(@, LAMBDA i : 2 * i), !.vtx = set(@, LAMBDA i : 2 * i + 1)])
    /\ asked' = [asked EXCEPT ![port_id] = {}]
    /\ given' = [given EXCEPT ![port_id] = [i \in Pairs |-> -1]]
    /\ UNCHANGED <<control, m_database>>

\* A device is set up: its queues are disabled and have no sockets.  Only the
\* pairs it has are touched, and the control path not at all.
InitVhostDevice(port_id, vid, nof_pairs) ==
    /\ Call /\ nof_pairs <= MAX_QUEUE_PAIRS
    /\ LET old == At(port_id)
           set(f, g(_)) == [i \in Pairs |-> IF i < nof_pairs THEN g(i) ELSE f[i]]
       IN  pmap' = Store(port_id,
             [vid |-> vid, nof_queue_pairs |-> nof_pairs, ready |-> TRUE,
              vctl |-> old.vctl, pctl |-> old.pctl,
              vrx |-> set(old.vrx, LAMBDA i : 2 * i),
              vtx |-> set(old.vtx, LAMBDA i : 2 * i + 1),
              rx_enabled |-> set(old.rx_enabled, LAMBDA i : FALSE),
              tx_enabled |-> set(old.tx_enabled, LAMBDA i : FALSE),
              prx |-> set(old.prx, LAMBDA i : -1), ptx |-> set(old.ptx, LAMBDA i : -1)])
    /\ asked' = [asked EXCEPT ![port_id] = {}]
    /\ given' = [given EXCEPT ![port_id] = [i \in Pairs |-> -1]]
    /\ UNCHANGED <<control, m_database>>

\* The number of pairs is not compared with the size of qp[].
InitVhostDeviceOverruns(nof_pairs) == nof_pairs > MAX_QUEUE_PAIRS /\ Overrun

\* The first pair that has the queue, as its receive or as its transmit queue.
SetQueueState(port_id, vring_id, enable) ==
    /\ Call
    /\ pmap' =
         IF port_id \notin DOMAIN pmap THEN pmap
         ELSE LET pm   == pmap[port_id]
                  hits == {i \in 0..(pm.nof_queue_pairs - 1) : vring_id \in {pm.vrx[i], pm.vtx[i]}}
                  i    == CHOOSE j \in hits : \A k \in hits : j <= k
              IN  IF hits = {} THEN pmap
                  ELSE IF pm.vrx[i] = vring_id
                  THEN [pmap EXCEPT ![port_id].rx_enabled[i] = enable]
                  ELSE [pmap EXCEPT ![port_id].tx_enabled[i] = enable]
    /\ asked' = [asked EXCEPT ![port_id] = IF enable THEN @ \cup {vring_id}
                                                     ELSE @ \ {vring_id}]
    /\ UNCHANGED <<given, control, m_database>>

\* One socket for both directions of a pair.
AssignPortSocket(port_id, qp_idx, socket_fd) ==
    /\ Call /\ qp_idx >= 0
    /\ IF port_id \in DOMAIN pmap /\ qp_idx < MAX_QUEUE_PAIRS
       THEN /\ pmap' = [pmap EXCEPT ![port_id].prx[qp_idx] = socket_fd,
                                    ![port_id].ptx[qp_idx] = socket_fd,
                                    ![port_id].ready = (@ \/ qp_idx = 0)]
            /\ given' = [given EXCEPT ![port_id] = [@ EXCEPT ![qp_idx] = socket_fd]]
       ELSE UNCHANGED <<pmap, given>>
    /\ UNCHANGED <<asked, control, m_database>>

\* The index is compared with the size of qp[], not with 0.
AssignPortSocketUnderruns(port_id, qp_idx) ==
    port_id \in DOMAIN pmap /\ qp_idx < 0 /\ Overrun

\* The logical id is the descriptor cut to 16 bits.
AssignControlPath(port_id, ctl_fd) ==
    /\ Call
    /\ IF port_id \in DOMAIN pmap
       THEN /\ pmap' = [pmap EXCEPT ![port_id].vctl = ctl_fd % CtlMod,
                                    ![port_id].pctl = ctl_fd]
            /\ control' = [control EXCEPT ![port_id] = ctl_fd]
       ELSE UNCHANGED <<pmap, control>>
    /\ UNCHANGED <<asked, given, m_database>>

Return ==
    /\ manager = "up" /\ manager' = "ended"
    /\ UNCHANGED <<parseVars, m_database, portVars, calls>>

Ended == manager \in {"ended", "overrun"} /\ UNCHANGED cfgVars

CfgNext ==
    \/ InitConfig \/ Return \/ Ended
    \/ \E k \in Keys, t \in Types : SetValue(k, t)
    \/ \E p \in Ports :
         \/ \E n \in 0..(MAX_QUEUE_PAIRS + 1) :
              InitVhostDevice(p, p, n) \/ InitVhostDeviceOverruns(n)
         \/ \E q \in 0..(2 * MAX_QUEUE_PAIRS - 1), e \in BOOLEAN : SetQueueState(p, q, e)
         \/ \E i \in -1..MAX_QUEUE_PAIRS :
              \/ \E fd \in Fds : AssignPortSocket(p, i, fd)
              \/ AssignPortSocketUnderruns(p, i)
         \/ \E fd \in Fds : AssignControlPath(p, fd)

CfgSpec == CfgInit /\ [][CfgNext]_cfgVars

-----------------------------------------------------------------------------
(***************************************************************************)
(* What the command line means, without the loop: a flag is always a name, *)
(* a word is the value of the flag before it.                              *)
(***************************************************************************)
Options(av) == SubSeq(av, StartIndex(av), Len(av))

\* The places at which argument a is named, and those with a value behind them.
Uses(a, os)   == {k \in 1..Len(os) : a \in Named(os[k])}
Valued(a, os) == {k \in Uses(a, os) : k < Len(os) /\ os[k + 1] \in Words}

\* The value argument a has before place k.
ValueBefore(a, os, k) ==
    LET set == {j \in Valued(a, os) : j < k}
    IN  IF set = {} THEN Arguments[a].default
        ELSE os[(CHOOSE j \in set : \A i \in set : i <= j) + 1]

BadOptions(os) ==
    \/ \E k \in 1..Len(os) :
         IF os[k] \in Flags THEN Named(os[k]) = {} ELSE k = 1 \/ os[k - 1] \in Words
    \/ \E a \in Args :
         /\ Arguments[a].required
         /\ \/ Uses(a, os) = {}
            \/ \E k \in Uses(a, os) \ Valued(a, os) : ValueBefore(a, os, k) = ""

\* The loop accepts exactly the option lists in which every flag is known,
\* every word follows a flag and the required argument is there, and each
\* argument ends with the value of its last use that has one.
ParseCorrect ==
    manager # "start" =>
      LET os == Options(argv) IN
        /\ threw <=> BadOptions(os)
        /\ ~ threw => \A a \in Args :
             /\ m_arguments[a].found <=> Uses(a, os) # {}
             /\ m_arguments[a].value = ValueBefore(a, os, Len(os) + 1)

\* Each queue of the present device has the state last asked for and each of
\* its pairs the socket last given since it was set up.
QueuesFollow ==
    \A p \in DOMAIN pmap : \A i \in 0..(pmap[p].nof_queue_pairs - 1) :
      /\ pmap[p].rx_enabled[i] = (2 * i \in asked[p])
      /\ pmap[p].tx_enabled[i] = (2 * i + 1 \in asked[p])
      /\ pmap[p].prx[i] = given[p][i] /\ pmap[p].ptx[i] = given[p][i]

\* The control path is the one last given to the port, by whichever device: the
\* id is its low 16 bits.
ControlFollows ==
    \A p \in DOMAIN pmap :
      pmap[p].pctl = control[p] /\ pmap[p].vctl = control[p] % CtlMod

\* Through any calls for any ports, with devices that are set up again with
\* more or fewer queues: of the device before, the queues and sockets of the
\* present one show nothing, and only the control path stays.  Until memory is
\* overrun: then nothing is said.
PortmapFollowsCalls == manager # "overrun" => QueuesFollow /\ ControlFollows
=============================================================================
