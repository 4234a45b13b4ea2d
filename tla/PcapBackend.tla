----------------------------- MODULE PcapBackend -----------------------------
(***************************************************************************)
(* The back end of code_dump/vm_tap/bkend.c (and its copy in nonm/): that  *)
(* of bkend/bkend.c, whose requests and rings are the actions of           *)
(* VhostBackend, with a dequeue thread that also writes the header of a    *)
(* capture file to a FIFO once it has its first frame.  The test of fhdone *)
(* and the write that sets it are two steps of the thread.                 *)
(***************************************************************************)
EXTENDS VhostBackend

VARIABLES
    reader,        \* some process has the FIFO open for reading (external)
    wspipe,        \* open() gave a descriptor, not -1
    fhdone,        \* the header has been written
    pipe,          \* what was written to the FIFO
    place          \* where each thread is between frame and used ring

pipeVars == <<reader, wspipe, fhdone, pipe, place>>
allVars  == <<vars, pipeVars>>

Threads == 1..MaxWorkers

\* main(): a non-blocking open for writing fails when nobody reads.
PInit ==
    /\ Init
    /\ reader \in BOOLEAN /\ wspipe = reader
    /\ fhdone = FALSE /\ pipe = <<>>
    /\ place = [w \in Threads |-> "idle"]

\* The requests, by their place in process_vhost_msg.
PFeatures == GetFeatures \/ SetFeatures
PMemory   == SetMemTable
PRings    == SetVringNum \/ SetVringAddr \/ SetVringBase
PStop     == GetVringBase
PEvents   == SetVringKick \/ SetVringCall
PProtocol == GetProtocolFeatures
PEnable   == SetVringEnable
PIgnored  == NotImplemented
PClosed   == Disconnect

PServer == /\ \/ PFeatures \/ PMemory \/ PRings \/ PStop
              \/ PEvents \/ PProtocol \/ PEnable \/ PIgnored
           /\ UNCHANGED pipeVars

\* Copy and print a frame; the header comes next unless the frame ended the
\* process.
Frame(w) ==
    /\ WFetch(w)
    /\ place' = [place EXCEPT ![w] = IF exited' THEN "idle" ELSE "test"]
    /\ UNCHANGED <<reader, wspipe, fhdone, pipe>>

\* if (fhdone == 0)
TestHeader(w) ==
    /\ ~ exited /\ place[w] = "test"
    /\ place' = [place EXCEPT ![w] = IF fhdone THEN "idle" ELSE "write"]
    /\ UNCHANGED <<vars, reader, wspipe, fhdone, pipe>>

\* write() to a FIFO nobody reads raises SIGPIPE, which ends the process; on
\* descriptor -1 it fails and the header is taken for written.
WriteHeader(w) ==
    /\ ~ exited /\ place[w] = "write"
    /\ pipe' = IF wspipe /\ reader THEN Append(pipe, "file_header") ELSE pipe
    /\ exited' = (wspipe /\ ~ reader)
    /\ fhdone' = TRUE
    /\ place' = [place EXCEPT ![w] = "idle"]
    /\ UNCHANGED <<peerVars, toPeer, deviceVars, workerVars, ringVars, driverVars,
                   reader, wspipe>>

PWorker(w) ==
    \/ Frame(w) \/ TestHeader(w) \/ WriteHeader(w)
    \/ /\ WCheck(w) \/ WPublish(w) \/ (place[w] = "idle" /\ WReturn(w))
       /\ UNCHANGED pipeVars

\* The program at the other end of the FIFO goes away (external).
ReaderLeaves ==
    /\ reader /\ reader' = FALSE
    /\ UNCHANGED <<vars, wspipe, fhdone, pipe, place>>

PNext ==
    \/ PServer \/ ReaderLeaves
    \/ \E w \in Threads : PWorker(w)
    \/ /\ \/ PClosed \/ PeerRead \/ DriverReset \/ Reclaim \/ Terminated
          \/ \E d \in Descs, c \in Chains : Post(d, c)
       /\ UNCHANGED pipeVars

PSpec == PInit /\ [][PNext]_allVars

\* "send file header to pipe. should be done only once once" (vm_tap/bkend.c).
\* True of a guest that boots once.  At the next start there is a second thread,
\* which can pass the test of fhdone before the first has set it.
HeaderOnce == Len(pipe) <= 1
=============================================================================
