------------------------------- MODULE Logger -------------------------------
(***************************************************************************)
(* The asynchronous Logger of vtb (logger.cpp) and the LogStream in front  *)
(* of it (messenger.cpp).  Any thread appends messages to a buffer under a *)
(* mutex; a flush thread takes the buffer every 100 ms and writes it to    *)
(* the standard output and, if it could be opened, to a file.  The static  *)
(* destructor stops the thread, which drains the buffer a last time.       *)
(*                                                                         *)
(* The buffer is touched only under the mutex, so a critical section is    *)
(* one step.                                                               *)
(***************************************************************************)
EXTENDS Integers, Sequences

CONSTANTS
    Writers,    \* threads that log
    MaxMsgs     \* bound: messages

ASSUME LoggerAssumption == MaxMsgs \in Nat

VARIABLES
    main,       \* what the thread that runs main() does with the Logger
    m_level, m_file, m_running, m_initialized, m_buffer,
    wpc, wmsg,  \* each writer's place in ~LogStream and log(), and its message
    sent,       \* messages made so far
    fpc, to_write, last,   \* the flush thread, its local, and whether it is the final drain
    cout, file, \* what has been written
    accepted,   \* history: the messages in the order they got into the buffer
    due         \* history: how many of them there were when ~Logger began

stateVars  == <<m_level, m_file, m_running, m_initialized>>
writerVars == <<wpc, wmsg, sent>>
flushVars  == <<fpc, to_write, last>>
outVars    == <<cout, file>>
vars == <<main, stateVars, m_buffer, writerVars, flushVars, outVars, accepted, due>>

DEFAULT == 0
FULL    == 1
Levels  == {DEFAULT, FULL}
Ids     == 1..MaxMsgs

Init ==
    /\ main = "start"
    /\ m_level = DEFAULT /\ m_file = "closed" /\ m_running = FALSE /\ m_initialized = FALSE
    /\ m_buffer = <<>>
    /\ wpc = [w \in Writers |-> "idle"] /\ wmsg = [w \in Writers |-> [id |-> 0, level |-> 0]]
    /\ sent = 0
    /\ fpc = "none" /\ to_write = <<>> /\ last = FALSE
    /\ cout = <<>> /\ file = <<>> /\ accepted = <<>> /\ due = 0

-----------------------------------------------------------------------------
(***************************************************************************)
(* init(): the first call wins; the others return at once.                 *)
(***************************************************************************)
InitOnce ==
    /\ main = "start" /\ ~ m_initialized
    /\ m_initialized' = TRUE /\ main' = "level"
    /\ UNCHANGED <<m_level, m_file, m_running, m_buffer, writerVars, flushVars, outVars,
                   accepted, due>>

\* The level and the file; without a name, or if it cannot be opened, there is
\* no file.
InitOpen ==
    /\ main = "level"
    /\ m_level' \in Levels /\ m_file' \in {"open", "closed"}
    /\ main' = "thread"
    /\ UNCHANGED <<m_running, m_initialized, m_buffer, writerVars, flushVars, outVars,
                   accepted, due>>

\* The thread is started before it is told to run.
InitThreadStopped ==
    /\ main = "thread"
    /\ fpc' = "loop" /\ main' = "up"
    /\ UNCHANGED <<stateVars, m_buffer, writerVars, to_write, last, outVars, accepted, due>>

InitThread ==
    /\ main = "thread"
    /\ m_running' = TRUE /\ fpc' = "loop" /\ main' = "up"
    /\ UNCHANGED <<m_level, m_file, m_initialized, m_buffer, writerVars, to_write, last,
                   outVars, accepted, due>>

-----------------------------------------------------------------------------
(***************************************************************************)
(* ~LogStream and log().                                                   *)
(***************************************************************************)
\* A message of level l: the stream looks at the level first.
LogStream(w, l) ==
    /\ main # "destroyed" /\ wpc[w] = "idle" /\ sent < MaxMsgs
    /\ sent' = sent + 1
    /\ wmsg' = [wmsg EXCEPT ![w] = [id |-> sent + 1, level |-> l]]
    /\ wpc' = [wpc EXCEPT ![w] = IF l <= m_level THEN "log" ELSE "idle"]
    /\ UNCHANGED <<main, stateVars, m_buffer, flushVars, outVars, accepted, due>>

\* log() looks again, takes the mutex and appends.
Log(w) ==
    /\ main # "destroyed" /\ wpc[w] = "log"
    /\ IF wmsg[w].level <= m_level
       THEN /\ m_buffer' = Append(m_buffer, wmsg[w].id)
            /\ accepted' = Append(accepted, wmsg[w].id)
       ELSE UNCHANGED <<m_buffer, accepted>>
    /\ wpc' = [wpc EXCEPT ![w] = "idle"]
    /\ UNCHANGED <<main, stateVars, wmsg, sent, flushVars, outVars, due>>

-----------------------------------------------------------------------------
(***************************************************************************)
(* flushLoop().                                                            *)
(***************************************************************************)
\* The thread ends as soon as it is told to, without the final drain.
FLoopNoDrain ==
    /\ fpc = "loop"
    /\ fpc' = IF m_running THEN "swap" ELSE "ended"
    /\ UNCHANGED <<main, stateVars, m_buffer, writerVars, to_write, last, outVars,
                   accepted, due>>

\* while (m_running), then the sleep.
FLoop ==
    /\ fpc = "loop"
    /\ fpc' = IF m_running THEN "swap" ELSE "drain"
    /\ UNCHANGED <<main, stateVars, m_buffer, writerVars, to_write, last, outVars,
                   accepted, due>>

\* The buffer is read and not cleared.
FSwapKeeps ==
    /\ fpc = "swap"
    /\ to_write' = m_buffer
    /\ fpc' = IF m_buffer = <<>> THEN "loop" ELSE "cout"
    /\ UNCHANGED <<main, stateVars, m_buffer, writerVars, last, outVars, accepted, due>>

\* Take what is in the buffer, in one critical section.
FSwap ==
    /\ fpc = "swap"
    /\ to_write' = m_buffer /\ m_buffer' = <<>>
    /\ fpc' = IF m_buffer = <<>> THEN "loop" ELSE "cout"
    /\ UNCHANGED <<main, stateVars, writerVars, last, outVars, accepted, due>>

\* The final drain: the buffer is read and stays as it is.
FDrain ==
    /\ fpc = "drain"
    /\ to_write' = m_buffer /\ last' = TRUE
    /\ fpc' = IF m_buffer = <<>> THEN "ended" ELSE "cout"
    /\ UNCHANGED <<main, stateVars, m_buffer, writerVars, outVars, accepted, due>>

AfterWrite == IF last THEN "ended" ELSE "loop"

FCout ==
    /\ fpc = "cout"
    /\ cout' = cout \o to_write
    /\ fpc' = IF m_file = "open" THEN "file" ELSE AfterWrite
    /\ UNCHANGED <<main, stateVars, m_buffer, writerVars, to_write, last, file,
                   accepted, due>>

\* What came into the buffer since is written instead.
FFileBuffer ==
    /\ fpc = "file"
    /\ file' = file \o m_buffer
    /\ fpc' = AfterWrite
    /\ UNCHANGED <<main, stateVars, m_buffer, writerVars, to_write, last, cout,
                   accepted, due>>

FFile ==
    /\ fpc = "file"
    /\ file' = file \o to_write
    /\ fpc' = AfterWrite
    /\ UNCHANGED <<main, stateVars, m_buffer, writerVars, to_write, last, cout,
                   accepted, due>>

Flusher == FLoop \/ FSwap \/ FDrain \/ FCout \/ FFile

-----------------------------------------------------------------------------
(***************************************************************************)
(* ~Logger, when main() has returned.                                      *)
(***************************************************************************)
\* The thread is not told to stop.
DestroyKeepsRunning ==
    /\ main = "up"
    /\ main' = "join" /\ due' = Len(accepted)
    /\ UNCHANGED <<stateVars, m_buffer, writerVars, flushVars, outVars, accepted>>

Destroy ==
    /\ main = "up"
    /\ m_running' = FALSE /\ main' = "join" /\ due' = Len(accepted)
    /\ UNCHANGED <<m_level, m_file, m_initialized, m_buffer, writerVars, flushVars, outVars,
                   accepted>>

Join ==
    /\ main = "join" /\ fpc = "ended"
    /\ main' = "destroyed"
    /\ UNCHANGED <<stateVars, m_buffer, writerVars, flushVars, outVars, accepted, due>>

Terminated == main = "destroyed" /\ UNCHANGED vars

Next ==
    \/ InitOnce \/ InitOpen \/ InitThread \/ Destroy \/ Join \/ Terminated
    \/ \E w \in Writers : Log(w) \/ \E l \in Levels : LogStream(w, l)
    \/ Flusher

Spec == Init /\ [][Next]_vars

\* The flush thread runs and join() returns when it can.  Nobody has to log
\* and main() need not return.
FairSpec == Spec /\ WF_vars(Flusher) /\ WF_vars(Join)

-----------------------------------------------------------------------------
\* What the flush thread has taken out of the buffer and not yet shown.
InHand == IF fpc = "cout" THEN to_write ELSE <<>>

TypeOK ==
    /\ main \in {"start", "level", "thread", "up", "join", "destroyed"}
    /\ m_level \in Levels /\ m_file \in {"open", "closed"}
    /\ m_running \in BOOLEAN /\ m_initialized \in BOOLEAN
    /\ m_buffer \in Seq(Ids) /\ to_write \in Seq(Ids)
    /\ wpc \in [Writers -> {"idle", "log"}]
    /\ wmsg \in [Writers -> [id : 0..MaxMsgs, level : Levels]] /\ sent \in 0..MaxMsgs
    /\ \A w \in Writers : wpc[w] = "log" => wmsg[w].id \in Ids
    /\ fpc \in {"none", "loop", "swap", "drain", "cout", "file", "ended"} /\ last \in BOOLEAN
    /\ cout \in Seq(Ids) /\ file \in Seq(Ids) /\ accepted \in Seq(Ids) /\ due \in Nat

\* Where the threads are together.
Phases ==
    /\ m_running = (main = "up")
    /\ fpc = "none" <=> main \in {"start", "level", "thread"}
    /\ fpc = "none" => cout = <<>> /\ file = <<>>
    /\ fpc = "file" => m_file = "open"
    /\ fpc = "drain" => main \in {"join", "destroyed"}
    /\ last => main \in {"join", "destroyed"} /\ fpc \in {"cout", "file", "ended"}
    /\ fpc = "ended" => last
    /\ main = "destroyed" => fpc = "ended"

\* Where each accepted message is: shown, in hand or in the buffer.  From the
\* final drain on the buffer no longer counts.
Kept ==
    /\ ~ last => accepted = cout \o (InHand \o m_buffer)
    /\ last => \E rest \in Seq(Ids) : accepted = (cout \o InHand) \o rest

\* How far the final drain goes.
Owed ==
    /\ main \in {"join", "destroyed"} => due <= Len(accepted)
    /\ last => due <= Len(cout) + Len(InHand)

\* The file gets what the standard output gets: they differ at most by the
\* chunk that is being written.
FileFollows ==
    /\ m_file = "closed" => file = <<>>
    /\ m_file = "open" => cout = IF fpc = "file" THEN file \o to_write ELSE file

\* "Final drain": what was logged before the destructor began is on the
\* standard output when it has ended, wherever in its loop the flush thread
\* was; what other threads log meanwhile may be lost.
DrainComplete == main = "destroyed" => Len(cout) >= due

Log_ == INSTANCE WriteBehind WITH Messages <- Ids, written <- cout

\* Several writers, the buffer and the flush thread together write what was
\* logged, in order and once.
ImplementsLog == Log_!WBSpec

\* A message that is logged while the program runs is shown, also if the
\* destructor overtakes it.
Shown == \A k \in Ids : main = "up" /\ Len(accepted) >= k ~> Len(cout) >= k

\* The destructor returns.
DestroyEnds == main = "join" ~> main = "destroyed"
=============================================================================
