------------------------------- MODULE Enqueue -------------------------------
(***************************************************************************)
(* The enqueue thread of the vhost-user back end (bkend/bkend.c): it fills *)
(* NBufs receive buffers of the guest with metadata and one frame and      *)
(* gives them back one by one.  The guest posts buffers, takes each as     *)
(* soon as it is given back, puts NBufs of them together, as the metadata  *)
(* tells it, and posts them again.                                         *)
(***************************************************************************)
EXTENDS Integers, Sequences, SequencesExt, FiniteSetsExt

CONSTANTS
    Size,          \* entries of the ring
    NBufs,         \* nbufs
    Meta, Frame,   \* what is written: the metadata and the frame
    BufLens,       \* lengths a buffer may have
    Frames,        \* NUM_RX_FRAMES
    MaxPosts       \* bound on the buffers the guest posts

ASSUME EnqueueAssumption ==
    /\ {Size, NBufs, Frames, MaxPosts} \subseteq Nat \ {0} /\ NBufs <= Size
    /\ Meta \in Seq(Nat) /\ Frame \in Seq(Nat)
    /\ BufLens \subseteq Nat

Slots == 0..(Size - 1)
None  == -1

VARIABLES
    desc,               \* len, next and whether the device may write it
    ring, avail_idx,    \* the avail ring
    used, used_idx,     \* the used ring: id and len
    last_avail_idx, last_used_idx,
    epc,                \* "poll", "collect", "fill", "kick", "exited", "aborted"
    cursor, buf_vec,    \* the descriptor to look at, and those collected
    a_idx,              \* the avail entry the cursor came from
    cnt, written_len,   \* the buffer to fill, and how much of the frame is written
    mem,                \* what each buffer holds
    rxcnt, kicked,
    owned, taken,       \* the guest: buffers it owns, used entries it has taken
    part, room,         \* the bytes of the frame it puts together, and those its
                        \* buffers have room for
    short,              \* an entry the guest had not posted has been used
    spilled             \* more was written to a buffer than it holds

ringVars  == <<desc, ring, avail_idx, used, used_idx>>
guestVars == <<owned, taken, part, room>>
faultVars == <<short, spilled>>
loopVars  == <<cursor, buf_vec, a_idx, cnt, written_len>>
enqVars   == <<ringVars, last_avail_idx, last_used_idx, epc, loopVars, mem, rxcnt, kicked,
               guestVars, faultVars>>

\* A guest with mergeable buffers posts single descriptors; the one chain,
\* and the one read-only buffer, are what the thread looks for besides.
EnqInit ==
    /\ \E len \in [Slots -> BufLens], next \in {None, 1}, w \in BOOLEAN :
         desc = [d \in Slots |-> [len |-> len[d], next |-> IF d = 0 THEN next ELSE None,
                                  write |-> w \/ d # Size - 1]]
    /\ ring = [s \in Slots |-> 0] /\ avail_idx = 0
    /\ used = [s \in Slots |-> <<0, 0>>] /\ used_idx = 0
    /\ last_avail_idx = 0 /\ last_used_idx = 0 /\ epc = "poll"
    /\ cursor = 0 /\ buf_vec = <<>> /\ a_idx = 0 /\ cnt = 0 /\ written_len = 0
    /\ mem = [d \in Slots |-> <<>>] /\ rxcnt = 0 /\ kicked = FALSE
    /\ owned = Slots /\ taken = 0 /\ part = <<>> /\ room = 0
    /\ short = FALSE /\ spilled = FALSE

-----------------------------------------------------------------------------
\* One buffer posted is enough for the thread to start on NBufs of them.
Poll ==
    /\ epc = "poll" /\ last_avail_idx # avail_idx
    /\ a_idx' = last_avail_idx /\ cursor' = ring[last_avail_idx % Size]
    /\ buf_vec' = <<>> /\ cnt' = 0 /\ written_len' = 0 /\ epc' = "collect"
    /\ short' = (short \/ last_avail_idx > avail_idx)
    /\ UNCHANGED <<ringVars, last_avail_idx, last_used_idx, mem, rxcnt, kicked, guestVars,
                   spilled>>

\* The chain, or whatever the next entry of the ring holds.
Collect ==
    /\ epc = "collect"
    /\ IF ~ desc[cursor].write
       THEN epc' = "aborted" /\ UNCHANGED <<cursor, buf_vec, a_idx, short>>
       ELSE /\ buf_vec' = Append(buf_vec, cursor)
            /\ epc' = IF Len(buf_vec') = NBufs THEN "fill" ELSE "collect"
            /\ IF desc[cursor].next # None
               THEN cursor' = desc[cursor].next /\ UNCHANGED <<a_idx, short>>
               ELSE /\ a_idx' = a_idx + 1 /\ cursor' = ring[(a_idx + 1) % Size]
                    /\ short' = (short \/ (epc' = "collect" /\ a_idx + 1 >= avail_idx))
    /\ UNCHANGED <<ringVars, last_avail_idx, last_used_idx, cnt, written_len, mem, rxcnt,
                   kicked, guestVars, spilled>>

\* What fits into a buffer of length len behind the metadata: the difference is
\* unsigned, so that a buffer too short for the metadata takes all the rest.
Chunk(len, meta) ==
    LET rest == Len(Frame) - written_len
    IN  IF len < Len(meta) THEN rest ELSE Min({rest, len - Len(meta)})

\* Every buffer after the first gets the frame from its start.
FillFromStart ==
    /\ epc = "fill"
    /\ LET d     == buf_vec[cnt + 1]
           meta  == IF cnt = 0 THEN Meta ELSE <<>>
           chunk == Chunk(desc[d].len, meta)
       IN  /\ mem' = [mem EXCEPT ![d] = meta \o SubSeq(Frame, 1, chunk)]
           /\ written_len' = written_len + chunk
           /\ used' = [used EXCEPT ![last_used_idx % Size] = <<d, chunk + Len(meta)>>]
           /\ spilled' = (spilled \/ desc[d].len < Len(meta))
    /\ last_avail_idx' = last_avail_idx + 1 /\ last_used_idx' = last_used_idx + 1
    /\ used_idx' = last_used_idx' /\ cnt' = cnt + 1
    /\ epc' = IF cnt' = NBufs THEN "kick" ELSE "fill"
    /\ UNCHANGED <<desc, ring, avail_idx, cursor, buf_vec, a_idx, rxcnt, kicked, guestVars, short>>

\* One buffer: the metadata goes before the first part; the used index is
\* published at once, while the rest of the frame is still to be written.
Fill ==
    /\ epc = "fill"
    /\ LET d     == buf_vec[cnt + 1]
           meta  == IF cnt = 0 THEN Meta ELSE <<>>
           chunk == Chunk(desc[d].len, meta)
       IN  /\ mem' = [mem EXCEPT ![d] = meta \o SubSeq(Frame, written_len + 1, written_len + chunk)]
           /\ written_len' = written_len + chunk
           /\ used' = [used EXCEPT ![last_used_idx % Size] = <<d, chunk + Len(meta)>>]
           /\ spilled' = (spilled \/ desc[d].len < Len(meta))
    /\ last_avail_idx' = last_avail_idx + 1 /\ last_used_idx' = last_used_idx + 1
    /\ used_idx' = last_used_idx' /\ cnt' = cnt + 1
    /\ epc' = IF cnt' = NBufs THEN "kick" ELSE "fill"
    /\ UNCHANGED <<desc, ring, avail_idx, cursor, buf_vec, a_idx, rxcnt, kicked, guestVars, short>>

\* The guest may have switched notifications off.  The last frame resets the
\* counter and ends the thread.
Kick ==
    /\ epc = "kick" /\ kicked' \in BOOLEAN
    /\ rxcnt' = (rxcnt + 1) % Frames
    /\ epc' = IF rxcnt + 1 = Frames THEN "exited" ELSE "poll"
    /\ UNCHANGED <<ringVars, last_avail_idx, last_used_idx, loopVars, mem, guestVars, faultVars>>

-----------------------------------------------------------------------------
(***************************************************************************)
(* The guest.                                                              *)
(***************************************************************************)
Post ==
    /\ \E d \in owned :
         /\ \A e \in Slots : desc[e].next # d
         /\ desc[d].next # None => desc[d].next \in owned
         /\ ring' = [ring EXCEPT ![avail_idx % Size] = d]
         /\ owned' = owned \ ({d} \cup {desc[d].next})
    /\ avail_idx < MaxPosts /\ avail_idx' = avail_idx + 1
    /\ UNCHANGED <<desc, used, used_idx, last_avail_idx, last_used_idx, epc, loopVars, mem,
                   rxcnt, kicked, taken, part, room, faultVars>>

\* One buffer, as long as its entry says.  NBufs of them make a frame.
Reap ==
    /\ taken < used_idx
    /\ LET d     == used[taken % Size][1]
           first == taken % NBufs = 0
       IN  /\ part' = (IF first THEN <<>> ELSE part)
                          \o SubSeq(mem[d], 1, Min({used[taken % Size][2], Len(mem[d])}))
           /\ room' = (IF first THEN 0 ELSE room) + desc[d].len
           /\ owned' = owned \cup {d}
    /\ taken' = taken + 1 /\ kicked' = FALSE
    /\ UNCHANGED <<ringVars, last_avail_idx, last_used_idx, epc, loopVars, mem, rxcnt, faultVars>>

EnqNext == Poll \/ Collect \/ Fill \/ Kick \/ Post \/ Reap

EnqSpec == EnqInit /\ [][EnqNext]_enqVars

-----------------------------------------------------------------------------
\* Whenever the guest takes a buffer, what it has put together of the frame is
\* the metadata and the frame, as far as its buffers so far have room, though
\* the thread is still writing the next ones and the guest posts these again;
\* and no buffer that the thread is about to fill is the guest's.  Until the
\* thread has used an entry that was not posted, or written past the end of a
\* buffer that is too short for the metadata: it prevents neither.
FramesWhole ==
    ~ short /\ ~ spilled =>
      /\ part = SubSeq(Meta \o Frame, 1, Min({Len(Meta \o Frame), room}))
      /\ epc = "fill" => \A k \in (cnt + 1)..NBufs : buf_vec[k] \notin owned
=============================================================================
