------------------------------- MODULE Sniffer -------------------------------
(***************************************************************************)
(* The programs that dissect what they capture and dump its payload:       *)
(*                                                                         *)
(*   raw    vm_tap/sniff.c, raw_sockets/raw_eth_receive.c                  *)
(*   dgram  raw_sockets/sniffer/rcv.c, the same on a socket that delivers  *)
(*          packets without their Ethernet header                          *)
(*   pcap   guest_to_host/read_tap_pcap.c, with libpcap, for num_packets   *)
(*                                                                         *)
(* A packet is a sequence of cells; a header takes one cell or more.  Any  *)
(* cell can be taken for a header: p is what it then says of the protocol, *)
(* n of its length, a field of few bits that never exceeds the longest     *)
(* packet.  The receive buffer is never cleared, so behind a short packet  *)
(* lies what earlier ones have left.                                       *)
(***************************************************************************)
EXTENDS Integers, Sequences, SequencesExt, FiniteSetsExt

CONSTANTS
    Cells,         \* the cells of packets
    Capacity,      \* cells of the longest packet
    SnapLen,       \* SNAP_LEN: cells libpcap captures
    MaxLen,        \* the greatest total length an IP header can claim
    Width,         \* bytes of one line of a dump
    NumPackets     \* num_packets

ASSUME SnifferAssumption ==
    /\ Cells \subseteq [p : {"tcp", "udp", "icmp", "other"}, n : 0..Capacity] /\ Cells # {}
    /\ {Capacity, SnapLen, MaxLen, Width, NumPackets} \subseteq Nat \ {0}

VARIABLES
    sniffer,       \* which program
    where,         \* "setup", "recv", "show", "exit"
    buffer,        \* the receive buffer
    packet,        \* the last packet, as far as it was captured
    ip_len,        \* the total length its IP header claims, of which only pcap asks
    shown,         \* the lines of its payload dump
    captured       \* packets pcap_loop has delivered

sniffVars == <<sniffer, where, buffer, packet, ip_len, shown, captured>>

\* The cell at an offset of the buffer, counted from 0 as in C.
At(b, o) == b[o + 1]

-----------------------------------------------------------------------------
(***************************************************************************)
(* The two ways to dump n bytes at offset o: lines of bytes in hex and     *)
(* again in ASCII.  A line is the offsets printed in each of the two.      *)
(***************************************************************************)
\* The last line's characters start one line early.
PrintDataShifted(o, n) ==
    LET Upto[i \in 0..n] ==
          IF i = 0 THEN [hex |-> <<>>, out |-> <<>>]
          ELSE LET prev == Upto[i - 1]
                   k    == i - 1
                   full == k # 0 /\ k % Width = 0
                   hex  == Append(IF full THEN <<>> ELSE prev.hex, o + k)
                   out  == IF full THEN Append(prev.out,
                             <<prev.hex, [j \in 1..Width |-> o + k - Width + j - 1]>>) ELSE prev.out
               IN  [hex |-> hex,
                    out |-> IF k = n - 1 THEN Append(out,
                              <<hex, [j \in 1..(k % Width) |-> o + k - (k % Width) + j - 1]>>)
                            ELSE out]
    IN  IF n <= 0 THEN <<>> ELSE Upto[n].out

\* PrintData: a line's characters follow when the next line begins, or at the end.
PrintData(o, n) ==
    LET Upto[i \in 0..n] ==
          IF i = 0 THEN [hex |-> <<>>, out |-> <<>>]
          ELSE LET prev == Upto[i - 1]
                   k    == i - 1
                   full == k # 0 /\ k % Width = 0
                   hex  == Append(IF full THEN <<>> ELSE prev.hex, o + k)
                   out  == IF full THEN Append(prev.out,
                             <<prev.hex, [j \in 1..Width |-> o + k - Width + j - 1]>>) ELSE prev.out
               IN  [hex |-> hex,
                    out |-> IF k = n - 1 THEN Append(out,
                              <<hex, [j \in 1..((k % Width) + 1) |-> o + k - (k % Width) + j - 1]>>)
                            ELSE out]
    IN  IF n <= 0 THEN <<>> ELSE Upto[n].out

PrintHexAsciiLine(o, n) == LET l == [j \in 1..n |-> o + j - 1] IN <<l, l>>

\* print_payload: the length of a line is Width % len_rem.
PrintPayload(o, n) ==
    LET From[rem \in 0..n] ==
          IF rem <= Width THEN <<PrintHexAsciiLine(o + n - rem, rem)>>
          ELSE LET len == Width % rem
               IN  <<PrintHexAsciiLine(o + n - rem, len)>> \o From[rem - len]
    IN  IF n <= 0 THEN <<>> ELSE From[n]

-----------------------------------------------------------------------------
SniffInit ==
    /\ sniffer \in {"raw", "dgram", "pcap"} /\ where = "setup"
    /\ \E c \in Cells : buffer = [i \in 1..(2 * Capacity + 1) |-> c]
    /\ packet = <<>> /\ ip_len = 0 /\ shown = <<>> /\ captured = 0

\* The raw socket, or a capture handle on an Ethernet device with the filter
\* compiled; one that cannot be had ends the program.
OpenRaw ==
    /\ where = "setup" /\ sniffer = "raw" /\ where' \in {"recv", "exit"}
    /\ UNCHANGED <<sniffer, buffer, packet, ip_len, shown, captured>>

OpenDgram ==
    /\ where = "setup" /\ sniffer = "dgram" /\ where' \in {"recv", "exit"}
    /\ UNCHANGED <<sniffer, buffer, packet, ip_len, shown, captured>>

OpenPcap ==
    /\ where = "setup" /\ sniffer = "pcap" /\ where' \in {"recv", "exit"}
    /\ UNCHANGED <<sniffer, buffer, packet, ip_len, shown, captured>>

\* recvfrom() overwrites the start of the buffer; an error ends the program.
Recvfrom ==
    /\ where = "recv" /\ sniffer # "pcap"
    /\ \/ \E s \in SeqOf(Cells, Capacity) \ {<<>>} :
            /\ packet' = s /\ where' = "show"
            /\ buffer' = [i \in DOMAIN buffer |-> IF i <= Len(s) THEN s[i] ELSE buffer[i]]
       \/ where' = "exit" /\ UNCHANGED <<packet, buffer>>
    /\ UNCHANGED <<sniffer, ip_len, shown, captured>>

-----------------------------------------------------------------------------
\* Where the header at offset 1 (behind the Ethernet header) ends.
IpEnd(b) == 1 + At(b, 1).n

TcpHeader(b)  == IpEnd(b) + At(b, IpEnd(b)).n
UdpHeader(b)  == IpEnd(b) + 1        \* sizeof udph is 8, the size of a UDP header
IcmpHeader(b) == IpEnd(b) + 1

\* ProcessPacket: by the protocol the buffer shows; other packets are counted.
ProcessPacket ==
    /\ where = "show" /\ sniffer # "pcap" /\ where' = "recv"
    /\ shown' = LET Dump(h) == PrintData(h, Len(packet) - h) IN
         CASE At(buffer, 1).p = "tcp"  -> Dump(TcpHeader(buffer))
           [] At(buffer, 1).p = "udp"  -> Dump(UdpHeader(buffer))
           [] At(buffer, 1).p = "icmp" -> Dump(IcmpHeader(buffer))
           [] OTHER -> <<>>
    /\ UNCHANGED <<sniffer, buffer, packet, ip_len, captured>>

\* pcap_loop() hands each packet over in memory of its own, cut at SnapLen.  It
\* is any packet, as the filter is compiled and never installed, and what it
\* says of its length need not be so.
PcapLoop ==
    /\ where = "recv" /\ sniffer = "pcap" /\ captured < NumPackets
    /\ \E s \in SeqOf(Cells, Min({Capacity, SnapLen})) \ {<<>>} :
         /\ packet' = s /\ ip_len' \in 0..MaxLen
         /\ \E junk \in Cells :
              buffer' = [i \in DOMAIN buffer |-> IF i <= Len(s) THEN s[i] ELSE junk]
    /\ where' = "show" /\ captured' = captured + 1
    /\ UNCHANGED <<sniffer, shown>>

\* got_packet: only TCP is dumped, as long as the IP header claims; a header
\* too short ends it.  The claim is not compared with what was captured.
GotPacket ==
    /\ where = "show" /\ sniffer = "pcap" /\ where' = "recv"
    /\ LET ip == At(buffer, 1)
           h  == TcpHeader(buffer)
       IN  shown' = IF ip.n < 1 \/ ip.p # "tcp" \/ At(buffer, IpEnd(buffer)).n < 1 THEN <<>>
                    ELSE PrintPayload(h, ip_len - (h - 1))
    /\ UNCHANGED <<sniffer, buffer, packet, ip_len, captured>>

PcapClose ==
    /\ where = "recv" /\ sniffer = "pcap" /\ captured = NumPackets /\ where' = "exit"
    /\ UNCHANGED <<sniffer, buffer, packet, ip_len, shown, captured>>

SniffNext == OpenRaw \/ OpenDgram \/ OpenPcap \/ Recvfrom \/ ProcessPacket
             \/ PcapLoop \/ GotPacket \/ PcapClose

SniffSpec == SniffInit /\ [][SniffNext]_sniffVars

-----------------------------------------------------------------------------
\* n bytes from offset o in lines of Width.
Lines(o, n) ==
    [l \in 1..((n + Width - 1) \div Width) |->
       LET line == [j \in 1..Min({Width, n - (l - 1) * Width}) |-> o + (l - 1) * Width + j - 1]
       IN  <<line, line>>]

\* Where the payload of a packet begins by its own headers, or 0 when it is
\* too short for them.
PayloadStart(s) ==
    IF Len(s) < 2 THEN 0
    ELSE LET t == 1 + s[2].n IN
      IF Len(s) <= t THEN 0
      ELSE LET h == t + IF s[2].p = "tcp" THEN s[t + 1].n ELSE 1
           IN  IF h > Len(s) THEN 0 ELSE h

\* Where the last packet ends: as received, or as its IP header claims.
End == IF sniffer = "pcap" THEN 1 + ip_len ELSE Len(packet)

\* What is shown are bytes of the packet.
Within ==
    \A k \in 1..Len(shown) : \A j \in 1..2 : \A o \in ToSet(shown[k][j]) : o < Len(packet)

\* A dump shows only bytes of the packet just received, whatever the buffer
\* holds from earlier ones and whatever the header lengths read there say; of a
\* packet that has its headers it shows exactly the payload, each byte once in
\* hex and once in ASCII on the same line, with either dump.  The libpcap
\* program takes the end from the IP header: of what that claims it shows all,
\* and none but bytes of the packet when the claim is within the packet.
PayloadShown ==
    where = "recv" /\ packet # <<>> =>
      /\ End <= Len(packet) => Within
      /\ LET h == PayloadStart(packet)
         IN  sniffer # "dgram" /\ h # 0 /\ shown # <<>> => shown = Lines(h, End - h)
      /\ sniffer = "raw" /\ PayloadStart(packet) # 0 /\ packet[2].p # "other" =>
           (shown = <<>>) = (PayloadStart(packet) = Len(packet))
=============================================================================
