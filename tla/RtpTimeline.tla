------------------------------ MODULE RtpTimeline ------------------------------
(***************************************************************************)
(* How CRTPRecorderSession lays the packets of an RTP stream on the time   *)
(* line of the recording: m_uNextTimeStamp is where the next packet should *)
(* start, and a packet that starts later is preceded by silence.           *)
(*                                                                         *)
(* The packets are numbered as they are sent, and a timestamp has a width. *)
(* The network loses packets and holds them back; jrtp gives those that    *)
(* have come in the order of their numbers.  The stream is that of the     *)
(* source of the first packet: packets of others are deleted and nothing   *)
(* else.  Every byte of audio is a sample (G.711); audio is counted, not   *)
(* kept.  Packets of other payloads, tones or comfort noise, are not       *)
(* written.                                                                *)
(***************************************************************************)
EXTENDS Integers

CONSTANTS
  Width,     \* number of timestamps: 2^32
  Samples,   \* samples in a packet
  Starts,    \* timestamps of packet 0
  Late,      \* packets may come after later ones have been written
  MaxSent    \* bound on the packets sent

ASSUME RtpAssumption ==
  /\ Samples \in Nat \ {0} /\ MaxSent \in Nat /\ Late \in BOOLEAN
  /\ Width \in Nat /\ 2 * Samples * MaxSent < Width
  /\ Starts \subseteq 0 .. Width - 1

VARIABLES
  start,    \* timestamp of packet 0
  packets,  \* packets sent
  delayed,  \* packets held back by the network
  other,    \* packets whose payload is not audio
  arrived,  \* packets jrtp holds
  nextTs,   \* m_uNextTimeStamp
  written,  \* samples given to the stream's buffer
  handled   \* the numbers of the first and the last packet written

rtpVars == <<start, packets, delayed, other, arrived, nextTs, written, handled>>

Ts(k) == (start + k * Samples) % Width

RtpInit ==
  /\ start \in Starts
  /\ packets = 0 /\ delayed = {} /\ other = {} /\ arrived = {}
  /\ nextTs = 0 /\ written = 0
  /\ handled = <<>>

\* A packet is sent, and is lost, comes or is held back.
Send ==
  /\ packets < MaxSent
  /\ packets' = packets + 1
  /\ \/ UNCHANGED <<arrived, delayed, other>>
     \/ /\ \/ arrived' = arrived \cup {packets} /\ UNCHANGED delayed
           \/ delayed' = delayed \cup {packets} /\ UNCHANGED arrived
        /\ other' \in {other, other \cup {packets}}
  /\ UNCHANGED <<start, nextTs, written, handled>>

\* A packet comes that others have overtaken, or not.
Arrive(k) ==
  /\ k \in delayed
  /\ ~ Late /\ handled # <<>> => k > handled[2]
  /\ delayed' = delayed \ {k}
  /\ arrived' = arrived \cup {k}
  /\ UNCHANGED <<start, packets, other, nextTs, written, handled>>

\* AddSilenceToBuffer takes its number as an int.
Silence(gap) == IF 2 * gap < Width THEN gap ELSE 0

\* OnPayloadData writes the silence before a packet of audio and its samples.
\* The number it returns is that of the samples without the silence.
Laid(k, gap) == IF k \in other THEN 0 ELSE Silence(gap) + Samples
Decoded(k) == IF k \in other THEN 0 ELSE Samples

\* The samples between the packets written and this one.
Gap(k) == IF nextTs # 0 /\ nextTs < Ts(k) THEN Ts(k) - nextTs ELSE 0

\* Bug: nextTs is moved to the packet, also when that is behind it.
OnPacketFollows(k) ==
  /\ written' = written + Laid(k, Gap(k))
  /\ nextTs' = (Ts(k) + Decoded(k)) % Width

\* One packet in ProcessReceivedPakets.
OnPacket(k) ==
  /\ written' = written + Laid(k, Gap(k))
  /\ nextTs' = ((IF nextTs = 0 THEN Ts(k) ELSE nextTs + Gap(k)) + Decoded(k)) % Width

ProcessPacket ==
  /\ arrived # {}
  /\ LET k == CHOOSE k \in arrived : \A j \in arrived : k <= j
     IN  /\ OnPacket(k)
         /\ arrived' = arrived \ {k}
         /\ handled' = <<IF handled = <<>> THEN k ELSE handled[1], k>>
  /\ UNCHANGED <<start, packets, delayed, other>>

RtpNext == Send \/ ProcessPacket \/ \E k \in 0 .. MaxSent : Arrive(k)

RtpSpec == RtpInit /\ [][RtpNext]_rtpVars

-----------------------------------------------------------------------------
(* Properties. *)

Behind == IF handled = <<>> THEN 0
          ELSE (handled[2] - handled[1] + 1) * Samples - written

\* A packet of audio that starts where nextTs is or later ends where the span of
\* the packets does.
MadeGood ==
  handled' # handled /\ handled'[2] \notin other /\ nextTs <= Ts(handled'[2]) => Behind' = 0

\* The recording never has more than the packets span, and in a stream of audio
\* only, what is lost is made good: where the timestamps wrap, as soon as nextTs
\* has wrapped too.
TimelineKept == [][Behind' >= 0 /\ (other = {} => MadeGood)]_rtpVars

\* The same with other payloads.  It fails: after a loss a packet of another
\* payload moves nextTs by the silence that OnPayloadData does not write.
LossesMadeGood == [][MadeGood]_rtpVars
=============================================================================
