------------------------------- MODULE ByteQueue -------------------------------
(***************************************************************************)
(* What a buffer of recorded audio promises: a queue that keeps the newest *)
(* bytes it has room for, and gives them back in order.                    *)
(***************************************************************************)
EXTENDS Integers, Sequences, SequencesExt

CONSTANTS Bytes, Sizes, MaxBlock

VARIABLES queue, room, got

Blocks == UNION {[1 .. n -> Bytes] : n \in 1 .. MaxBlock}

Least(m, n) == IF m <= n THEN m ELSE n

Newest(s, n) == SubSeq(s, Len(s) - Least(Len(s), n) + 1, Len(s))

QInit == queue = <<>> /\ room \in Sizes /\ got = <<>>

Put(block) ==
  /\ queue' = Newest(queue \o block, room)
  /\ got' = <<>>
  /\ UNCHANGED room

\* The oldest n bytes are given out; they leave the queue unless it is a peek.
Take(n, peek) ==
  LET m == Least(n, Len(queue))
  IN  /\ got' = SubSeq(queue, 1, m)
      /\ queue' = IF peek THEN queue ELSE SubSeq(queue, m + 1, Len(queue))
      /\ UNCHANGED room

Resize(n) ==
  /\ room' = n
  /\ queue' = Newest(queue, n)
  /\ got' = <<>>

QNext ==
  \/ \E block \in Blocks : Put(block)
  \/ \E n \in 1 .. MaxBlock, peek \in BOOLEAN : Take(n, peek)
  \/ \E n \in Sizes : Resize(n)

QSpec == QInit /\ [][QNext]_<<queue, room, got>>
=============================================================================
