------------------------------ MODULE RingBuffer ------------------------------
(***************************************************************************)
(* CIRCircularBuffer (IRCircularBuffer.cpp), the ring that holds the audio    *)
(* of a stream.  m_pGetPtr and m_pPutPtr are offsets from m_pData.  Its    *)
(* overrun handlers do nothing in this program.                            *)
(***************************************************************************)
EXTENDS Integers, Sequences

CONSTANTS
  Bytes,       \* byte values
  Sizes,       \* lengths a buffer is given
  MaxBlock,    \* bound on the length of one AddData or GetData
  ResizeFull   \* SetBufferLength is also called when there is data

ASSUME RingAssumption ==
  /\ Sizes \subseteq Nat \ {0} /\ MaxBlock \in Nat /\ ResizeFull \in BOOLEAN
  /\ Bytes # {}

VARIABLES
  bytes,   \* m_pData
  size,    \* m_Size
  count,   \* m_Count
  getPos,  \* m_pGetPtr
  putPos,  \* m_pPutPtr
  taken    \* what the last call has copied to its caller

ringVars == <<bytes, size, count, getPos, putPos, taken>>

Blocks == UNION {[1 .. n -> Bytes] : n \in 1 .. MaxBlock}

RingInit ==
  /\ size \in Sizes
  /\ bytes \in [0 .. size - 1 -> Bytes]
  /\ count = 0 /\ getPos = 0 /\ putPos = 0
  /\ taken = <<>>

-----------------------------------------------------------------------------
\* Where a pointer is after n bytes: part of them may lie at the start, and a
\* pointer at the end goes to the start.
After(pos, n) ==
  LET p == IF size - pos < n THEN n - (size - pos) ELSE pos + n
  IN  IF p >= size THEN 0 ELSE p

\* The n bytes from pos on, in the two parts they are copied in.
From(pos, n) ==
  [i \in 1 .. n |-> IF i <= size - pos THEN bytes[pos + i - 1]
                                       ELSE bytes[i - (size - pos) - 1]]

\* The bytes of m_pData after block has been copied to pos and following.
Written(pos, block) ==
  [i \in 0 .. size - 1 |->
     IF pos <= i /\ i < pos + Len(block) THEN block[i - pos + 1]
     ELSE IF i < Len(block) - (size - pos) THEN block[size - pos + i + 1]
     ELSE bytes[i]]

\* Bug: as many bytes are dropped as come, not as many as there is no room for.
AddDataDropsAll(block) ==
  LET over == Len(block) + count - size
      drop == IF over > 0 THEN (IF Len(block) <= count THEN Len(block) ELSE count) ELSE 0
  IN  /\ Len(block) <= size
      /\ getPos' = After(getPos, drop)
      /\ bytes' = Written(putPos, block)
      /\ putPos' = After(putPos, Len(block))
      /\ count' = count - drop + Len(block)
      /\ taken' = <<>>
      /\ UNCHANGED size

\* AddData makes room by dropping the oldest bytes.
AddData(block) ==
  LET over == Len(block) + count - size
      drop == IF over > 0 THEN over ELSE 0
  IN  /\ Len(block) <= size
      /\ getPos' = After(getPos, drop)
      /\ bytes' = Written(putPos, block)
      /\ putPos' = After(putPos, Len(block))
      /\ count' = count - drop + Len(block)
      /\ taken' = <<>>
      /\ UNCHANGED size

\* More than a bufferful: all but its end is deleted, and what there was.
AddTooMuch(block) ==
  /\ Len(block) > size
  /\ bytes' = Written(0, SubSeq(block, Len(block) - size + 1, Len(block)))
  /\ getPos' = 0
  /\ putPos' = 0
  /\ count' = size
  /\ taken' = <<>>
  /\ UNCHANGED size

\* GetData gives at most n bytes.
GetData(n, peek) ==
  LET m == IF count > n THEN n ELSE count
  IN  /\ taken' = From(getPos, m)
      /\ IF peek THEN UNCHANGED <<getPos, count>>
                 ELSE getPos' = After(getPos, m) /\ count' = count - m
      /\ UNCHANGED <<bytes, size, putPos>>

\* SetBufferLength copies what fits, the newest, to a new buffer, whose other
\* bytes are any.  The program calls it for an empty buffer: of the two
\* pointers the new one to get from is set to the end of the data.
SetBufferLength(n) ==
  LET m == IF count > n THEN n ELSE count
      old == From(After(getPos, count - m), m)
  IN  /\ count = 0 \/ ResizeFull
      /\ \E rest \in [0 .. n - 1 -> Bytes] :
           bytes' = [i \in 0 .. n - 1 |-> IF i < m THEN old[i + 1] ELSE rest[i]]
      /\ size' = n
      /\ putPos' = 0
      /\ getPos' = m
      /\ count' = m
      /\ taken' = <<>>

RingNext ==
  \/ \E block \in Blocks : AddData(block) \/ AddTooMuch(block)
  \/ \E n \in 1 .. MaxBlock, peek \in BOOLEAN : GetData(n, peek)
  \/ \E n \in Sizes : SetBufferLength(n)

RingSpec == RingInit /\ [][RingNext]_ringVars

-----------------------------------------------------------------------------
(* Properties. *)

\* The pointers are inside the buffer and apart by what is in it, so that no
\* call copies from or to bytes outside it.
RingOK ==
  /\ size \in Sizes
  /\ bytes \in [0 .. size - 1 -> Bytes]
  /\ count \in 0 .. size
  /\ getPos \in 0 .. size - 1 /\ putPos \in 0 .. size - 1
  /\ putPos = After(getPos, count)

\* The buffer is a queue of the newest bytes, wherever its start lies in the
\* ring and however calls cross the end.
Abstract == INSTANCE ByteQueue WITH queue <- From(getPos, count), room <- size, got <- taken

ImplementsQueue == Abstract!QSpec
=============================================================================
