----------------------------- MODULE MCStructures -----------------------------
(***************************************************************************)
(* The data structures that hold the tables, their memory and the audio,   *)
(* for TLC.  They have no state in common, so a behaviour is one of one of *)
(* them, `subject`, and the others stay as they are at the start.          *)
(***************************************************************************)
EXTENDS RingBuffer, BinaryTree, FreeBuffers, RtpTimeline

CONSTANT Subjects  \* the structures to check

VARIABLE subject

\* Three hashes, for rotations, in one of the tables.
MCHashesOf == [t \in Tables |-> IF t = "sessions" THEN {1, 2, 3} ELSE {1}]

Init ==
  /\ subject \in Subjects
  /\ RingInit /\ TreeInit /\ BufInit /\ RtpInit
  /\ subject # "ring" => /\ size = CHOOSE n \in Sizes : TRUE
                         /\ bytes = [i \in 0 .. size - 1 |-> CHOOSE b \in Bytes : TRUE]
  /\ subject # "rtp" => start = CHOOSE ts \in Starts : TRUE

RingStep == subject = "ring" /\ RingNext /\ UNCHANGED <<treeVars, bufVars, rtpVars, subject>>
TreeStep == subject = "tree" /\ TreeNext /\ UNCHANGED <<ringVars, bufVars, rtpVars, subject>>
BufStep == subject = "buffers" /\ BufNext /\ UNCHANGED <<ringVars, treeVars, rtpVars, subject>>
RtpStep == subject = "rtp" /\ RtpNext /\ UNCHANGED <<ringVars, treeVars, bufVars, subject>>

Next == RingStep \/ TreeStep \/ BufStep \/ RtpStep

Spec == Init /\ [][Next]_<<ringVars, treeVars, bufVars, rtpVars, subject>>
=============================================================================
