----------------------------- MODULE FrameLoan -----------------------------
(***************************************************************************)
(* What zero-copy lending promises, whatever the transport: a block is     *)
(* written only while nobody else has it, a frame that was handed over     *)
(* stays as it was until the borrower has given it back, and only then can *)
(* the block be free again.                                                *)
(***************************************************************************)
EXTENDS Naturals

CONSTANTS Blocks, Frames, NoFrame

VARIABLES
  owner,    \* who has a block: "free", "producer", "borrower", "back"
  frame     \* the frame in the block

vars == <<owner, frame>>

Init == /\ owner = [b \in Blocks |-> "free"]
        /\ frame = [b \in Blocks |-> NoFrame]

Pass(b, from, to) == owner[b] = from /\ owner' = [owner EXCEPT ![b] = to]

\* The producer takes a free block and writes a new frame into it.
Write(b) == /\ Pass(b, "free", "producer")
            /\ \E f \in Frames : /\ \A c \in Blocks : frame[c] # f
                                 /\ frame' = [frame EXCEPT ![b] = f]

\* The frame is handed over; or it is not, and the block is free again.
Lend(b)   == Pass(b, "producer", "borrower") /\ UNCHANGED frame
Cancel(b) == Pass(b, "producer", "free") /\ UNCHANGED frame

\* The borrower has stopped reading; the lender learns of it.
GiveBack(b) == Pass(b, "borrower", "back") /\ UNCHANGED frame
Reclaim(b)  == Pass(b, "back", "free") /\ UNCHANGED frame

Next == \E b \in Blocks :
          Write(b) \/ Lend(b) \/ Cancel(b) \/ GiveBack(b) \/ Reclaim(b)

Spec == Init /\ [][Next]_vars
============================================================================
