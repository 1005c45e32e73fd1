---------------------------- MODULE AmShMemLoan ----------------------------
(***************************************************************************)
(* The AmShMem transport implements FrameLoan when buffer_index is the     *)
(* block index or the qdata slot, one thread at a time publishes           *)
(* FreeFrames and neither element is flushed or stopped.  A frame whose    *)
(* sample is lost stays with a borrower that never gives it back.          *)
(***************************************************************************)
EXTENDS AmShMem

WithBorrower == {"am", "kept", "src", "using", "lost"}

ownerBar == [b \in Blocks |->
  IF refs[b] = 0 THEN "free"
  ELSE IF rpc = "publish" /\ rmsg.blk = b THEN "producer"
  ELSE IF stage[content[b]] \in WithBorrower THEN "borrower"
  ELSE "back"]

Loan == INSTANCE FrameLoan WITH NoFrame <- None, owner <- ownerBar, frame <- content

\* Lending is safe as a whole, not only in each of its invariants.
ImplementsFrameLoan == Loan!Spec
============================================================================
