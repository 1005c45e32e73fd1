---------------------------- MODULE MCIavDecoder ----------------------------
(* Two elements a, b of the first version and three of the second; only the  *)
(* driver's number of decoders admits the dec-id of e.  b is constructed and *)
(* finalized but never plays: it makes a's finalize the second one.  And two *)
(* elements of the second version on their own.                              *)
EXTENDS IavDecoder, TLC

CONSTANTS a, b, c, d, e

MCDecId == (c :> 0) @@ (d :> 1) @@ (a :> 2) @@ (b :> 3) @@ (e :> 4)

MCStarts == (a :> 1) @@ (b :> 0) @@ (c :> 2) @@ (d :> 1) @@ (e :> 1)

MCTwoIds == (c :> 0) @@ (d :> 1)

MCTwoStarts == (c :> 1) @@ (d :> 1)
=============================================================================
