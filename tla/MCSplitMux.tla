----------------------------- MODULE MCSplitMux -----------------------------
(* A video stream v that splitmuxsink cuts at its keyframes and an audio     *)
(* stream a.                                                                 *)
EXTENDS SplitMux

B(pts, dts) == [pts |-> pts, dts |-> dts, key |-> FALSE]
K(pts, dts) == [pts |-> pts, dts |-> dts, key |-> TRUE]
Key(pts) == K(pts, pts)

\* Three GOPs of which two fit into a file
Plain == <<Key(0), Key(1), Key(3)>>
\* B frames: the second GOP has a frame that is shown before its keyframe
Reordered == <<K(1, 0), K(3, 1), B(2, 2), B(4, 3)>>

Input1(v, a) == [v |-> v, a |-> [i \in DOMAIN a |-> Key(a[i])]]

\* Stopped, split and failing recordings are shorter.
MCDisturbed == {Input1(<<Key(0)>>, <<0>>), Input1(<<Key(0), Key(1)>>, <<>>)}
MCInputs == {Input1(Plain, <<>>), Input1(Reordered, <<2>>)} \cup MCDisturbed

\* The theorem on FilesPartitionInput is about these inputs, too.
ASSUME MCInputsRegular == Regular
=============================================================================
