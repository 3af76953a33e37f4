---------------------------- MODULE MCBuildGraph ----------------------------
(* Small dependency graphs for BuildGraph.                                   *)
EXTENDS BuildGraph, TLC

CONSTANTS top, sub, leaf, loop, left, right

\* Three levels, a leaf called by both of them, and a model that calls itself.
TreeChildren == (top :> <<sub, leaf, sub>>) @@ (sub :> <<leaf>>) @@ (leaf :> <<>>)
                @@ (loop :> <<loop>>)

\* Two models over one child.
SharedChildren == (left :> <<leaf>>) @@ (right :> <<leaf>>) @@ (leaf :> <<>>)

\* One model over one child.
PairChildren == (left :> <<leaf>>) @@ (leaf :> <<>>)

\* The same child one level down, below a model that a request calls or a user asks
\* for.
DeepChildren == (left :> <<sub>>) @@ (sub :> <<leaf>>) @@ (leaf :> <<>>)

\* Which models import a helper file, and from which version of theirs.
NoHelper == [m \in Models |-> MaxEdits + 2]
LeafHelper == [m \in Models |-> IF m = leaf THEN 1 ELSE MaxEdits + 2]
AllHelper == [m \in Models |-> 1]

\* Two models that call each other.
CycleChildren == (left :> <<right>>) @@ (right :> <<left>>)
=============================================================================
