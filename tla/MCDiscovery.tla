---------------------------- MODULE MCDiscovery -----------------------------
(* Small instances of Discovery for TLC. *)
EXTENDS Discovery, TLC

CONSTANTS r, x, y, z, w

\* An address space given by the references of its nodes; w has none.
SpaceOf(ofR, ofX, ofY, ofZ) ==
  r :> ofR @@ x :> ofX @@ y :> ofY @@ z :> ofZ @@ w :> <<>>

Chain   == SpaceOf(<<x>>, <<y>>, <<z>>, <<w>>)
Fork    == SpaceOf(<<x, y>>, <<z>>, <<w>>, <<>>)
Small   == SpaceOf(<<x>>, <<>>, <<>>, <<>>)
Wide    == SpaceOf(<<x, y, z>>, <<>>, <<>>, <<>>)
Diamond == SpaceOf(<<x, y>>, <<z>>, <<z>>, <<>>)
Detour  == SpaceOf(<<x, y>>, <<y>>, <<z>>, <<w>>)
Cycle   == SpaceOf(<<x>>, <<y>>, <<x>>, <<>>)

Trees     == {Fork, Small}
AllSpaces == {Chain, Fork, Small, Wide, Diamond, Detour, Cycle}
Cyclic    == {Cycle, Diamond}
Shared    == {Detour}
=============================================================================
