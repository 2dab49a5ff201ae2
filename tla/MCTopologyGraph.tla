-------------------------- MODULE MCTopologyGraph --------------------------
(* Two devices and an interface of one source, a third device whose VID    *)
(* collides with the first one's, and an edge from a device to the         *)
(* interface.                                                              *)
EXTENDS TopologyGraph, TLC

CONSTANTS d1, d2, d3, p1, owns, s1, device, interface, composition

MCKeyOf == (d1 :> "vid1") @@ (d2 :> "vid2") @@ (d3 :> "vid1")
             @@ (p1 :> "vid3") @@ (owns :> "edge")
MCKeys == {"vid1", "vid2", "vid3", "edge"}
MCSourceOf == [o \in {d1, d2, d3, p1, owns} |-> s1]
MCTypeOf == (d1 :> device) @@ (d2 :> device) @@ (d3 :> device)
              @@ (p1 :> interface) @@ (owns :> composition)
MCEndsOf == owns :> {d2, p1}
=============================================================================
