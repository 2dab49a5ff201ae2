--------------------------- MODULE MCServerUplink ---------------------------
(* Three servers in pages of one or two, two ToRs, three ports, and what   *)
(* the CMDB may hold: two servers with a port each; one of them replaced;  *)
(* a port that has moved to the other ToR; a name that has become          *)
(* ambiguous; a port that is claimed by both ToRs; one server less.        *)
EXTENDS ServerUplink, TLC

Wants(s, tor, name) == [server |-> s, tor |-> tor, name |-> name]
Has(tor, name, port) == [tor |-> tor, name |-> name, port |-> port]

TwoPorts == {Has("t1", "n1", "p1"), Has("t1", "n2", "p2")}

Base == [servers |-> {1, 3}, ports |-> TwoPorts,
         entries |-> {Wants(1, "t1", "n1"), Wants(3, "t1", "n2")}]
Replaced == [servers |-> {2, 3}, ports |-> TwoPorts,
             entries |-> {Wants(2, "t1", "n1"), Wants(3, "t1", "n2")}]
Moved == [Base EXCEPT !.ports = {Has("t1", "n1", "p1"), Has("t2", "n2", "p2")},
                      !.entries = {Wants(1, "t1", "n1"), Wants(3, "t2", "n2")}]
Ambiguous == [Base EXCEPT !.ports = @ \cup {Has("t1", "n2", "p3")}]
Claimed == [Base EXCEPT !.ports = @ \cup {Has("t2", "n1", "p1")},
                        !.entries = @ \cup {Wants(3, "t2", "n1")}]
Shrunk == [servers |-> {3}, ports |-> TwoPorts,
           entries |-> {Wants(3, "t1", "n2")}]

MCServers == 1..3
MCTors == {"t1", "t2"}
MCNames == {"n1", "n2"}
MCPorts == {"p1", "p2", "p3"}
MCGraphOwner == ("p1" :> "t1") @@ ("p2" :> "t1") @@ ("p3" :> "none")
MCKnownServers == {1, 3}
MCViews == {Base, Replaced, Moved, Ambiguous, Claimed, Shrunk}
MCTwoViews == {Base, Moved}
=============================================================================
