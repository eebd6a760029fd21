-------------------------------- MODULE MCGraph --------------------------------
(* The publishers of the graph around a tool, for TLC. *)
EXTENDS Integers

\* Two publishers of one topic that differ in QoS, and one of another type.
MCEndpoints == 1 .. 3
MCInfo ==
    [e \in MCEndpoints |->
       CASE e = 1 -> [topic |-> "/a", type |-> "Scan", reliable |-> TRUE,
                      transient_local |-> TRUE, deadline |-> 1]
         [] e = 2 -> [topic |-> "/a", type |-> "Scan", reliable |-> FALSE,
                      transient_local |-> TRUE, deadline |-> 2]
         [] e = 3 -> [topic |-> "/a", type |-> "Twist", reliable |-> TRUE,
                      transient_local |-> FALSE, deadline |-> 2]]
MCOneEndpoint == {1}
MCNames == {"a"}
MCResolve == [n \in MCNames |-> "/a"]

\* Two topics, one of them with two spellings.
MCMuxInfo ==
    [e \in MCEndpoints |->
       [topic |-> IF e = 2 THEN "/b" ELSE "/a", type |-> "Scan",
        reliable |-> e # 3, transient_local |-> FALSE, deadline |-> 1]]
MCMuxNames == {"a", "/a", "b", "__none"}
MCMuxResolve ==
    [n \in MCMuxNames |-> IF n = "__none" THEN "/__none"
                          ELSE IF n = "b" THEN "/b" ELSE "/a"]
=============================================================================
