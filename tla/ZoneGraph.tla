------------------------------- MODULE ZoneGraph -------------------------------
(***************************************************************************)
(* What passes between packages crawler and sim: a graph of zones, as      *)
(* sim.Graph lets the simulation walk on it.  WeatherSim assumes of its    *)
(* graphs no more than is said here, and what Crawler builds is shown to   *)
(* meet it.                                                                *)
(***************************************************************************)

\* Its nodes are zones; Neighbors answers for any zone name, with zones, with
\* none for a zone outside the graph, and never with the zone that was asked.
IsZoneGraph(g, zones) ==
    /\ g.nodes \subseteq zones
    /\ g.nbrs \in [zones -> SUBSET zones]
    /\ \A z \in zones \ g.nodes : g.nbrs[z] = {}
    /\ \A z \in zones : z \notin g.nbrs[z]
=============================================================================
