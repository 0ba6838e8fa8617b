----------------------------- MODULE MCPipeline -----------------------------
(***************************************************************************)
(* Pipelines of a handful of combinators for TLC.                          *)
(***************************************************************************)
EXTENDS Pipeline

CONSTANTS m1, m2, m3, m4

(* poll -> map -> replace -> group_by g -> filter_map, where the sub        *)
(* batches of g are a replace and a filter, a nested group_by h, and        *)
(* nothing at all; those of h are an emit and nothing at all.               *)
Nodes == {"poll", "parse", "first", "g", "last", "ga", "replace", "filter",
          "gb", "h", "ha", "emit", "hc", "gc"}
NodeKind ==
  [poll |-> "poll", parse |-> "map", first |-> "replace", g |-> "group_by",
   last |-> "filter_map", ga |-> "bridge", replace |-> "replace",
   filter |-> "filter", gb |-> "bridge", h |-> "group_by", ha |-> "bridge",
   emit |-> "emit", hc |-> "bridge", gc |-> "bridge"]
NodeUp ==
  [poll |-> "poll", parse |-> "poll", first |-> "parse", g |-> "first",
   last |-> "g", ga |-> "g", replace |-> "ga", filter |-> "replace",
   gb |-> "g", h |-> "gb", ha |-> "h", emit |-> "ha", hc |-> "h", gc |-> "g"]
NodeBranches ==
  [n \in Nodes |-> CASE n = "g" -> {"filter", "h", "gc"}
                     [] n = "h" -> {"emit", "hc"}
                     [] OTHER -> {}]
NodeChain[n \in Nodes] ==
  {n} \union (IF NodeKind[n] \in {"poll", "bridge"} THEN {}
              ELSE NodeChain[NodeUp[n]])
NodeCatchall == [g |-> "gc", h |-> "hc"]

=============================================================================
