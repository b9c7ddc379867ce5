------------------------- MODULE MCPipelineAdmission -------------------------
(* PipelineAdmission for TLC: vertices v1 -> v2 -> v3. *)
EXTENDS PipelineAdmission

CONSTANTS v1, v2, v3, n1, n2

MCVertices == {v1, v2, v3}

MCEdges == {<<v1, v2>>, <<v2, v3>>}

Direct(from, to, net) == [from |-> from, to |-> to, net |-> net, type |-> "direct"]

List(list) == [kind |-> "ok", list |-> list]

\* An annotation that is no list; bindings to two networks, one of them used
\* twice; and a connection type that is not supported, with an edge that does not
\* exist.
MCAnnotations ==
  {[kind |-> "bad", list |-> <<>>],
   List(<<Direct(v1, v2, n1), Direct(v2, v3, n2), Direct(v2, v3, n1)>>),
   List(<<[Direct(v1, v2, n1) EXCEPT !.type = "multi-isbsvc"], Direct(v1, v3, n2)>>)}

\* One edge on one network.
OneBinding == {List(<<Direct(v1, v2, n1)>>)}

=============================================================================
