----------------------------- MODULE MCVertexNames -----------------------------
(* VertexNames for TLC: names of one and two labels, so that a name with a dot *)
(* could make two FQDNs equal, and two namespaces.                             *)
EXTENDS VertexNames, TLC

X == <<"x">>

Y == <<"y">>

XX == <<"x", "x">>

MCVertices == {<<>>, X, Y, XX}

\* One namespace with two Pipelines, one of whose names has a dot, and another.
MCPipelines == {<<X, X>>, <<X, XX>>, <<Y, X>>}

MCSuffix == <<"vertexdomain", "local">>

Direct(from, to) == [from |-> from, to |-> to, type |-> "direct"]

\* A vertex with two targets, an edge back, and names with a dot.
MCAnnotations ==
  {<<>>,
   <<Direct(X, Y), Direct(X, X)>>,
   <<Direct(Y, X), [Direct(X, Y) EXCEPT !.type = "multi-isbsvc"]>>,
   <<Direct(XX, Y)>>}

PodSymmetry == Permutations(Pods)

=============================================================================
