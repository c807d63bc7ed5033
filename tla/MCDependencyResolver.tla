------------------------ MODULE MCDependencyResolver ------------------------
(* An instance of DependencyResolver for TLC.                               *)
EXTENDS DependencyResolver

CONSTANTS root, a, b, c    \* package versions

Graph(edges) == [p \in Packages |-> {q \in Packages : <<p, q>> \in edges}]

\* A diamond with a cycle, and a chain that ends at the depth limit.
MCGraphs ==
  {Graph({<<root, a>>, <<root, b>>, <<a, c>>, <<b, c>>, <<c, a>>}),
   Graph({<<root, a>>, <<a, b>>, <<b, c>>})}
=============================================================================
