---------------------------- MODULE WorkflowDag ----------------------------
(***************************************************************************)
(* WorkflowDag: the topology of a static workflow.  Nodes are numbered by  *)
(* their declaration position; dep maps a node to its dependencies.        *)
(***************************************************************************)
EXTENDS Naturals, Sequences, FiniteSets, Functions, SequencesExt

Dependents(dep, n) == {m \in DOMAIN dep : n \in dep[m]}

\* Mutant: the search keeps one dependent of each node.
Grow_first(dep, found) ==
  found \cup {CHOOSE m \in Dependents(dep, n) : TRUE :
                n \in {q \in found : Dependents(dep, q) # {}}}

\* One round of the search: the dependents of what was found are found.
Grow(dep, found) == found \cup UNION {Dependents(dep, n) : n \in found}

\* The nodes reachable from the roots, the roots included.
descendants(dep, roots) ==
  LET Found[i \in Nat] == IF i = 0 THEN roots ELSE Grow(dep, Found[i - 1])
  IN  Found[Cardinality(DOMAIN dep)]

\* Nodes whose dependencies are all done.
Ready(dep, done) == {n \in DOMAIN dep \ done : dep[n] \subseteq done}

\* Ready nodes leave the heap in declaration order.
NextReady(dep, done) ==
  LET ready == Ready(dep, done) IN CHOOSE n \in ready : \A m \in ready : n <= m

\* Shorter than the graph when the graph has a cycle.
topological_order(dep) ==
  LET Order[i \in Nat] ==
        IF i = 0 THEN <<>>
        ELSE IF Ready(dep, Range(Order[i - 1])) = {} THEN Order[i - 1]
        ELSE Append(Order[i - 1], NextReady(dep, Range(Order[i - 1])))
  IN  Order[Cardinality(DOMAIN dep)]

-----------------------------------------------------------------------------
(* Reference definitions. *)

\* There is a path of dependencies from one node to another.
Path(dep, a, b) ==
  \E p \in SeqOf(DOMAIN dep, Cardinality(DOMAIN dep)) :
    /\ p # <<>> /\ p[1] = a /\ p[Len(p)] = b
    /\ \A i \in 1 .. Len(p) - 1 : p[i] \in dep[p[i + 1]]

Cyclic(dep) == \E n \in DOMAIN dep : \E m \in dep[n] : Path(dep, n, m)

\* Positions of an order that respects every dependency.
Respects(dep, order) ==
  \A i \in DOMAIN order : dep[order[i]] \subseteq {order[j] : j \in 1 .. i - 1}

\* What WorkflowDag promises of one graph.
GraphIsRight(dep) ==
  /\ \A roots \in SUBSET DOMAIN dep :
       descendants(dep, roots) = {b \in DOMAIN dep : \E a \in roots : Path(dep, a, b)}
  /\ LET order == topological_order(dep)
     IN  /\ Respects(dep, order)
         /\ Len(order) = Cardinality(Range(order))
         /\ Cyclic(dep) <=> Len(order) < Cardinality(DOMAIN dep)

\* bound: nodes of the graphs that are compared with the reference definitions
MaxNodes == 3

EveryGraphIsRight ==
  \A dep \in [1 .. MaxNodes -> SUBSET (1 .. MaxNodes)] :
    (\A n \in 1 .. MaxNodes : n \notin dep[n]) => GraphIsRight(dep)
=============================================================================
