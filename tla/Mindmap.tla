------------------------------- MODULE Mindmap -------------------------------
(***************************************************************************)
(* The order and the clusters in which the page draws sessions as a map    *)
(* (console/public/dashboard.js), for any record of who is whose mother:   *)
(* mothers that are gone, sessions that are their own mother, and cycles.  *)
(* Of a place only the cluster and the ring around its root are kept.      *)
(*                                                                         *)
(* A loop is a step repeated as often as it can be if it ends: its work    *)
(* list is then empty.                                                     *)
(***************************************************************************)
EXTENDS SessionGraph

(* What the visible sessions say: their ids in order, and their mothers. *)
Lineage(nodes, mother) == [nodes |-> nodes, mother |-> mother]

Repeat(Step(_), start, times) ==
  LET after[n \in 0..times] == IF n = 0 THEN start ELSE Step(after[n - 1])
  IN  after[times]

(* A session that is its own mother, or whose mother is not there, has     *)
(* none.                                                                   *)
Mother(l, id) == IF l.mother[id] \in ToSet(l.nodes) \ {id} THEN l.mother[id] ELSE Null

Rootish(l) == SelectSeq(l.nodes, LAMBDA id : Mother(l, id) = Null)

mindmapChildMap(l) ==
  [id \in ToSet(l.nodes) |-> SelectSeq(l.nodes, LAMBDA kid : Mother(l, kid) = id)]

(* Depth first, each node when it is first taken from the stack. *)
Visit1(children, w) ==
  IF w.stack = <<>> THEN w
  ELSE LET id   == Head(w.stack)
           rest == Tail(w.stack)
       IN  IF id \in ToSet(w.order) THEN [w EXCEPT !.stack = rest]
           ELSE [stack |-> children[id] \o rest, order |-> Append(w.order, id)]

mindmapOrder(l) ==
  LET children == mindmapChildMap(l)
      walk(w, id) == Repeat(LAMBDA x : Visit1(children, x), [w EXCEPT !.stack = <<id>> \o @], Len(l.nodes) + 1)
      start == [stack |-> <<>>, order |-> <<>>]
      roots == FoldLeft(walk, start, Rootish(l))
  IN  FoldLeft(LAMBDA w, id : IF id \in ToSet(w.order) THEN w ELSE walk(w, id), roots, l.nodes)

(* Mutant: no guard against cycles. *)
AllKids(kids, visited) == kids

(* The cycle guard. *)
NewKids(kids, visited) == SelectSeq(kids, LAMBDA kid : kid \notin visited)

(* Breadth first, each node when it is first put into the queue. *)
Spread(children, c) ==
  IF c.queue = <<>> THEN c
  ELSE LET id   == Head(c.queue)
           kids == NewKids(children[id], DOMAIN c.depthOf \cup c.visited)
       IN  [c EXCEPT !.queue = Tail(@) \o kids, !.members = Append(@, id),
                     !.depthOf = [k \in DOMAIN @ \cup ToSet(kids) |->
                                    IF k \in ToSet(kids) THEN c.depthOf[id] + 1 ELSE c.depthOf[k]]]

mindmapClusters(l) ==
  LET children == mindmapChildMap(l)
      Members(clusters) == UNION {ToSet(clusters[i].members) : i \in DOMAIN clusters}
      build(clusters, id) ==
        IF id \in Members(clusters) THEN clusters
        ELSE Append(clusters, Repeat(LAMBDA c : Spread(children, c),
                    [rootId |-> id, members |-> <<>>, queue |-> <<id>>,
                     visited |-> Members(clusters), depthOf |-> [k \in {id} |-> 0]],
                    Len(l.nodes) + 1))
  IN  FoldLeft(build, FoldLeft(build, <<>>, Rootish(l)), l.nodes)

(* mindmapPlaceCluster: a node is placed by its mother, and only on the    *)
(* next ring.                                                              *)
Placed(l, cluster) ==
  {cluster.rootId} \cup
  {id \in ToSet(cluster.members) :
     LET p == Mother(l, id)
     IN  p \in ToSet(cluster.members) /\ cluster.depthOf[id] = cluster.depthOf[p] + 1}

mindmapLineageText(l, id) ==
  IF l.mother[id] = Null THEN "root"
  ELSE IF l.mother[id] = id THEN "itself"
  ELSE IF l.mother[id] \notin ToSet(l.nodes) THEN "not in the store"
  ELSE "child"

(* renderMindmapEdges: of the edges of the graph those between two that are *)
(* visible.                                                                *)
Threads(l, edges) == {e \in edges : {e[1], e[2]} \subseteq ToSet(l.nodes)}

-----------------------------------------------------------------------------
(* What the rings are measured by: how many mothers up, stopping before    *)
(* anyone comes twice.                                                     *)
Generation(l, id) ==
  LET up(path) == LET p == Mother(l, Last(path))
                  IN  IF p = Null \/ p \in ToSet(path) THEN path ELSE Append(path, p)
  IN  Len(Repeat(up, <<id>>, Len(l.nodes))) - 1

(* Every visible session is drawn once and in one cluster, whatever they   *)
(* say of each other: the order and the clusters, found by two different   *)
(* walks, have the same sessions; each is placed, one ring out from its    *)
(* mother, at the depth of its line of mothers unless that is a cycle; and *)
(* is called a child if and only if a thread of the server's graph leads   *)
(* to it, which comes from its mother and stays in one cluster.  (Only     *)
(* where mothers form a cycle does a thread lead to the root of a cluster, *)
(* from within it or from another: the first of the list is taken to be    *)
(* the root, though it may only hang on the cycle.)                        *)
Drawn(l, edges) ==
  LET order    == mindmapOrder(l)
      clusters == mindmapClusters(l)
      ids      == ToSet(l.nodes)
      In(id)   == {i \in DOMAIN clusters : id \in Placed(l, clusters[i])}
      Top(i)   == clusters[i].rootId
  IN  /\ order.stack = <<>>
      /\ ToSet(order.order) = ids /\ Len(order.order) = Cardinality(ids)
      /\ \A id \in ids : Cardinality(In(id)) = 1
      /\ \A i \in DOMAIN clusters :
           /\ clusters[i].queue = <<>>
           /\ Len(clusters[i].members) = Cardinality(DOMAIN clusters[i].depthOf)
           /\ Mother(l, Top(i)) = Null =>
                \A id \in ToSet(clusters[i].members) : clusters[i].depthOf[id] = Generation(l, id)
           /\ Mother(l, Top(i)) # Null =>
                \A id \in ToSet(clusters[i].members) : Mother(l, id) # Null
      /\ \A id \in ids : mindmapLineageText(l, id) = "child" <=> <<l.mother[id], id>> \in Threads(l, edges)
      /\ \A e \in Threads(l, edges) :
           /\ e[1] = Mother(l, e[2])
           /\ In(e[1]) = In(e[2]) \/ \E i \in DOMAIN clusters : Top(i) = e[2]

=============================================================================
