---------------------------- MODULE GraphObject ----------------------------
(***************************************************************************)
(* ida::graph::Graph (Graph::Impl of src/graph.cpp), the graph programs    *)
(* build before they show it: nodes that are marked dead and never moved,  *)
(* an edge list, groups, and the breadth-first search behind path_exists.  *)
(* One client owns a Graph; the calls it makes are the steps.              *)
(***************************************************************************)
EXTENDS Integers, Sequences, FiniteSets, SequencesExt, Selections

CONSTANTS
  MaxNodes,        \* bound: nodes and groups between two calls of clear()
  MaxEdges,        \* bound: edges at a time
  MemberLists,     \* the vectors clients pass to create_group
  Targets          \* the ids clients pass to replace_edge as new endpoints

ASSUME GraphAssumption ==
  /\ MaxNodes \in Nat /\ MaxEdges \in Nat
  /\ MemberLists \subseteq Seq(Int)
  /\ Targets \subseteq Int

VARIABLES
  nodes,      \* node n is nodes[n + 1]
  edge_list   \* edges as pairs, in the order they were added

gvars == <<nodes, edge_list>>

NodeId == 0 .. MaxNodes - 1
(* Endpoints of edges: ids that add_edge checked, or replace_edge did not. *)
Endpoint == NodeId \cup Targets

NodeData == [alive : BOOLEAN, is_group : BOOLEAN, collapsed : BOOLEAN,
             parent_group : NodeId \cup {-1}, children : Seq(NodeId)]

GraphTypeOK ==
  /\ nodes \in Seq(NodeData)
  /\ edge_list \in Seq(Endpoint \X Endpoint)

GraphInit ==
  /\ nodes = << >>
  /\ edge_list = << >>

-----------------------------------------------------------------------------
total_count == Len(nodes)
valid(n) == n \in 0 .. total_count - 1 /\ nodes[n + 1].alive
visible_nodes == {n \in NodeId : valid(n)}
IsGroup(n) == valid(n) /\ nodes[n + 1].is_group

Incident(n, e) == e[1] = n \/ e[2] = n
Edges == Range(edge_list)

(* Bounds of the model. *)
RoomForNode == total_count < MaxNodes
RoomForEdge == Len(edge_list) < MaxEdges

Plain == [alive |-> TRUE, is_group |-> FALSE, collapsed |-> FALSE,
          parent_group |-> -1, children |-> << >>]

add_node ==
  /\ RoomForNode
  /\ nodes' = Append(nodes, Plain)
  /\ UNCHANGED edge_list

remove_node_KeepsIncoming(n) ==
  /\ valid(n)
  /\ nodes' = [nodes EXCEPT ![n + 1].alive = FALSE]
  /\ edge_list' = Picked(edge_list, {i \in DOMAIN edge_list : edge_list[i][1] # n})

(* An id that is not valid is an error, here and below, and no change. *)
remove_node(n) ==
  /\ valid(n)
  /\ nodes' = [nodes EXCEPT ![n + 1].alive = FALSE]
  /\ edge_list' = Picked(edge_list, {i \in DOMAIN edge_list : ~Incident(n, edge_list[i])})

add_edge(s, t) ==
  /\ RoomForEdge
  /\ valid(s) /\ valid(t)
  /\ edge_list' = Append(edge_list, <<s, t>>)
  /\ UNCHANGED nodes

(* Of parallel edges the first one is removed, or replaced. *)
remove_edge(s, t) ==
  /\ <<s, t>> \in Edges
  /\ edge_list' = RemoveFirst(edge_list, <<s, t>>)
  /\ UNCHANGED nodes

(* The new endpoints are not checked. *)
replace_edge(from, to, new_from, new_to) ==
  /\ <<from, to>> \in Edges
  /\ LET i == SelectInSeq(edge_list, LAMBDA e : e = <<from, to>>)
     IN  edge_list' = [edge_list EXCEPT ![i] = <<new_from, new_to>>]
  /\ UNCHANGED nodes

-----------------------------------------------------------------------------
(* Groups.  Members that do not exist are skipped; the group itself does,  *)
(* its node is the first thing made.                                       *)

GroupOf(known) ==
  LET gid == total_count
      node(i) == IF i = gid + 1
                 THEN [Plain EXCEPT !.is_group = TRUE, !.children = known]
                 ELSE nodes[i]
  IN  [i \in 1 .. gid + 1 |->
         IF i - 1 \in ToSet(known) THEN [node(i) EXCEPT !.parent_group = gid] ELSE node(i)]

create_group_KeepsUnknown(members) ==
  /\ RoomForNode
  /\ nodes' = GroupOf(members)
  /\ UNCHANGED edge_list

create_group(members) ==
  /\ RoomForNode
  /\ nodes' = GroupOf(Picked(members, {k \in DOMAIN members :
                                         valid(members[k]) \/ members[k] = total_count}))
  /\ UNCHANGED edge_list

(* The members are let go, then the group's node dies; its edges stay in   *)
(* the list.                                                               *)
delete_group(g) ==
  /\ IsGroup(g)
  /\ nodes' = [i \in DOMAIN nodes |->
                 [nodes[i] EXCEPT !.alive = @ /\ i # g + 1,
                                  !.parent_group =
                                    IF valid(i - 1) /\ i - 1 \in ToSet(nodes[g + 1].children)
                                    THEN -1 ELSE @]]
  /\ UNCHANGED edge_list

set_group_expanded(g, expanded) ==
  /\ IsGroup(g)
  /\ nodes' = [nodes EXCEPT ![g + 1].collapsed = ~expanded]
  /\ UNCHANGED edge_list

(* Ids start again from 0. *)
clear ==
  /\ nodes' = << >>
  /\ edge_list' = << >>

-----------------------------------------------------------------------------
(* path_exists: breadth-first over the whole edge list for every node of   *)
(* the queue.  `found` is the early return from inside the inner loop.     *)

Visit_SkipsLowerIds(target, b, e) ==
  IF b.found \/ e[1] # b.cur THEN b
  ELSE IF e[2] = target THEN [b EXCEPT !.found = TRUE]
  ELSE IF e[2] \in 0 .. total_count - 1 /\ e[2] > b.cur
  THEN [b EXCEPT !.visited = @ \cup {e[2]}, !.queue = Append(@, e[2])]
  ELSE b

Visit(target, b, e) ==
  IF b.found \/ e[1] # b.cur THEN b
  ELSE IF e[2] = target THEN [b EXCEPT !.found = TRUE]
  ELSE IF e[2] \in 0 .. total_count - 1 /\ e[2] \notin b.visited
  THEN [b EXCEPT !.visited = @ \cup {e[2]}, !.queue = Append(@, e[2])]
  ELSE b

(* One turn of the outer loop goes through the edges for one id. *)
Scan(target, b) ==
  LET after[i \in 0 .. Len(edge_list)] ==
        IF i = 0 THEN [b EXCEPT !.cur = Head(b.queue), !.queue = Tail(b.queue)]
        ELSE Visit(target, after[i - 1], edge_list[i])
  IN  after[Len(edge_list)]

(* The search when it is over: total_count turns are enough, for no id is  *)
(* in the queue twice.                                                     *)
Over(b) == b.found \/ b.queue = << >>
Search(source, target) ==
  LET turn[n \in 0 .. total_count] ==
        IF n = 0
        THEN [cur |-> source, queue |-> <<source>>, visited |-> {source}, found |-> FALSE]
        ELSE LET b == turn[n - 1] IN IF Over(b) THEN b ELSE Scan(target, b)
  IN  turn[total_count]

path_exists(source, target) ==
  \/ source = target
  \/ valid(source) /\ valid(target) /\ Search(source, target).found

-----------------------------------------------------------------------------
GraphNext ==
  \/ add_node
  \/ \E n \in NodeId : remove_node(n) \/ delete_group(n)
  \/ \E s, t \in NodeId : add_edge(s, t)
  \/ \E e \in Edges : remove_edge(e[1], e[2])
  \/ \E e \in Edges : \E s, t \in Targets : replace_edge(e[1], e[2], s, t)
  \/ \E members \in MemberLists : create_group(members)
  \/ \E g \in NodeId, expanded \in BOOLEAN : set_group_expanded(g, expanded)
  \/ clear

GraphSpec == GraphInit /\ [][GraphNext]_gvars

-----------------------------------------------------------------------------
(* Properties. *)

(* Reachability: the target is in every set of ids that has the source and *)
(* that no edge between ids leads out of.                                  *)
Ids == 0 .. total_count - 1
Closed(S) == \A e \in Edges : e[1] \in S /\ e[2] \in Ids => e[2] \in S
Reaches(source, target) ==
  \A S \in SUBSET Ids : source \in S /\ Closed(S) => target \in S

(* path_exists(s, t) is reachability: between live nodes the search comes  *)
(* to an end, and answers whether the edge list, as edited so far, leads   *)
(* from s to t through ids of the graph, whatever cycles, parallel and     *)
(* dangling edges there are.  (It includes that the variables have their   *)
(* types.)                                                                 *)
PathExistsIsReachability ==
  /\ GraphTypeOK
  /\ \A s, t \in visible_nodes :
       /\ Over(Search(s, t))
       /\ path_exists(s, t) <=> Reaches(s, t)

(* "Remove a node and all its incident edges", for every history of groups *)
(* and redirected edges: an edge that joins two live nodes goes on doing   *)
(* so as long as it is in the list.  Only delete_group may kill its end.   *)
EdgesKeepTheirEnds ==
  [][\A e \in Edges \cap Edges' :
       valid(e[1]) /\ valid(e[2]) =>
         \/ (valid(e[1]) /\ valid(e[2]))'
         \/ delete_group(e[1]) \/ delete_group(e[2])]_gvars

=============================================================================
