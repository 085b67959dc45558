---------------------------- MODULE ExecutionGraph ----------------------------
(***************************************************************************)
(* The execution graph of a workflow step and where a run stands in it     *)
(* (modules/automation/execution_graph.py, and execute_step of runtime.py).*)
(*                                                                         *)
(* A graph is a sequence of nodes; foreach and repeat nodes hold a nested  *)
(* graph.  execute_step calls itself for every iteration of a loop, and a  *)
(* node that must wait raises through all the calls: each level wraps what *)
(* it knows around the checkpoint of the level below (graph_resume).  Here *)
(* a place in a graph, on the stack or in a checkpoint, is the sequence of *)
(* its levels from the outermost in.                                       *)
(*                                                                         *)
(* What the data of a run decide is part of the graph: whether the "when"  *)
(* of a node holds, how many iterations a loop has (the items, or when the *)
(* until condition holds or max_iterations is reached).                    *)
(***************************************************************************)
EXTENDS Naturals, Sequences, FiniteSets

Loops  == {"foreach", "repeat"}
Pauses == {"wait", "await_event"}
Reads  == {"http_get_json", "web_fetch", "state_read", "transform",
           "condition", "select", "filter", "aggregate"}
Stored == {"ai", "state_write", "state_delete", "notify"}
ALLOWED_GRAPH_NODE_TYPES ==
    Loops \cup Pauses \cup Reads \cup Stored \cup
    {"media", "action", "browser"}

\* complete: its parameters pass the checks of its type; inside: an action of
\* the adapter generic_capability; confirm: an action the owner must approve;
\* interactive: a browser task that clicks or fills.
Node(id, type) ==
    [id |-> id, type |-> type, depends_on |-> {}, when |-> TRUE,
     complete |-> TRUE, inside |-> FALSE, confirm |-> FALSE,
     interactive |-> FALSE, graph |-> <<>>, times |-> 0]

Nodes(graphs) ==
    [id : STRING, type : STRING, depends_on : SUBSET STRING, when : BOOLEAN,
     complete : BOOLEAN, inside : BOOLEAN, confirm : BOOLEAN,
     interactive : BOOLEAN, graph : graphs, times : Nat]

\* Deeper ones have contract errors.
StoredGraphs == Seq(Nodes(Seq(Nodes(Seq(Nodes({<<>>}))))))

\* What a node does: nothing that lasts, work a rollback undoes, or something
\* that somebody outside has seen.
OnlyReads(node) ==
    node.type \in Reads \/ (node.type = "browser" /\ ~node.interactive)
IsDatabaseWork(node) ==
    node.type \in Stored \/ (node.type = "action" /\ node.inside)
IsOutsideWork(node) ==
    \/ node.type = "media"
    \/ node.type = "browser" /\ node.interactive
    \/ node.type = "action" /\ ~node.inside

NeedsApproval(node) ==
    \/ node.type = "action" /\ node.confirm
    \/ node.type = "browser" /\ node.interactive

-----------------------------------------------------------------------------
(* Before a graph runs.                                                    *)

\* normalize_execution_graph: unknown types, second nodes of an id and what is
\* too many go, and dependencies on nodes that do not come before.
Ids(nodes) == {nodes[n].id : n \in 1..Len(nodes)}
Kept(nodes, node) ==
    IF \/ node.type \notin ALLOWED_GRAPH_NODE_TYPES
       \/ node.id \in Ids(nodes)
       \/ Len(nodes) >= 50
    THEN nodes
    ELSE Append(nodes, [node EXCEPT !.depends_on = @ \cap Ids(nodes)])
normalize_execution_graph(raw) ==
    LET nodes[k \in 0..Len(raw)] ==
            IF k = 0 THEN <<>> ELSE Kept(nodes[k - 1], raw[k])
    IN nodes[Len(raw)]

\* The loops do the same with their graphs when a run comes to them.
WithLoops(nodes, graphs) ==
    [n \in 1..Len(nodes) |->
        IF nodes[n].type \in Loops
        THEN [nodes[n] EXCEPT !.graph = graphs[n]] ELSE nodes[n]]
Normal1(raw) ==
    LET nodes == normalize_execution_graph(raw)
    IN WithLoops(nodes, [n \in 1..Len(nodes) |->
                           normalize_execution_graph(nodes[n].graph)])
NormalGraph(raw) ==
    LET nodes == normalize_execution_graph(raw)
    IN WithLoops(nodes, [n \in 1..Len(nodes) |-> Normal1(nodes[n].graph)])

\* The graphs of the loops in some graphs.
NestedGraphs(graphs) ==
    UNION {{g[n].graph : n \in {n \in 1..Len(g) : g[n].type \in Loops}} :
             g \in graphs}

\* graph_contract_errors is empty: a graph with errors does not go live.
\* Loops nest twice at most: MAX_GRAPH_VALIDATION_DEPTH.
HasNoContractErrors(graph) ==
    LET once  == NestedGraphs({graph})
        twice == NestedGraphs(once)
    IN /\ NestedGraphs(twice) = {}
       /\ \A g \in {graph} \cup once \cup twice : \A n \in 1..Len(g) :
             /\ g[n].complete
             /\ g[n].type \in Loops => g[n].graph # <<>>
             /\ g[n].type = "repeat" => g[n].times \in 1..20

-----------------------------------------------------------------------------
(* Places.                                                                 *)

\* A level: the node it is at, the nodes that have outputs, and for a loop
\* its iteration, its results so far, and what woke a pause.
Level(n, outputs) ==
    [node |-> n, node_outputs |-> outputs, kind |-> "leaf", loop_index |-> 0,
     completed_results |-> 0, mark |-> "none"]

Inner(place) == place[Len(place)]

\* node_scope: the path of ids and iterations.
Scope(place) ==
    [k \in 1..Len(place) |-> <<place[k].node, place[k].loop_index>>]

\* The graph that level k of a place runs, and the node it is at.
GraphAt(graph, place, k) ==
    CASE k = 1 -> graph
      [] k = 2 -> graph[place[1].node].graph
      [] k = 3 -> graph[place[1].node].graph[place[2].node].graph
NodeOn(graph, place, k) == GraphAt(graph, place, k)[place[k].node]
NodeAt(graph, place) == NodeOn(graph, place, Len(place))

\* The same of a scope.
Path(scope) == [k \in 1..Len(scope) |-> [node |-> scope[k][1]]]

Start == <<Level(1, {})>>

\* Level k of a place has another node to come, or a loop another iteration.
MoreNodes(graph, place, k) == place[k].node < Len(GraphAt(graph, place, k))
MoreTurns(graph, place, k) ==
    /\ k < Len(place)
    /\ place[k].loop_index + 1 < NodeOn(graph, place, k).times
Open(graph, place) ==
    {k \in 1..Len(place) :
        MoreNodes(graph, place, k) \/ MoreTurns(graph, place, k)}

Turned(level) ==
    [level EXCEPT !.loop_index = @ + 1, !.completed_results = @ + 1]
NextTurn(place, k) ==
    Append([SubSeq(place, 1, k) EXCEPT ![k] = Turned(@)], Level(1, {}))
NextNode(graph, place, k) ==
    [SubSeq(place, 1, k) EXCEPT
       ![k] = Level(@.node + 1,
                    @.node_outputs \cup {NodeOn(graph, place, k).id})]

\* Where a run goes when the node it is at has an output: to the next node, to
\* the next iteration, out of the loop; <<>> when the graph has a result.
Onward(graph, place) ==
    LET last == CHOOSE k \in Open(graph, place) :
                    \A j \in Open(graph, place) : j <= k
    IN IF Open(graph, place) = {} THEN <<>>
       ELSE IF MoreTurns(graph, place, last) THEN NextTurn(place, last)
       ELSE NextNode(graph, place, last)

-----------------------------------------------------------------------------
(* Checkpoints.                                                            *)

\* What the levels wrap around the node that pauses, or that a retry starts
\* at (_compose_retry_graph_resume): its own level is the child_resume of the
\* loops around it.
Paused(level, mark) == [level EXCEPT !.kind = "leaf", !.mark = mark]
Checkpoint(place, mark) == [place EXCEPT ![Len(place)] = Paused(@, mark)]

Received(level) == [level EXCEPT !.mark = "received"]

\* Mutant: the event is noted on the outermost level.
MarkOutermost(checkpoint) == [checkpoint EXCEPT ![1] = Received(@)]

\* _mark_event_received goes into foreach loops only.
MarkEventReceived(checkpoint) ==
    LET k == CHOOSE k \in 1..Len(checkpoint) :
                 /\ checkpoint[k].kind # "foreach"
                 /\ \A j \in 1..k - 1 : checkpoint[j].kind = "foreach"
    IN [checkpoint EXCEPT ![k] = Received(@)]

\* A loop that goes on where the checkpoint is.
Resumes(graph, place, checkpoint) ==
    /\ Len(checkpoint) > Len(place)
    /\ checkpoint[Len(place)].kind = NodeAt(graph, place).type

\* The loop refuses a checkpoint that is not of its items or iterations.
FitsLoop(saved, node) ==
    /\ saved.loop_index < node.times
    /\ saved.completed_results = saved.loop_index

\* The innermost level goes into its loop: at the first iteration, or where
\* the checkpoint is.
Entered(level, type, saved) ==
    [level EXCEPT !.kind = type, !.loop_index = saved.loop_index,
                  !.completed_results = saved.completed_results]
IntoLoop(graph, place, checkpoint) ==
    LET again == Resumes(graph, place, checkpoint)
        saved == IF again THEN checkpoint[Len(place)] ELSE Level(1, {})
        inner == IF again THEN checkpoint[Len(place) + 1] ELSE Level(1, {})
    IN Append([place EXCEPT ![Len(place)] =
                 Entered(@, NodeAt(graph, place).type, saved)],
              Level(inner.node, inner.node_outputs))

\* foreach; without items it has its output at once.
EnterForeach(graph, place, checkpoint) ==
    IF NodeAt(graph, place).times = 0 THEN Onward(graph, place)
    ELSE IntoLoop(graph, place, checkpoint)

\* repeat: it has an iteration at least.
EnterRepeat(graph, place, checkpoint) == IntoLoop(graph, place, checkpoint)

\* The checkpoint the nested graph resumes from: its levels are below.
ChildResume(graph, place, checkpoint) ==
    IF Resumes(graph, place, checkpoint) THEN checkpoint ELSE <<>>

-----------------------------------------------------------------------------
(* The leaves of a graph, in the order of their execution.                 *)

\* Inside the loops among some scopes: node n of iteration i.
InLoop(s, i, n) == Append([s EXCEPT ![Len(s)] = <<@[1], i>>], <<n, 0>>)
Bodies(node, s) ==
    {InLoop(s, i, n) : i \in 0..node.times - 1, n \in 1..Len(node.graph)}
Inside(graph, scopes) ==
    UNION {Bodies(NodeAt(graph, Path(s)), s) :
             s \in {q \in scopes : NodeAt(graph, Path(q)).type \in Loops}}

Leaves(graph) ==
    LET top  == {<<<<n, 0>>>> : n \in 1..Len(graph)}
        once == Inside(graph, top)
    IN {s \in top \cup once \cup Inside(graph, once) :
          NodeAt(graph, Path(s)).type \notin Loops}

\* a comes before b.
IsBefore(a, b) ==
    \E k \in 1..Len(a) :
        /\ k <= Len(b)
        /\ \A j \in 1..k - 1 : a[j] = b[j]
        /\ \/ a[k][1] < b[k][1]
           \/ a[k][1] = b[k][1] /\ a[k][2] < b[k][2]
=============================================================================
