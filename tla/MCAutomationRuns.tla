--------------------------- MODULE MCAutomationRuns ---------------------------
(* Instances of AutomationRuns for TLC.                                    *)
EXTENDS AutomationRuns

Save(id)   == Node(id, "state_write")
Call(id)   == Node(id, "action")
Ask(id)    == [Call(id) EXCEPT !.confirm = TRUE]
Wait(id)   == Node(id, "wait")
Event(id)  == Node(id, "await_event")
After(id, node) == [node EXCEPT !.depends_on = @ \cup {id}]
Unless(node) == [node EXCEPT !.when = FALSE]
Foreach(id, times, body) ==
    [Node(id, "foreach") EXCEPT !.times = times, !.graph = body]
Repeat(id, times, body) ==
    [Node(id, "repeat") EXCEPT !.times = times, !.graph = body]

\* Two writes, among nodes the normalisation drops and one that is skipped; a
\* call and an event for each item; approvals and an event in iterations; and a
\* wait in a loop in a loop.
SomeGraphs ==
    {<<Save("a"), Save("a"), Node("x", "shell"),
       Node("q", "state_read"), Foreach("f", 0, <<Call("a")>>),
       Unless(Foreach("c", 1, <<Call("a")>>)),
       After("z", After("a", Save("b")))>>,
     <<Foreach("f", 2, <<Call("a"), Event("e")>>)>>,
     <<Repeat("r", 2, <<Ask("a")>>)>>,
     <<Repeat("r", 1, <<Event("e")>>)>>,
     <<Foreach("f", 1, <<Repeat("r", 2, <<Wait("w")>>)>>),
       After("f", Save("b"))>>}
=============================================================================
