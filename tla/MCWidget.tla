------------------------------ MODULE MCWidget ------------------------------
EXTENDS Widget

\* A page: its sections, what the server holds, and what happens to it how often.
Page(sections, posts, tickets, sockets, bounds) ==
  [sections |-> sections, first |-> FirstSection(sections), posts |-> posts, tickets |-> tickets,
   sockets |-> sockets, bounds |-> bounds @@ [e \in Events |-> 0]]

Waiting  == 1 :> <<"visitor">>
Answers2 == Waiting @@ 2 :> <<"visitor", "staff">>
Faults   == "change" :> 1 @@ "drop" :> 1 @@ "lose" :> 1

SafetyPages ==
  { Page({"updates"}, {1}, Nothing, TRUE, Faults),
    Page({"updates"}, {}, Nothing, TRUE, "change" :> 1),
    Page({"updates"}, {1}, Nothing, FALSE, "change" :> 1 @@ "age" :> 1),
    Page({"feedback", "updates"}, {1}, Nothing, FALSE, "comment" :> 1),
    Page({"tickets"}, {}, Waiting, FALSE, "change" :> 1 @@ "reply" :> 1),
    Page({"tickets"}, {}, Waiting, TRUE, "change" :> 1 @@ "lose" :> 1),
    Page({"tickets"}, {}, Waiting, FALSE, "lose" :> 2),
    Page({"tickets"}, {}, Waiting, FALSE, "reply" :> 1 @@ "lose" :> 1),
    Page({"tickets"}, {}, Answers2, FALSE, "change" :> 1),
    Page({"tickets"}, {}, Nothing, FALSE, "create" :> 1 @@ "lose" :> 1 @@ "hide" :> 1),
    Page({"tickets", "updates"}, {1}, Waiting, FALSE, "age" :> 1),
    Page({"tickets"}, {}, Nothing, FALSE, "create" :> 1 @@ "change" :> 1),
    Page({"tickets"}, {}, Waiting @@ 2 :> <<"visitor">>, FALSE, "reply" :> 1),
    Page({"updates"}, {1}, Nothing, FALSE, "drag" :> 1 @@ "resize" :> 1 @@ "icon" :> 2) }

LivePages ==
  { Page({"updates"}, {1}, Nothing, FALSE, "change" :> 1 @@ "lose" :> 1 @@ "hide" :> 1),
    Page({"tickets"}, {}, Waiting, FALSE, "lose" :> 2) }
=============================================================================
