------------------------------ MODULE MCConsole ------------------------------
EXTENDS Console

ServiceSites == [v \in Services |-> IF v = "v1" THEN "s1" ELSE "s2"]

TwoWindows == {<< "days", 30 >>, << "hours", 12 >>}

\* Two environments, one with two versions of its service.
ThreeEndpoints == {[environment |-> "test", service |-> "api", version |-> 1],
                   [environment |-> "live", service |-> "api", version |-> 1],
                   [environment |-> "live", service |-> "api", version |-> 2]}

AllOrOne == {Reports, {1}}

\* A campaign of each site, and a response to one.
Campaigns2 == [c \in CampaignIds |-> IF c = "c1" THEN "s1" ELSE "s2"]
Answers2   == [r \in Responses |-> "c1"]

OneOrder == {<< "feedback", "updates", "tickets" >>}

\* The pointer within a slot, over a line between slots, and two slots away.
SomeOffsets == {-6, -2, 0, 2, 6}

NoneOrErrors == {{}, {"error"}}
=============================================================================
