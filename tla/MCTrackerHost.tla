---------------------------- MODULE MCTrackerHost ----------------------------
EXTENDS TrackerHost

Site(campaigns, feedback, updates) ==
  [campaigns |-> campaigns, feedback |-> feedback, updates |-> updates, sampled |-> TRUE]

\* A page: the site, the script tag and the providers on it, and its bounds.
Of(site, script, providers, bounds) ==
  [site |-> site, optout |-> FALSE, script |-> script, providers |-> providers,
   bounds |-> bounds @@ [e \in Events |-> 0]]

Plain == Site(FALSE, "off", FALSE)

HostPages ==
  { Of(Plain, TRUE, {1, 2}, "unmount" :> 2 @@ "stop" :> 1 @@ "claim" :> 1 @@ "navigate" :> 1),
    Of(Plain, TRUE, {}, "lose" :> 3 @@ "stop" :> 1 @@ "claim" :> 1 @@ "call" :> 1),
    [Of(Plain, TRUE, {1}, "claim" :> 1) EXCEPT !.optout = TRUE],
    [Of(Plain, TRUE, {1}, "claim" :> 1) EXCEPT !.site.sampled = FALSE],
    Of(Site(TRUE, "off", TRUE), TRUE, {}, "expand" :> 2 @@ "other" :> 1),
    Of(Site(TRUE, "off", FALSE), TRUE, {}, "expand" :> 2 @@ "other" :> 1 @@ "lose" :> 1),
    Of(Site(TRUE, "off", FALSE), TRUE, {}, "expand" :> 1 @@ "other" :> 1 @@ "call" :> 1 @@ "lose" :> 3),
    Of(Site(TRUE, "always", FALSE), TRUE, {}, "expand" :> 1 @@ "open" :> 1 @@ "call" :> 1 @@ "lose" :> 1),
    Of(Site(TRUE, "action", TRUE), TRUE, {},
       "expand" :> 1 @@ "open" :> 1 @@ "call" :> 2 @@ "lose" :> 1),
    Of(Site(TRUE, "action", FALSE), TRUE, {},
       "expand" :> 1 @@ "call" :> 1 @@ "stop" :> 1 @@ "lose" :> 2) }
=============================================================================
