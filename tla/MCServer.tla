------------------------------ MODULE MCServer ------------------------------
EXTENDS Server

CONSTANTS r1, r2, d1, d2, s1, s2

\* A driver and a dispatcher.
MCPrincipal ==
    [s \in Sessions |-> IF s = s1 THEN [role |-> "driver", driver |-> d1]
                        ELSE [role |-> "dispatcher", driver |-> NoOne]]

\* Streams of advancing routes, with few messages and with more; drivers' breaks; drivers'
\* events; webhooks; lists read by pages.
MCWorkloads ==
    {[kinds |-> {"plan", "assign", "advance", "socket"}, calls |-> 3, messages |-> 3],
     [kinds |-> {"plan", "advance", "socket"}, calls |-> 2, messages |-> 4],
     [kinds |-> {"assign", "hos", "socket"}, calls |-> 2, messages |-> 3],
     [kinds |-> {"plan", "assign", "patch", "hos", "events", "advance"},
      calls |-> 4, messages |-> 0],
     [kinds |-> {"plan", "events", "subscriptions", "retry"}, calls |-> 5, messages |-> 0],
     [kinds |-> {"walk", "orders", "geofences", "subscriptions", "plan"},
      calls |-> 5, messages |-> 0]}

\* The first subscription asks for advances only.
MCWants ==
    [h \in 1 .. MaxCalls |-> IF h = 1 THEN {"stop.advanced"} ELSE EventTypes]

=============================================================================
