--------------------------- MODULE MCSessionStore ---------------------------
EXTENDS SessionStore, TLC

CONSTANTS l1, l2, l3, o1, t0, c1, c2, w1

\* Two web logins; an app login and a web login; two web logins and an app login.
BothWeb == (l1 :> "web") @@ (l2 :> "web") @@ (l3 :> "app")
AppWeb  == (l1 :> "app") @@ (l2 :> "web") @@ (l3 :> "app")

\* An app and a web login while the password changes, and no call fails.
Revoked ==
    [active |-> {l1, l2, c1, w1}, flagOf |-> AppWeb, cap |-> 2,
     maxFaults |-> 0, maxSnapshots |-> 0]
\* A web login and two changes of the password.
Changed ==
    [active |-> {l1, c1, c2, w1}, flagOf |-> BothWeb, cap |-> 2,
     maxFaults |-> 1, maxSnapshots |-> 0]
\* Two web logins and a logout share one token, and there is room for one session.
Shared ==
    [active |-> {l1, l2, o1}, flagOf |-> BothWeb, cap |-> 1,
     maxFaults |-> 1, maxSnapshots |-> 1]
\* Two web logins promote one token while an app login looks for room.
Squeezed ==
    [active |-> {l1, l2, l3}, flagOf |-> BothWeb, cap |-> 1,
     maxFaults |-> 0, maxSnapshots |-> 1]
\* Two changes of the password by themselves.
Alone ==
    [active |-> {c1, c2, w1}, flagOf |-> BothWeb, cap |-> 1,
     maxFaults |-> 2, maxSnapshots |-> 0]

FiveWorlds == {Revoked, Changed, Shared, Squeezed, Alone}
=============================================================================
