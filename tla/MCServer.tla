-------------------------------- MODULE MCServer --------------------------------
EXTENDS Server, TLC

\* The handlers of the lobby, the threads that main launches, the accept events,
\* the Session objects and the packets C_ENTER_GAME are alike.
Symmetry == Permutations(Requests) \cup Permutations(Threads)
               \cup Permutations(AcceptEvents) \cup Permutations(Sessions)
               \cup Permutations(Hosts)

\* Bound: the lobby and the Listener are at rest from the moment when the first
\* C_ENTER_GAME comes.  Their steps and those of the handlers and the jobs have
\* nothing in common but the threads and the clients, all of which are there then.
AtRest ==
    /\ nextRoomId = 2 /\ rooms = {1} /\ server[1] = "launched"
    /\ \A t \in Workers : pc[t] = "idle"
    /\ pending = AcceptEvents /\ Cardinality(sessions) = 1
    /\ UNCHANGED <<lobbyVars, listenerVars>>

Rest == (\E h \in Hosts : stage'[h] # "received") => AtRest

MCSpec == Init /\ [][Next /\ Rest]_vars
=============================================================================
