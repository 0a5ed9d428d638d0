----------------------------- MODULE Membership -----------------------------
(***************************************************************************)
(* What a service promises to Server (src/src/server.rs): it has one set   *)
(* of members, which changes only at the request of Server, one connection *)
(* at a time, and a connection that is released is no member from that     *)
(* moment on.  The two maps of the service, the snapshots and the thread   *)
(* are not visible.                                                        *)
(***************************************************************************)
CONSTANT Conns

VARIABLES
    members,    \* the connections the service sends to, now or after a snapshot
    conn,       \* "idle" before add_connection, "open", "closed"
    active      \* Server has not been dropped

vars == <<members, conn, active>>

Init ==
    /\ members = {}
    /\ conn = [c \in Conns |-> "idle"]
    /\ active = TRUE

\* add_connection, with or without a subscription.
Open(c) ==
    /\ active /\ conn[c] = "idle"
    /\ conn' = [conn EXCEPT ![c] = "open"]
    /\ members' = members \/ members' = members \cup {c}
    /\ UNCHANGED active

\* remove_connection
Release(c) ==
    /\ active /\ conn[c] = "open"
    /\ conn' = [conn EXCEPT ![c] = "closed"]
    /\ members' = members \ {c}
    /\ UNCHANGED active

\* subscribe(.., true) and subscribe(.., false)
Enter(c) ==
    /\ active /\ conn[c] = "open"
    /\ members' = members \cup {c}
    /\ UNCHANGED <<conn, active>>

Leave(c) ==
    /\ active /\ conn[c] = "open"
    /\ members' = members \ {c}
    /\ UNCHANGED <<conn, active>>

Shutdown ==
    /\ active
    /\ active' = FALSE
    /\ UNCHANGED <<members, conn>>

\* After the shutdown nobody is left to release the connection.
CloseAlone(c) ==
    /\ ~active /\ conn[c] = "open"
    /\ conn' = [conn EXCEPT ![c] = "closed"]
    /\ UNCHANGED <<members, active>>

Next ==
    \/ \E c \in Conns : \/ Open(c) \/ Release(c) \/ Enter(c) \/ Leave(c)
                        \/ CloseAlone(c)
    \/ Shutdown

Spec == Init /\ [][Next]_vars
=============================================================================
