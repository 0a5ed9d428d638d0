------------------------------ MODULE Service ------------------------------
(***************************************************************************)
(* One service of the controlled side (src/server/service.rs) with the     *)
(* calls that Server (src/server.rs) makes on it.                          *)
(*                                                                         *)
(* A service is a RwLock around two maps of subscribers and a thread of    *)
(* its own.  Connections enter and leave through Server, whose write lock  *)
(* serialises them; the service thread takes only the service's own lock,  *)
(* so it runs between any two acquisitions of that lock by a Server call.  *)
(* One action is one acquisition of the service's lock together with the   *)
(* thread-private work around it.                                          *)
(*                                                                         *)
(* The callback is the one of the state-publishing services: run_cursor    *)
(* when the service needs a snapshot, run_pos when it does not             *)
(* (src/server/input_service.rs).                                          *)
(***************************************************************************)
EXTENDS FiniteSets

CONSTANTS
    Conns,      \* connection ids handed out by Server::get_new_id
    Values      \* the cursors (or positions) the callback can observe

Nil  == "nil"   \* StateCursor::default(): nothing published yet
None == "none"  \* nothing sent to this subscriber in its subscription

ASSUME ValuesAssumption == Nil \notin Values /\ None \notin Values

VARIABLES
    subscribes,      \* ServiceInner.subscribes
    new_subscribes,  \* ServiceInner.new_subscribes
    need_snapshot,   \* ServiceInner.need_snapshot, fixed at creation
    active,          \* ServiceInner.active
    conn,            \* "idle" before add_connection, "open", "closed"
    call,            \* the Server::subscribe call that holds Server's lock
    pc,              \* where the service thread is
    may_reset,       \* local of ServiceTmpl::repeat
    state,           \* StateCursor / StatePos, owned by the thread
    joined,          \* Server's Drop has joined the thread
    seen,            \* history: last value sent to a connection since it subscribed
    late             \* history: subscribed after the snapshot was sent, before the swap

inner  == <<subscribes, new_subscribes, need_snapshot>>
thread == <<pc, may_reset, state>>
hist   == <<seen, late>>
vars   == <<inner, active, conn, call, thread, joined, hist>>

NoCall == [conn |-> "none", sub |-> FALSE, at |-> "none"]
Calls  == [conn : Conns, sub : BOOLEAN, at : {"subscribes", "new_subscribes", "subscribe"}]
Seen   == Values \cup {Nil, None}

TypeOK ==
    /\ subscribes \subseteq Conns
    /\ new_subscribes \subseteq Conns
    /\ need_snapshot \in BOOLEAN
    /\ active \in BOOLEAN
    /\ conn \in [Conns -> {"idle", "open", "closed"}]
    /\ call \in Calls \cup {NoCall}
    /\ pc \in {"loop", "subs", "call", "snap", "send", "drop", "exit"}
    /\ may_reset \in BOOLEAN
    /\ state \in Values \cup {Nil}
    /\ joined \in BOOLEAN
    /\ seen \in [Conns -> Seen]
    /\ late \subseteq Conns

Init ==
    /\ subscribes = {} /\ new_subscribes = {}
    /\ need_snapshot \in BOOLEAN
    /\ active = TRUE
    /\ conn = [c \in Conns |-> "idle"]
    /\ call = NoCall
    /\ pc = "loop" /\ may_reset = FALSE /\ state = Nil
    /\ joined = FALSE
    /\ seen = [c \in Conns |-> None] /\ late = {}

----------------------------------------------------------------------------
(* The operations on ServiceInner, each under one acquisition of its lock. *)

has_subscribes == subscribes # {} \/ new_subscribes # {}

\* A subscriber that enters the waiting map is late when the snapshot has
\* been sent and the waiting map has not been merged yet.
EnterNew(c) ==
    /\ new_subscribes' = new_subscribes \cup {c}
    /\ late' = IF pc = "drop" /\ c \notin new_subscribes THEN late \cup {c} ELSE late
    /\ UNCHANGED <<subscribes, seen>>

\* A mutation of on_subscribe: the early return for a subscribed id is lost.
on_subscribe_without_return(c) ==
    IF need_snapshot
    THEN EnterNew(c)
    ELSE subscribes' = subscribes \cup {c} /\ UNCHANGED <<new_subscribes, seen, late>>

on_subscribe(c) ==
    IF c \in subscribes
    THEN UNCHANGED <<subscribes, new_subscribes, seen, late>>
    ELSE IF need_snapshot
    THEN EnterNew(c)
    ELSE subscribes' = subscribes \cup {c} /\ UNCHANGED <<new_subscribes, seen, late>>

\* A mutation of on_unsubscribe: a subscriber that still waits for its
\* snapshot is forgotten.
on_unsubscribe_subscribes_only(c) ==
    /\ subscribes' = subscribes \ {c}
    /\ new_subscribes' = new_subscribes
    /\ seen' = [seen EXCEPT ![c] = None]
    /\ late' = late \ {c}

on_unsubscribe(c) ==
    /\ subscribes' = subscribes \ {c}
    /\ new_subscribes' = IF c \in subscribes THEN new_subscribes ELSE new_subscribes \ {c}
    /\ seen' = [seen EXCEPT ![c] = None]
    /\ late' = late \ {c}

send_to_set(receivers, v) ==
    seen' = [c \in Conns |-> IF c \in receivers THEN v ELSE seen[c]]

----------------------------------------------------------------------------
(* Server: its write lock is held by at most one call at a time, and none  *)
(* is possible once Server is being dropped (connections hold a Weak).     *)

ServerFree == active /\ call = NoCall

\* add_connection: noperms decides whether this service is subscribed.
AddConnection(c) ==
    /\ ServerFree
    /\ conn[c] = "idle"
    /\ conn' = [conn EXCEPT ![c] = "open"]
    /\ \/ on_subscribe(c)
       \/ UNCHANGED <<subscribes, new_subscribes, seen, late>>
    /\ UNCHANGED <<need_snapshot, active, call, thread, joined>>

RemoveConnection(c) ==
    /\ ServerFree
    /\ conn[c] = "open"
    /\ conn' = [conn EXCEPT ![c] = "closed"]
    /\ on_unsubscribe(c)
    /\ UNCHANGED <<need_snapshot, active, call, thread, joined>>

\* The Weak cannot be upgraded: the connection ends without remove_connection.
CloseAfterDrop(c) ==
    /\ ~active
    /\ conn[c] = "open"
    /\ conn' = [conn EXCEPT ![c] = "closed"]
    /\ UNCHANGED <<inner, active, call, thread, joined, hist>>

\* Server::subscribe(name, conn, sub): is_subed reads the two maps under two
\* acquisitions of the lock, then on_subscribe or on_unsubscribe takes a third.
SubscribeCall(c, sub) ==
    /\ ServerFree
    /\ conn[c] = "open"
    /\ call' = [conn |-> c, sub |-> sub, at |-> "subscribes"]
    /\ UNCHANGED <<inner, active, conn, thread, joined, hist>>

\* What Server::subscribe does once is_subed has its answer.
Decide(subed) ==
    call' = IF subed = call.sub THEN NoCall ELSE [call EXCEPT !.at = "subscribe"]

IsSubedSubscribes ==
    /\ call.at = "subscribes"
    /\ IF call.conn \in subscribes
       THEN Decide(TRUE)
       ELSE call' = [call EXCEPT !.at = "new_subscribes"]
    /\ UNCHANGED <<inner, active, conn, thread, joined, hist>>

IsSubedNewSubscribes ==
    /\ call.at = "new_subscribes"
    /\ Decide(call.conn \in new_subscribes)
    /\ UNCHANGED <<inner, active, conn, thread, joined, hist>>

SubscribeApply ==
    /\ call.at = "subscribe"
    /\ IF call.sub THEN on_subscribe(call.conn) ELSE on_unsubscribe(call.conn)
    /\ call' = NoCall
    /\ UNCHANGED <<need_snapshot, active, conn, thread, joined>>

\* Drop for Server calls join: the flag first, then it waits for the thread.
Join ==
    /\ ServerFree
    /\ active' = FALSE
    /\ UNCHANGED <<inner, conn, call, thread, joined, hist>>

JoinReturns ==
    /\ ~active /\ ~joined
    /\ pc = "exit"
    /\ joined' = TRUE
    /\ UNCHANGED <<inner, active, conn, call, thread, hist>>

----------------------------------------------------------------------------
(* The service thread: ServiceTmpl::repeat around the callback.            *)

\* A mutation of TestActive: the thread stays while it has subscribers.
TestActiveWhileSubscribed ==
    /\ pc = "loop"
    /\ pc' = IF active \/ has_subscribes THEN "subs" ELSE "exit"
    /\ UNCHANGED <<inner, active, conn, call, may_reset, state, joined, hist>>

TestActive ==
    /\ pc = "loop"
    /\ pc' = IF active THEN "subs" ELSE "exit"
    /\ UNCHANGED <<inner, active, conn, call, may_reset, state, joined, hist>>

EnterCallback ==
    /\ pc = "subs"
    /\ has_subscribes
    /\ pc' = "call"
    /\ may_reset' = TRUE
    /\ UNCHANGED <<inner, active, conn, call, state, joined, hist>>

\* A mutation of Hibernate: the state is reset to something it cannot hold.
HibernateToNone ==
    /\ pc = "subs"
    /\ ~has_subscribes
    /\ pc' = "loop"
    /\ may_reset' = FALSE
    /\ state' = IF may_reset THEN None ELSE state
    /\ UNCHANGED <<inner, active, conn, call, joined, hist>>

Hibernate ==
    /\ pc = "subs"
    /\ ~has_subscribes
    /\ pc' = "loop"
    /\ may_reset' = FALSE
    /\ state' = IF may_reset THEN Nil ELSE state
    /\ UNCHANGED <<inner, active, conn, call, joined, hist>>

\* run_cursor up to its snapshot: nothing observed, or v observed and sent
\* when it differs from the last one.
run_cursor(v) ==
    /\ need_snapshot
    /\ state' = v
    /\ IF v = state THEN UNCHANGED seen ELSE send_to_set(subscribes, v)

\* run_pos: a position is sent only when an earlier one is known, and not to
\* the connection whose own input moved the mouse.
run_pos(v, exclude) ==
    /\ ~need_snapshot
    /\ state' = v
    /\ IF state = Nil \/ v = state
       THEN UNCHANGED seen
       ELSE send_to_set(subscribes \ exclude, v)

Publish ==
    /\ pc = "call"
    /\ pc' = "snap"
    /\ \/ \E v \in Values : run_cursor(v)
       \/ \E v \in Values, exclude \in {{}} \cup {{c} : c \in Conns} : run_pos(v, exclude)
       \/ UNCHANGED <<state, seen>>
    /\ UNCHANGED <<inner, active, conn, call, may_reset, joined, late>>

\* get_cursor or get_cursor_data fails: the callback returns before snapshot.
PublishError ==
    /\ pc = "call"
    /\ pc' = "loop"
    /\ UNCHANGED <<inner, active, conn, call, may_reset, state, joined, hist>>

\* A mutation of SnapshotTest: the map of the served subscribers is tested.
SnapshotTestSubscribes ==
    /\ pc = "snap"
    /\ pc' = IF subscribes = {} THEN "loop" ELSE "send"
    /\ UNCHANGED <<inner, active, conn, call, may_reset, state, joined, hist>>

\* ServiceTmpl::snapshot tests the waiting map under a read lock of its own.
SnapshotTest ==
    /\ pc = "snap"
    /\ pc' = IF new_subscribes = {} THEN "loop" ELSE "send"
    /\ UNCHANGED <<inner, active, conn, call, may_reset, state, joined, hist>>

\* A mutation of SnapshotSend: the snapshot goes to the subscribers that
\* already have the value.
SnapshotSendSubscribes ==
    /\ pc = "send"
    /\ pc' = "drop"
    /\ send_to_set(subscribes, state)
    /\ UNCHANGED <<inner, active, conn, call, may_reset, state, joined, late>>

\* The callback of snapshot: sps.send_shared, i.e. send_new_subscribes.
SnapshotSend ==
    /\ pc = "send"
    /\ pc' = "drop"
    /\ send_to_set(new_subscribes, state)
    /\ UNCHANGED <<inner, active, conn, call, may_reset, state, joined, late>>

\* A mutation of Swap: the waiting map is drained and not merged.
SwapForgets ==
    /\ pc = "drop"
    /\ pc' = "loop"
    /\ new_subscribes' = {}
    /\ UNCHANGED <<subscribes, need_snapshot, active, conn, call,
                   may_reset, state, joined, hist>>

\* Drop for ServiceSwap: swap_new_subscribes.
Swap ==
    /\ pc = "drop"
    /\ pc' = "loop"
    /\ subscribes' = subscribes \cup new_subscribes
    /\ new_subscribes' = {}
    /\ UNCHANGED <<need_snapshot, active, conn, call, may_reset, state, joined, hist>>

Thread ==
    \/ TestActive \/ EnterCallback \/ Hibernate \/ Publish \/ PublishError
    \/ SnapshotTest \/ SnapshotSend \/ Swap

ServerCall == IsSubedSubscribes \/ IsSubedNewSubscribes \/ SubscribeApply

Next ==
    \/ \E c \in Conns : AddConnection(c) \/ RemoveConnection(c) \/ CloseAfterDrop(c)
    \/ \E c \in Conns, sub \in BOOLEAN : SubscribeCall(c, sub)
    \/ ServerCall
    \/ Join
    \/ JoinReturns
    \/ Thread

(***************************************************************************)
(* The thread is never stopped and a Server call in progress finishes.     *)
(* The callback may fail any number of times (PublishError) but does not   *)
(* fail for ever once it keeps being entered: get_cursor is a query of the *)
(* operating system that the error path retries every second.              *)
(***************************************************************************)
Spec ==
    /\ Init /\ [][Next]_vars
    /\ WF_vars(Thread) /\ SF_vars(Publish)
    /\ WF_vars(ServerCall) /\ WF_vars(JoinReturns)

----------------------------------------------------------------------------
(* No connection is in both maps: on_unsubscribe removes from the second   *)
(* map only what is not in the first (service.rs:121), so a connection in  *)
(* both would stay subscribed after it has left.                           *)
Disjoint == subscribes \cap new_subscribes = {}

(* A connection that remove_connection has released is in neither map, at  *)
(* whatever point of a snapshot the service thread was.                    *)
GoneIsGone ==
    active => \A c \in Conns : conn[c] # "open" => c \notin subscribes \cup new_subscribes

(* A subscriber of a snapshot service holds the value the callback last    *)
(* published: nobody is left with an older one, and only a connection that *)
(* entered between the snapshot's send and its swap may hold none.         *)
UpToDate ==
    need_snapshot =>
        \A c \in subscribes : \/ seen[c] = state
                              \/ c \in late /\ seen[c] = None

(* Seen from Server the service is one set of members, and the snapshot    *)
(* that moves them from one map to the other neither loses nor admits      *)
(* anybody: Service implements Membership.                                 *)
Members == INSTANCE Membership WITH members <- subscribes \cup new_subscribes
ImplementsMembership == Members!Spec

(* A waiting subscriber is admitted or leaves: it never waits for ever     *)
(* while the service lives.                                                *)
Admission ==
    \A c \in Conns : (c \in new_subscribes /\ active) ~> (c \notin new_subscribes \/ ~active)

(* Drop for Server returns: the join of the thread ends wherever the       *)
(* thread was when the active flag was cleared.                            *)
JoinEnds == ~active ~> joined
=============================================================================
