--------------------------- MODULE ServiceProofs ---------------------------
(***************************************************************************)
(* Proofs about Service for any set of connections and values.             *)
(***************************************************************************)
EXTENDS Service, TLAPS

\* A service that needs no snapshot never has a waiting subscriber.
WaitOnlyForSnapshot == ~need_snapshot => new_subscribes = {}

\* A Server call in progress is on behalf of an open connection, and Server
\* cannot be dropped meanwhile.
CallerOpen == call # NoCall => active /\ call.conn \in Conns /\ conn[call.conn] = "open"

\* A connection outside both maps has been sent nothing.
NothingOutside ==
    \A c \in Conns : c \notin subscribes \cup new_subscribes => seen[c] = None

\* Between the snapshot's send and its swap every waiting subscriber holds
\* the published value or has arrived after the send.
SnapshotSent ==
    (need_snapshot /\ pc = "drop") =>
        \A c \in new_subscribes : \/ seen[c] = state
                                  \/ c \in late /\ seen[c] = None

\* What one step of the callback does to the history: only subscribers are
\* sent something, and in a snapshot service all of them on a change.
Published ==
    /\ state' \in Values \cup {Nil} /\ seen' \in [Conns -> Seen]
    /\ \A c \in Conns : c \notin subscribes => seen'[c] = seen[c]
    /\ need_snapshot => \A c \in subscribes :
           seen'[c] = state' \/ (seen'[c] = seen[c] /\ state' = state)

IInv ==
    /\ TypeOK
    /\ Disjoint
    /\ WaitOnlyForSnapshot
    /\ CallerOpen
    /\ GoneIsGone
    /\ NothingOutside
    /\ SnapshotSent
    /\ UpToDate

(* The two operations on the maps preserve what relates the maps to each   *)
(* other and to the history, for an open connection of a live server.      *)
LEMMA SubscribeKeeps ==
    ASSUME IInv, NEW c \in Conns, on_subscribe(c), active,
           UNCHANGED <<need_snapshot, pc, state>>
    PROVE  /\ subscribes' \subseteq Conns /\ new_subscribes' \subseteq Conns
           /\ seen' \in [Conns -> Seen] /\ late' \subseteq Conns
           /\ Disjoint' /\ WaitOnlyForSnapshot'
           /\ NothingOutside' /\ SnapshotSent' /\ UpToDate'
           /\ (subscribes \cup new_subscribes)' = subscribes \cup new_subscribes \cup {c}
  <1> USE DEF IInv, TypeOK, Disjoint, WaitOnlyForSnapshot, NothingOutside
  <1>1. CASE c \in subscribes
    BY <1>1 DEF on_subscribe, SnapshotSent, UpToDate
  <1>2. CASE c \notin subscribes /\ need_snapshot
    BY <1>2 DEF on_subscribe, EnterNew, SnapshotSent, UpToDate
  <1>3. CASE c \notin subscribes /\ ~need_snapshot
    BY <1>3 DEF on_subscribe, SnapshotSent, UpToDate
  <1> QED BY <1>1, <1>2, <1>3

\* on_unsubscribe removes exactly c from the union of the maps.
LEMMA UnsubscribeKeeps ==
    ASSUME IInv, NEW c \in Conns, on_unsubscribe(c),
           UNCHANGED <<need_snapshot, pc, state>>
    PROVE  /\ subscribes' \subseteq Conns /\ new_subscribes' \subseteq Conns
           /\ seen' \in [Conns -> Seen] /\ late' \subseteq Conns
           /\ Disjoint' /\ WaitOnlyForSnapshot'
           /\ NothingOutside' /\ SnapshotSent' /\ UpToDate'
           /\ (subscribes \cup new_subscribes)' = (subscribes \cup new_subscribes) \ {c}
  BY DEF IInv, TypeOK, Disjoint, WaitOnlyForSnapshot, NothingOutside, SnapshotSent,
         UpToDate, on_unsubscribe, Seen

\* The invariant holds at first.
LEMMA InitInv == Init => IInv
  BY DEF Init, IInv, TypeOK, Disjoint, WaitOnlyForSnapshot, CallerOpen, GoneIsGone,
         NothingOutside, SnapshotSent, UpToDate, NoCall, Seen

\* Every step keeps the invariant.
LEMMA NextInv == IInv /\ [Next]_vars => IInv'
  <1> SUFFICES ASSUME IInv, [Next]_vars PROVE IInv'
    OBVIOUS
  <1> USE DEF inner, thread, hist
  <1>1. ASSUME NEW c \in Conns, AddConnection(c) PROVE IInv'
    <2>1. /\ active /\ UNCHANGED <<need_snapshot, pc, state, call, active, joined, may_reset>>
          /\ call = NoCall
          /\ conn' = [conn EXCEPT ![c] = "open"]
      BY <1>1 DEF AddConnection, ServerFree
    <2>2. CASE on_subscribe(c)
      BY <2>1, <2>2, SubscribeKeeps DEF IInv, TypeOK, CallerOpen, GoneIsGone
    <2>3. CASE UNCHANGED <<subscribes, new_subscribes, seen, late>>
      BY <2>1, <2>3 DEF IInv, TypeOK, Disjoint, WaitOnlyForSnapshot, CallerOpen, GoneIsGone,
         NothingOutside, SnapshotSent, UpToDate
    <2> QED BY <1>1, <2>2, <2>3 DEF AddConnection
  <1>2. ASSUME NEW c \in Conns, RemoveConnection(c) PROVE IInv'
    <2>1. /\ on_unsubscribe(c) /\ conn' = [conn EXCEPT ![c] = "closed"]
          /\ UNCHANGED <<need_snapshot, pc, state, call, active, joined, may_reset>>
          /\ call = NoCall
      BY <1>2 DEF RemoveConnection, ServerFree
    <2> QED BY <2>1, UnsubscribeKeeps DEF IInv, TypeOK, CallerOpen, GoneIsGone
  <1>3. ASSUME NEW c \in Conns, CloseAfterDrop(c) PROVE IInv'
    BY <1>3 DEF CloseAfterDrop, IInv, TypeOK, Disjoint, WaitOnlyForSnapshot, CallerOpen,
       GoneIsGone, NothingOutside, SnapshotSent, UpToDate
  <1>4. ASSUME NEW c \in Conns, NEW sub \in BOOLEAN, SubscribeCall(c, sub) PROVE IInv'
    BY <1>4 DEF SubscribeCall, ServerFree, Calls, NoCall, IInv, TypeOK, Disjoint,
       WaitOnlyForSnapshot, CallerOpen, GoneIsGone, NothingOutside, SnapshotSent, UpToDate
  <1>5. ASSUME IsSubedSubscribes \/ IsSubedNewSubscribes PROVE IInv'
    <2>1. call # NoCall /\ call \in Calls
      <3>1. call.at # "none"
        BY <1>5 DEF IsSubedSubscribes, IsSubedNewSubscribes
      <3>2. NoCall.at = "none"
        BY DEF NoCall
      <3> QED BY <3>1, <3>2 DEF IInv, TypeOK
    <2>2. /\ call' \in Calls \cup {NoCall}
          /\ call' # NoCall => call'.conn = call.conn
      BY <1>5, <2>1 DEF IsSubedSubscribes, IsSubedNewSubscribes, Decide, Calls, NoCall
    <2>3. UNCHANGED <<inner, active, conn, thread, joined, hist>>
      BY <1>5 DEF IsSubedSubscribes, IsSubedNewSubscribes
    <2> QED BY <2>1, <2>2, <2>3 DEF IInv, TypeOK, Disjoint, WaitOnlyForSnapshot, CallerOpen,
            GoneIsGone, NothingOutside, SnapshotSent, UpToDate
  <1>6. ASSUME SubscribeApply PROVE IInv'
    <2>1. call # NoCall /\ active /\ call.conn \in Conns /\ conn[call.conn] = "open"
      BY <1>6 DEF SubscribeApply, NoCall, IInv, CallerOpen
    <2>2. call' = NoCall /\ UNCHANGED <<need_snapshot, active, conn, thread, joined>>
      BY <1>6 DEF SubscribeApply
    <2>3. CASE on_subscribe(call.conn)
      BY <2>1, <2>2, <2>3, SubscribeKeeps DEF IInv, TypeOK, CallerOpen, GoneIsGone
    <2>4. CASE on_unsubscribe(call.conn)
      BY <2>1, <2>2, <2>4, UnsubscribeKeeps DEF IInv, TypeOK, CallerOpen, GoneIsGone
    <2> QED BY <1>6, <2>3, <2>4 DEF SubscribeApply
  <1>7. ASSUME Join PROVE IInv'
    BY <1>7 DEF Join, ServerFree, IInv, TypeOK, Disjoint, WaitOnlyForSnapshot,
       CallerOpen, GoneIsGone, NothingOutside, SnapshotSent, UpToDate
  <1>8a. ASSUME JoinReturns PROVE IInv'
    BY <1>8a DEF JoinReturns, IInv, TypeOK, Disjoint, WaitOnlyForSnapshot,
       CallerOpen, GoneIsGone, NothingOutside, SnapshotSent, UpToDate
  <1>8b. ASSUME TestActive PROVE IInv'
    BY <1>8b DEF TestActive, IInv, TypeOK, Disjoint, WaitOnlyForSnapshot,
       CallerOpen, GoneIsGone, NothingOutside, SnapshotSent, UpToDate
  <1>8c. ASSUME EnterCallback PROVE IInv'
    BY <1>8c DEF EnterCallback, IInv, TypeOK, Disjoint, WaitOnlyForSnapshot,
       CallerOpen, GoneIsGone, NothingOutside, SnapshotSent, UpToDate
  <1>8d. ASSUME PublishError PROVE IInv'
    BY <1>8d DEF PublishError, IInv, TypeOK, Disjoint, WaitOnlyForSnapshot,
       CallerOpen, GoneIsGone, NothingOutside, SnapshotSent, UpToDate
  <1>8e. ASSUME SnapshotTest PROVE IInv'
    BY <1>8e DEF SnapshotTest, IInv, TypeOK, Disjoint, WaitOnlyForSnapshot,
       CallerOpen, GoneIsGone, NothingOutside, SnapshotSent, UpToDate
  <1>9. ASSUME Hibernate PROVE IInv'
    BY <1>9 DEF Hibernate, has_subscribes, IInv, TypeOK, Disjoint, WaitOnlyForSnapshot,
       CallerOpen, GoneIsGone, NothingOutside, SnapshotSent, UpToDate
  <1>10. ASSUME Publish PROVE IInv'
    <2>1. /\ pc = "call" /\ pc' = "snap"
          /\ UNCHANGED <<inner, active, conn, call, may_reset, joined, late>>
      BY <1>10 DEF Publish
    <2>2. Published
      <3>1. ASSUME NEW v \in Values, run_cursor(v) PROVE Published
        BY <3>1 DEF run_cursor, send_to_set, Published, IInv, TypeOK, Seen
      <3>2. ASSUME NEW v \in Values, NEW exclude \in {{}} \cup {{c} : c \in Conns},
                   run_pos(v, exclude)
            PROVE Published
        BY <3>2 DEF run_pos, send_to_set, Published, IInv, TypeOK, Seen
      <3>3. CASE UNCHANGED <<state, seen>>
        BY <3>3 DEF Published, IInv, TypeOK
      <3> QED BY <1>10, <3>1, <3>2, <3>3 DEF Publish
    <2> QED BY <2>1, <2>2 DEF Published, IInv, TypeOK, Disjoint, WaitOnlyForSnapshot, CallerOpen,
            GoneIsGone, NothingOutside, SnapshotSent, UpToDate
  <1>11. ASSUME SnapshotSend PROVE IInv'
    BY <1>11 DEF SnapshotSend, send_to_set, Seen, IInv, TypeOK, Disjoint, WaitOnlyForSnapshot,
       CallerOpen, GoneIsGone, NothingOutside, SnapshotSent, UpToDate
  <1>12. ASSUME Swap PROVE IInv'
    BY <1>12 DEF Swap, IInv, TypeOK, Disjoint, WaitOnlyForSnapshot, CallerOpen, GoneIsGone,
       NothingOutside, SnapshotSent, UpToDate
  <1>13. CASE UNCHANGED vars
    BY <1>13 DEF vars, IInv, TypeOK, Disjoint, WaitOnlyForSnapshot, CallerOpen, GoneIsGone,
       NothingOutside, SnapshotSent, UpToDate
  <1> QED
    BY <1>1, <1>2, <1>3, <1>4, <1>5, <1>6, <1>7, <1>8a, <1>8b, <1>8c, <1>8d, <1>8e,
       <1>9, <1>10, <1>11, <1>12, <1>13
    DEF Next, Thread, ServerCall

(* The inductive invariant holds in every reachable state.                 *)
THEOREM Invariance == Spec => []IInv
  BY InitInv, NextInv, PTL DEF Spec

(* The state of the service stays within its types.                        *)
THEOREM TypeCorrect == Spec => []TypeOK
  <1>1. IInv => TypeOK BY DEF IInv
  <1> QED BY Invariance, <1>1, PTL

(* on_subscribe and swap_new_subscribes keep the two maps disjoint.        *)
THEOREM AlwaysDisjoint == Spec => []Disjoint
  <1>1. IInv => Disjoint BY DEF IInv
  <1> QED BY Invariance, <1>1, PTL

(* remove_connection leaves no subscription behind, at whatever point of a *)
(* snapshot it comes.                                                      *)
THEOREM NoGhostSubscriber == Spec => []GoneIsGone
  <1>1. IInv => GoneIsGone BY DEF IInv
  <1> QED BY Invariance, <1>1, PTL

(* A subscriber holds the value last published, or none if it entered      *)
(* between the snapshot's send and its swap.                               *)
THEOREM SubscribersUpToDate == Spec => []UpToDate
  <1>1. IInv => UpToDate BY DEF IInv
  <1> QED BY Invariance, <1>1, PTL

(* In a state where the inductive invariant holds, one step of the service *)
(* is one step of Membership or invisible to Server.                       *)
LEMMA StepRefines ==
  ASSUME IInv, [Next]_vars
  PROVE  [Members!Next]_Members!vars
  <1> USE DEF Members!vars, IInv
  <1>1. ASSUME NEW c \in Conns, AddConnection(c) PROVE Members!Open(c)
    <2>1. \/ UNCHANGED <<subscribes, new_subscribes>>
          \/ subscribes' \cup new_subscribes' = (subscribes \cup new_subscribes) \cup {c}
      BY <1>1 DEF AddConnection, on_subscribe, EnterNew
    <2> QED BY <1>1, <2>1 DEF AddConnection, ServerFree, Members!Open
  <1>2. ASSUME NEW c \in Conns, RemoveConnection(c) PROVE Members!Release(c)
    BY <1>2 DEF RemoveConnection, ServerFree, on_unsubscribe, Disjoint, Members!Release
  <1>3. ASSUME NEW c \in Conns, CloseAfterDrop(c) PROVE Members!CloseAlone(c)
    BY <1>3 DEF CloseAfterDrop, inner, Members!CloseAlone
  <1>4. ASSUME SubscribeApply PROVE Members!Next \/ UNCHANGED Members!vars
    <2>1. call.conn \in Conns /\ conn[call.conn] = "open" /\ active
      BY <1>4 DEF SubscribeApply, CallerOpen, TypeOK, Calls, NoCall
    <2>2. CASE call.sub
      <3>1. \/ UNCHANGED <<subscribes, new_subscribes>>
            \/ subscribes' \cup new_subscribes'
                  = (subscribes \cup new_subscribes) \cup {call.conn}
        BY <1>4, <2>2 DEF SubscribeApply, on_subscribe, EnterNew
      <3>2. CASE UNCHANGED <<subscribes, new_subscribes>>
        BY <1>4, <3>2 DEF SubscribeApply
      <3>3. CASE subscribes' \cup new_subscribes'
                  = (subscribes \cup new_subscribes) \cup {call.conn}
        <4>1. Members!Enter(call.conn)
          BY <1>4, <2>1, <3>3 DEF SubscribeApply, Members!Enter
        <4> QED BY <4>1, <2>1 DEF Members!Next
      <3> QED BY <3>1, <3>2, <3>3
    <2>3. CASE ~call.sub
      <3>1. Members!Leave(call.conn)
        BY <1>4, <2>1, <2>3 DEF SubscribeApply, on_unsubscribe, Disjoint, Members!Leave
      <3> QED BY <3>1, <2>1 DEF Members!Next
    <2> QED BY <2>2, <2>3
  <1>5. ASSUME Join PROVE Members!Shutdown
    BY <1>5 DEF Join, ServerFree, inner, Members!Shutdown
  <1>6. ASSUME Swap PROVE UNCHANGED Members!vars
    BY <1>6 DEF Swap
  <1>7. ASSUME \/ \E c \in Conns, sub \in BOOLEAN : SubscribeCall(c, sub)
               \/ IsSubedSubscribes \/ IsSubedNewSubscribes \/ JoinReturns
        PROVE  UNCHANGED Members!vars
    BY <1>7 DEF SubscribeCall, IsSubedSubscribes, IsSubedNewSubscribes, JoinReturns, inner
  <1>8. ASSUME \/ TestActive \/ EnterCallback \/ Hibernate \/ Publish \/ PublishError
               \/ SnapshotTest \/ SnapshotSend
        PROVE  UNCHANGED Members!vars
    BY <1>8 DEF TestActive, EnterCallback, Hibernate, Publish, PublishError, SnapshotTest,
       SnapshotSend, inner
  <1>9. CASE UNCHANGED vars
    BY <1>9 DEF vars, inner
  <1> QED
    BY <1>1, <1>2, <1>3, <1>4, <1>5, <1>6, <1>7, <1>8, <1>9
    DEF Next, ServerCall, Thread, Members!Next

(* Server sees one set of members that only its own calls change: the      *)
(* two-map service with its thread implements Membership.                  *)
THEOREM Refinement == Spec => ImplementsMembership
  <1>1. Init => Members!Init
    BY DEF Init, Members!Init
  <1> QED BY <1>1, StepRefines, Invariance, PTL
          DEF Spec, ImplementsMembership, Members!Spec
=============================================================================
