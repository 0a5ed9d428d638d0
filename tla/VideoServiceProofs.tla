------------------------- MODULE VideoServiceProofs -------------------------
(***************************************************************************)
(* Proofs about VideoService for any finite set of viewers, any length of  *)
(* the wait and any bound on the queues.                                   *)
(***************************************************************************)
EXTENDS VideoService, Integers, FiniteSetTheorems, TLAPS

\* The wait loop never starts a slice beyond timeout_millis.
SliceLeft == tries < MaxTries

\* While an encoder that has produced frames is running, every subscriber has
\* its key frame or took the place of viewers that had all left; the snapshot
\* lets viewers join a running encoder only when there is no other one.
KeyedOrTurnover ==
    /\ (pc # "idle" /\ ~fresh) => subscribes \subseteq keyed \cup turnover
    /\ pc = "drop_ok" => subscribes = {}

\* Who is waited for is forgotten before a new frame and known to
\* DISPLAY_CONN_IDS only from set_send on.
NobodyAwaited ==
    /\ pc \in {"drop_ok", "drop_switch", "sent"} => display_conns = {}
    /\ pc \in {"frame", "snap", "check", "drop_ok", "drop_switch", "encode"}
          => send_conn_ids = {}

\* The thread has sent a frame and has not heard yet that c fetched it.
Awaited(c) ==
    \/ pc = "sent" /\ c \in send_conn_ids
    \/ pc = "wait" /\ c \in send_conn_ids \ fetched

\* The frames an open connection may owe: those in its queue, and one whose
\* notification is still in the channel and could stand for a later frame.
Owed(c) == queue[c] + (IF c \in notes THEN 1 ELSE 0)

\* Below the bound on skips, each given-up wait accounts for one frame owed,
\* and the frame in flight for one more.
Accounted ==
    skips < MaxQueue =>
        \A c \in Conns : conn[c] = "open" =>
            Owed(c) <= skips + (IF Awaited(c) THEN 1 ELSE 0)

IInv ==
    /\ TypeOK
    /\ SliceLeft
    /\ KeyedOrTurnover
    /\ KeyFrameFirst
    /\ NobodyAwaited
    /\ WaitersRegistered
    /\ Accounted

\* All of it but the accounting, which the thread's control does not need.
Control ==
    /\ TypeOK /\ SliceLeft
    /\ KeyedOrTurnover /\ KeyFrameFirst
    /\ NobodyAwaited /\ WaitersRegistered

\* The invariant holds at first.
LEMMA InitInv == Init => IInv
  <1> SUFFICES ASSUME Init PROVE IInv
    OBVIOUS
  <1> USE BoundsAssumption DEF Init
  <1>1. TypeOK
    <2>1. queue \in [Conns -> 0..MaxQueue] /\ conn \in [Conns -> {"open", "closing", "closed"}]
      OBVIOUS
    <2>2. tries \in 0..MaxTries /\ skips \in 0..MaxQueue
      OBVIOUS
    <2> QED BY <2>1, <2>2 DEF TypeOK
  <1>2. SliceLeft /\ KeyedOrTurnover /\ KeyFrameFirst /\ NobodyAwaited /\ WaitersRegistered
    BY DEF SliceLeft, KeyedOrTurnover, KeyFrameFirst, NobodyAwaited, WaitersRegistered
  <1>3. Accounted
    BY DEF Accounted, Owed, Awaited
  <1> QED BY <1>1, <1>2, <1>3 DEF IInv

\* Every step keeps the part of the invariant that is about the control.
LEMMA ControlStep == Control /\ [Next]_vars => Control'
  <1> SUFFICES ASSUME Control, [Next]_vars PROVE Control'
    OBVIOUS
  <1> USE BoundsAssumption DEF Control, TypeOK, SliceLeft, KeyedOrTurnover, KeyFrameFirst,
              NobodyAwaited, WaitersRegistered, maps, flow, hist
  <1>1. ASSUME NEW c \in Conns, Subscribe(c) PROVE Control'
    BY <1>1 DEF Subscribe
  <1>2. ASSUME NEW c \in Conns, Unsubscribe(c) PROVE Control'
    BY <1>2 DEF Unsubscribe, Leave
  <1>3. ASSUME NEW c \in Conns, Fetch(c) \/ VideoReceived(c) PROVE Control'
    BY <1>3 DEF Fetch, VideoReceived, NotifyById
  <1>4. ASSUME NEW c \in Conns, CloseNotify(c) PROVE Control'
    BY <1>4 DEF CloseNotify, NotifyById
  <1>5. ASSUME NEW c \in Conns, RemoveConnection(c) PROVE Control'
    BY <1>5 DEF RemoveConnection, Leave
  <1>6. ASSUME RequestRefresh PROVE Control'
    BY <1>6 DEF RequestRefresh
  <1>7. ASSUME SetupEncoder PROVE Control'
    BY <1>7 DEF SetupEncoder
  <1>8. ASSUME LeaveLoop \/ SwitchToRefresh \/ SwitchByEnvironment PROVE Control'
    <2>1. /\ UNCHANGED <<maps, conn, queue, notes, fresh, hist, skips>>
          /\ refresh' \in BOOLEAN /\ ExitRun
      BY <1>8 DEF LeaveLoop, SwitchToRefresh, SwitchByEnvironment
    <2> QED BY <2>1 DEF ExitRun
  <1>9. ASSUME SwitchByDisplayChange \/ SwapSwitch PROVE Control'
    <2>1. /\ UNCHANGED <<conn, queue, notes, fresh, hist, skips>>
          /\ subscribes' = subscribes \cup new_subscribes /\ new_subscribes' = {}
          /\ refresh' \in BOOLEAN /\ ExitRun
      BY <1>9 DEF SwitchByDisplayChange, SwapSwitch
    <2> QED BY <2>1 DEF ExitRun
  <1>10. ASSUME BeginFrame \/ Capture \/ NoFrame PROVE Control'
    BY <1>10 DEF BeginFrame, Capture, NoFrame
  <1>11. ASSUME SnapshotTest \/ SnapshotCheck PROVE Control'
    BY <1>11 DEF SnapshotTest, SnapshotCheck
  <1>12. ASSUME SwapOk PROVE Control'
    BY <1>12 DEF SwapOk
  <1>13. ASSUME EncodeOk PROVE Control'
    <2>1. queue' \in [Conns -> 0..MaxQueue]
      BY <1>13 DEF EncodeOk
    <2>2. keyed' \subseteq Conns /\ blind' \subseteq Conns
      BY <1>13 DEF EncodeOk
    <2>3. KeyedOrTurnover' /\ KeyFrameFirst'
      BY <1>13 DEF EncodeOk
    <2> QED BY <1>13, <2>1, <2>2, <2>3 DEF EncodeOk
  <1>14a. ASSUME SetSend PROVE Control'
    BY <1>14a DEF SetSend
  <1>14b. ASSUME EncodeFail PROVE Control'
    BY <1>14b DEF EncodeFail, ExitRun
  <1>15. ASSUME NothingToWait \/ FrameDone PROVE Control'
    BY <1>15 DEF NothingToWait, FrameDone
  <1>16. ASSUME Receive PROVE Control'
    BY <1>16 DEF Receive
  <1>17. ASSUME WaitSlice PROVE Control'
    BY <1>17 DEF WaitSlice, CountSkip
  <1>18. ASSUME PrivacySwitchInWait PROVE Control'
    BY <1>18 DEF PrivacySwitchInWait, CountSkip, ExitRun
  <1>19. CASE UNCHANGED vars
    BY <1>19 DEF vars
  <1> QED BY <1>1, <1>2, <1>3, <1>4, <1>5, <1>6, <1>7, <1>8, <1>9, <1>10, <1>11, <1>12, <1>13,
             <1>14a, <1>14b, <1>15, <1>16, <1>17, <1>18, <1>19
          DEF Next, Thread, Caused, Connection, Wait

(* The comparison of the two counts in the wait: when it is satisfied,     *)
(* everybody waited for has fetched, or an id that was not waited for was  *)
(* counted.                                                                *)
LEMMA CountsDecide ==
    ASSUME TypeOK, NEW ids \in SUBSET Conns, AllFetched(ids), ids \subseteq send_conn_ids
    PROVE  send_conn_ids = ids
  <1>1. IsFiniteSet(send_conn_ids)
    BY ConnsAssumption, FS_Subset DEF TypeOK
  <1>2. /\ Cardinality(ids) <= Cardinality(send_conn_ids)
        /\ Cardinality(send_conn_ids) = Cardinality(ids) => send_conn_ids = ids
    BY <1>1, FS_Subset
  <1>3. IsFiniteSet(ids)
    BY ConnsAssumption, FS_Subset
  <1>4. Cardinality(ids) \in Nat /\ Cardinality(send_conn_ids) \in Nat
    BY <1>1, <1>3, FS_CardinalityType
  <1> QED BY <1>2, <1>4 DEF AllFetched

(* A connection's own steps move a frame from its queue to the channel at  *)
(* most; the thread's steps outside the wait send to subscribers only.     *)
LEMMA AccountedStep == IInv /\ [Next]_vars => Accounted'
  <1> SUFFICES ASSUME IInv, [Next]_vars PROVE Accounted'
    OBVIOUS
  <1> USE BoundsAssumption DEF IInv, TypeOK, maps, flow, hist
  <1>1. ASSUME NEW c \in Conns, Fetch(c) \/ VideoReceived(c) PROVE Accounted'
    BY <1>1 DEF Fetch, VideoReceived, NotifyById, Accounted, Owed, Awaited
  <1>2. ASSUME NEW c \in Conns, CloseNotify(c) PROVE Accounted'
    BY <1>2 DEF CloseNotify, NotifyById, Accounted, Owed, Awaited
  <1>3. ASSUME NEW c \in Conns, RemoveConnection(c) PROVE Accounted'
    BY <1>3 DEF RemoveConnection, Accounted, Owed, Awaited
  <1>4. ASSUME \/ RequestRefresh \/ SetupEncoder \/ SnapshotTest \/ SnapshotCheck
               \/ SwapOk \/ SwapSwitch \/ LeaveLoop \/ SwitchToRefresh
               \/ SwitchByEnvironment \/ SwitchByDisplayChange
               \/ BeginFrame \/ Capture \/ FrameDone
               \/ \E c \in Conns : Subscribe(c) \/ Unsubscribe(c)
        PROVE  Accounted'
    <2>1. UNCHANGED <<conn, queue, notes, skips>>
      BY <1>4 DEF RequestRefresh, SetupEncoder, SnapshotTest, SnapshotCheck, SwapOk, SwapSwitch,
         LeaveLoop, SwitchToRefresh, SwitchByEnvironment, SwitchByDisplayChange, BeginFrame,
         Capture, FrameDone, Subscribe, Unsubscribe
    <2>2. \/ UNCHANGED <<pc, send_conn_ids, fetched>>
          \/ pc \notin {"sent", "wait"}
      BY <1>4 DEF RequestRefresh, SetupEncoder, SnapshotTest, SnapshotCheck, SwapOk, SwapSwitch,
         LeaveLoop, SwitchToRefresh, SwitchByEnvironment, SwitchByDisplayChange, BeginFrame,
         Capture, FrameDone, Subscribe, Unsubscribe
    <2> QED BY <2>1, <2>2 DEF Accounted, Owed, Awaited
  <1>5. ASSUME NoFrame PROVE Accounted'
    BY <1>5 DEF NoFrame, Accounted, Owed, Awaited
  <1>6. ASSUME EncodeFail PROVE Accounted'
    BY <1>6 DEF EncodeFail, ExitRun, Accounted, Owed, Awaited
  <1>7. ASSUME EncodeOk PROVE Accounted'
    BY <1>7 DEF EncodeOk, Accounted, Owed, Awaited
  <1>8. ASSUME SetSend PROVE Accounted'
    BY <1>8 DEF SetSend, Accounted, Owed, Awaited
  <1>9. ASSUME NothingToWait PROVE Accounted'
    BY <1>9 DEF NothingToWait, Accounted, Owed, Awaited
  <1>10. ASSUME Receive PROVE Accounted'
    <2>1. CASE ~AllFetched(fetched')
      BY <1>10, <2>1 DEF Receive, Accounted, Owed, Awaited
    <2>2. CASE AllFetched(fetched') /\ send_conn_ids \subseteq fetched'
      BY <1>10, <2>2 DEF Receive, Accounted, Owed, Awaited
    <2>3. CASE AllFetched(fetched') /\ ~(send_conn_ids \subseteq fetched')
      <3>1. fetched' \ send_conn_ids # {}
        <4>1. fetched' \in SUBSET Conns
          BY <1>10 DEF Receive
        <4> QED BY <2>3, <4>1, CountsDecide
      <3>2. skips < MaxQueue => skips' = skips + 1
        BY <1>10, <2>3, <3>1 DEF Receive
      <3>3. skips' < MaxQueue => skips < MaxQueue
        BY <1>10 DEF Receive
      <3>4. notes' = {} /\ UNCHANGED <<conn, queue>>
        BY <1>10 DEF Receive
      <3> QED BY <3>2, <3>3, <3>4 DEF Accounted, Owed
    <2> QED BY <2>1, <2>2, <2>3
  <1>11. ASSUME WaitSlice PROVE Accounted'
    BY <1>11 DEF WaitSlice, CountSkip, StillWaitedFor, Accounted, Owed, Awaited
  <1>12. ASSUME PrivacySwitchInWait PROVE Accounted'
    BY <1>12 DEF PrivacySwitchInWait, CountSkip, StillWaitedFor, ExitRun, Accounted, Owed, Awaited
  <1>13. CASE UNCHANGED vars
    BY <1>13 DEF vars, Accounted, Owed, Awaited
  <1> QED BY <1>1, <1>2, <1>3, <1>4, <1>5, <1>6, <1>7, <1>8, <1>9, <1>10, <1>11, <1>12, <1>13
          DEF Next, Thread, Caused, Connection, Wait

\* Every step keeps the invariant.
LEMMA NextInv == IInv /\ [Next]_vars => IInv'
  BY ControlStep, AccountedStep DEF IInv, Control

(* Every state has its type; the wait never counts beyond timeout_millis.  *)
THEOREM TypeCorrect == Spec => []TypeOK
  BY InitInv, NextInv, PTL DEF Spec, IInv

(* A viewer that is shown a frame without its key frame was admitted when  *)
(* the running encoder had lost all its viewers: the SWITCH of the         *)
(* snapshot in handle_one_frame covers every other way to join.            *)
THEOREM KeyFrameFirstHolds == Spec => []KeyFrameFirst
  BY InitInv, NextInv, PTL DEF Spec, IInv

(* Whoever the thread waits for is in DISPLAY_CONN_IDS, and nobody is when *)
(* no frame is in flight, on every way out of run().                       *)
THEOREM WaitersRegisteredHolds == Spec => []WaitersRegistered
  BY InitInv, NextInv, PTL DEF Spec, IInv

(* The flow control of VideoFrameController bounds every open connection's *)
(* queue by the waits that were given up, for any number of viewers,       *)
(* although the wait compares counts and not the ids themselves.           *)
THEOREM BacklogBoundedHolds == Spec => []BacklogBounded
  <1>1. IInv => BacklogBounded
    <2> SUFFICES ASSUME IInv, NEW c \in Conns, conn[c] = "open" PROVE queue[c] <= 1 + skips
      BY DEF BacklogBounded
    <2>1. CASE skips = MaxQueue
      BY <2>1, BoundsAssumption DEF IInv, TypeOK
    <2>2. CASE skips < MaxQueue
      BY <2>2, BoundsAssumption DEF IInv, TypeOK, Accounted, Owed
    <2> QED BY <2>1, <2>2, BoundsAssumption DEF IInv, TypeOK
  <1> QED BY <1>1, InitInv, NextInv, PTL DEF Spec
=============================================================================
