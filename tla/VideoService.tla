---------------------------- MODULE VideoService ----------------------------
(***************************************************************************)
(* The video service of one display (src/server/video_service.rs): the     *)
(* thread that captures, encodes and sends frames, the admission of new    *)
(* viewers at a frame boundary, the SWITCH that recreates the encoder, and *)
(* the flow control in which the thread waits until the frame it sent has  *)
(* been fetched by the connections.                                        *)
(*                                                                         *)
(* Connections subscribe, fetch frames from their queue, close and ask for *)
(* a refresh at any moment.  The subscriber maps are those of Service with *)
(* need_snapshot = true.  Encoders are external: the first frame of an     *)
(* encoder is a key frame and the others depend on it.                     *)
(***************************************************************************)
EXTENDS Naturals, FiniteSets

CONSTANTS
    Conns,      \* connection ids
    AckConns,   \* connections with video_ack_required (web clients)
    MaxTries,   \* try_wait_next(.., 300) calls that fit into timeout_millis = 3000
    MaxQueue    \* bound: frames in the queue of one connection

ASSUME ConnsAssumption == IsFiniteSet(Conns) /\ AckConns \subseteq Conns
ASSUME BoundsAssumption == MaxTries \in Nat \ {0} /\ MaxQueue \in Nat \ {0}

VARIABLES
    subscribes, new_subscribes,  \* ServiceInner
    refresh,        \* OPTION_REFRESH of the service
    conn,           \* "open", "closing" (loop left, not yet removed), "closed"
    queue,          \* video frames in the connection's rx_video / not yet received
    notes,          \* ids in the FRAME_FETCHED_NOTIFIERS channel of the display
    display_conns,  \* DISPLAY_CONN_IDS of the display
    pc,             \* where the service thread is
    send_conn_ids,  \* VideoFrameController.send_conn_ids
    fetched,        \* fetched_conn_ids of the current wait
    tries,          \* 300 ms slices of the current wait that have passed
    fresh,          \* the encoder has not produced a frame yet
    keyed,          \* history: received the key frame of the encoder
    blind,          \* history: received a frame without that key frame
    turnover,       \* history: admitted when the encoder had no viewer left
    skips           \* history: waits given up before a connection had fetched

maps  == <<subscribes, new_subscribes>>
flow  == <<notes, display_conns, send_conn_ids, fetched, tries>>
hist  == <<keyed, blind, turnover>>
vars  == <<maps, refresh, conn, queue, flow, pc, fresh, hist, skips>>

TypeOK ==
    /\ subscribes \subseteq Conns /\ new_subscribes \subseteq Conns
    /\ refresh \in BOOLEAN
    /\ conn \in [Conns -> {"open", "closing", "closed"}]
    /\ queue \in [Conns -> 0..MaxQueue]
    /\ notes \subseteq Conns /\ display_conns \subseteq Conns
    /\ pc \in {"idle", "top", "frame", "snap", "check", "drop_ok", "drop_switch",
               "encode", "sent", "wait", "done"}
    /\ send_conn_ids \subseteq Conns /\ fetched \subseteq Conns
    /\ tries \in 0..MaxTries
    /\ fresh \in BOOLEAN
    /\ keyed \subseteq Conns /\ blind \subseteq Conns /\ turnover \subseteq Conns
    /\ skips \in 0..MaxQueue

Init ==
    /\ subscribes = {} /\ new_subscribes = {} /\ refresh = FALSE
    /\ conn = [c \in Conns |-> "open"] /\ queue = [c \in Conns |-> 0]
    /\ notes = {} /\ display_conns = {}
    /\ pc = "idle" /\ send_conn_ids = {} /\ fetched = {} /\ tries = 0
    /\ fresh = TRUE /\ keyed = {} /\ blind = {} /\ turnover = {}
    /\ skips = 0

ok == subscribes \cup new_subscribes # {}

----------------------------------------------------------------------------
(* Connections.                                                            *)

Subscribe(c) ==
    /\ conn[c] = "open" /\ c \notin subscribes \cup new_subscribes
    /\ new_subscribes' = new_subscribes \cup {c}
    /\ UNCHANGED <<subscribes, refresh, conn, queue, flow, pc, fresh, hist, skips>>

\* What a connection knows of the encoder's stream ends with its subscription.
Leave(c) ==
    /\ subscribes' = subscribes \ {c}
    /\ new_subscribes' = new_subscribes \ {c}
    /\ keyed' = keyed \ {c} /\ blind' = blind \ {c} /\ turnover' = turnover \ {c}

Unsubscribe(c) ==
    /\ conn[c] = "open" /\ c \in subscribes \cup new_subscribes
    /\ Leave(c)
    /\ UNCHANGED <<refresh, conn, queue, flow, pc, fresh, skips>>

\* refresh_video_display: RefreshVideo, RefreshVideoDisplay, login screen.
RequestRefresh ==
    /\ ~refresh
    /\ refresh' = TRUE
    /\ UNCHANGED <<maps, conn, queue, flow, pc, fresh, hist, skips>>

\* A mutation of Fetch: the queue is not asked whether it holds a frame.
FetchUnguarded(c) ==
    /\ conn[c] = "open" /\ c \notin AckConns
    /\ queue' = [queue EXCEPT ![c] = @ - 1]
    /\ notes' = notes \cup {c}
    /\ UNCHANGED <<maps, refresh, conn, display_conns, send_conn_ids, fetched, tries,
                   pc, fresh, hist, skips>>

\* A connection takes a frame from rx_video and notifies before it sends it.
Fetch(c) ==
    /\ conn[c] = "open" /\ c \notin AckConns /\ queue[c] > 0
    /\ queue' = [queue EXCEPT ![c] = @ - 1]
    /\ notes' = notes \cup {c}
    /\ UNCHANGED <<maps, refresh, conn, display_conns, send_conn_ids, fetched, tries,
                   pc, fresh, hist, skips>>

\* notify_video_frame_fetched_by_conn_id reaches the display only while the
\* connection is among those its thread waits for.
NotifyById(c) == notes' = IF c \in display_conns THEN notes \cup {c} ELSE notes

\* VideoReceived of a web client.
VideoReceived(c) ==
    /\ conn[c] = "open" /\ c \in AckConns /\ queue[c] > 0
    /\ queue' = [queue EXCEPT ![c] = @ - 1]
    /\ NotifyById(c)
    /\ UNCHANGED <<maps, refresh, conn, display_conns, send_conn_ids, fetched, tries,
                   pc, fresh, hist, skips>>

\* The connection loop is left: the thread is told once, and the connection
\* fetches nothing more although it is still subscribed.
CloseNotify(c) ==
    /\ conn[c] = "open"
    /\ conn' = [conn EXCEPT ![c] = "closing"]
    /\ NotifyById(c)
    /\ UNCHANGED <<maps, refresh, queue, display_conns, send_conn_ids, fetched, tries,
                   pc, fresh, hist, skips>>

RemoveConnection(c) ==
    /\ conn[c] = "closing"
    /\ conn' = [conn EXCEPT ![c] = "closed"]
    /\ queue' = [queue EXCEPT ![c] = 0]
    /\ Leave(c)
    /\ UNCHANGED <<refresh, flow, pc, fresh, skips>>

----------------------------------------------------------------------------
(* The service thread.  Every way out of run() drops its Raii.             *)

ExitRun ==
    /\ pc' = "idle"
    /\ display_conns' = {}
    /\ send_conn_ids' = {} /\ fetched' = {} /\ tries' = 0

StillWaitedFor == send_conn_ids \ fetched # {}
CountSkip == skips' = IF StillWaitedFor /\ skips < MaxQueue THEN skips + 1 ELSE skips

\* GenericService::run enters run(): capturer and encoder are created, and a
\* refresh requested meanwhile starts over.
SetupEncoder ==
    /\ pc = "idle" /\ ok
    /\ fresh' = TRUE /\ keyed' = {} /\ blind' = {} /\ turnover' = {}
    /\ refresh' = FALSE
    /\ pc' = IF refresh THEN "idle" ELSE "top"
    /\ UNCHANGED <<maps, conn, queue, flow, skips>>

\* while sp.ok()
LeaveLoop ==
    /\ pc = "top" /\ ~ok
    /\ ExitRun
    /\ UNCHANGED <<maps, refresh, conn, queue, notes, fresh, hist, skips>>

\* A mutation of SwitchToRefresh: the option is taken and no switch follows.
TakeRefreshWithoutSwitch ==
    /\ pc = "top" /\ ok /\ refresh
    /\ refresh' = FALSE
    /\ send_conn_ids' = {}
    /\ pc' = "frame"
    /\ UNCHANGED <<maps, conn, queue, notes, display_conns, fetched, tries, fresh, hist, skips>>

\* take_refresh_option; the display may have changed too, in which case the
\* snapshot of try_broadcast_display_changed admits the waiting viewers.
SwitchToRefresh ==
    /\ pc = "top" /\ ok /\ refresh
    /\ refresh' = FALSE
    /\ ExitRun
    /\ UNCHANGED <<maps, conn, queue, notes, fresh, hist, skips>>

\* check_uac_switch, check_qos, the negotiated codec, the portable service,
\* i444, vram, privacy mode and the desktop: each ends run() with an error.
SwitchByEnvironment ==
    /\ pc \in {"top", "frame"} /\ (pc = "top" => ok)
    /\ ExitRun
    /\ UNCHANGED <<maps, refresh, conn, queue, notes, fresh, hist, skips>>

\* try_broadcast_display_changed: waiting viewers get SwitchDisplay and are
\* merged by the swap, and run() ends with SWITCH.
SwitchByDisplayChange ==
    /\ pc \in {"top", "frame"} /\ (pc = "top" => ok)
    /\ subscribes' = subscribes \cup new_subscribes /\ new_subscribes' = {}
    /\ refresh' = IF pc = "top" THEN FALSE ELSE refresh
    /\ ExitRun
    /\ UNCHANGED <<conn, queue, notes, fresh, hist, skips>>

BeginFrame ==
    /\ pc = "top" /\ ok /\ ~refresh
    /\ send_conn_ids' = {}
    /\ pc' = "frame"
    /\ UNCHANGED <<maps, refresh, conn, queue, notes, display_conns, fetched, tries,
                   fresh, hist, skips>>

\* A frame to encode: a valid capture, or the previous one repeated.
Capture ==
    /\ pc = "frame"
    /\ pc' = "snap"
    /\ UNCHANGED <<maps, refresh, conn, queue, flow, fresh, hist, skips>>

\* WouldBlock without a repetition, or a frame that is not valid.
NoFrame ==
    /\ pc = "frame"
    /\ pc' = "wait" /\ fetched' = {} /\ tries' = 0
    /\ UNCHANGED <<maps, refresh, conn, queue, notes, display_conns, send_conn_ids,
                   fresh, hist, skips>>

\* handle_one_frame: sp.snapshot
SnapshotTest ==
    /\ pc = "snap"
    /\ pc' = IF new_subscribes = {} THEN "encode" ELSE "check"
    /\ UNCHANGED <<maps, refresh, conn, queue, flow, fresh, hist, skips>>

\* A mutation of SnapshotCheck: a new viewer joins the running encoder.
SnapshotCheckNoSwitch ==
    /\ pc = "check"
    /\ pc' = "drop_ok"
    /\ UNCHANGED <<maps, refresh, conn, queue, flow, fresh, hist, skips>>

SnapshotCheck ==
    /\ pc = "check"
    /\ pc' = IF subscribes # {} THEN "drop_switch" ELSE "drop_ok"
    /\ UNCHANGED <<maps, refresh, conn, queue, flow, fresh, hist, skips>>

\* Drop for ServiceSwap, after Ok and after the SWITCH error alike.
SwapOk ==
    /\ pc = "drop_ok"
    /\ subscribes' = subscribes \cup new_subscribes /\ new_subscribes' = {}
    /\ turnover' = IF fresh \/ subscribes # {} THEN turnover ELSE turnover \cup new_subscribes
    /\ pc' = "encode"
    /\ UNCHANGED <<refresh, conn, queue, flow, fresh, keyed, blind, skips>>

SwapSwitch ==
    /\ pc = "drop_switch"
    /\ subscribes' = subscribes \cup new_subscribes /\ new_subscribes' = {}
    /\ ExitRun
    /\ UNCHANGED <<refresh, conn, queue, notes, fresh, hist, skips>>

\* encode_to_message and send_video_frame.
EncodeOk ==
    /\ pc = "encode"
    /\ \A c \in subscribes : queue[c] < MaxQueue
    /\ queue' = [c \in Conns |-> IF c \in subscribes THEN queue[c] + 1 ELSE queue[c]]
    /\ fresh' = FALSE
    /\ keyed' = IF fresh THEN subscribes ELSE keyed
    /\ blind' = IF fresh THEN blind ELSE blind \cup (subscribes \ keyed)
    /\ send_conn_ids' = subscribes
    /\ pc' = "sent"
    /\ UNCHANGED <<maps, refresh, conn, notes, display_conns, fetched, tries, turnover, skips>>

\* VideoFrameController::set_send: the frame is already in the queues when
\* DISPLAY_CONN_IDS gets to know who is waited for.
SetSend ==
    /\ pc = "sent"
    /\ display_conns' = send_conn_ids
    /\ pc' = "wait" /\ fetched' = {} /\ tries' = 0
    /\ UNCHANGED <<maps, refresh, conn, queue, notes, send_conn_ids, fresh, hist, skips>>

\* The encoder fails; encode_fail_counter decides between going on and SWITCH.
EncodeFail ==
    /\ pc = "encode"
    /\ \/ pc' = "wait" /\ fetched' = {} /\ tries' = 0
          /\ UNCHANGED <<display_conns, send_conn_ids>>
       \/ ExitRun
    /\ UNCHANGED <<maps, refresh, conn, queue, notes, fresh, hist, skips>>

\* A mutation of AllFetched: one connection is enough.
AnyFetched(ids) == send_conn_ids = {} \/ ids # {}

\* fetched_conn_ids.len() >= send_conn_ids.len()
AllFetched(ids) == Cardinality(ids) >= Cardinality(send_conn_ids)

\* try_wait_next returns at once when the frame went to nobody.
NothingToWait ==
    /\ pc = "wait" /\ send_conn_ids = {}
    /\ pc' = "done"
    /\ UNCHANGED <<maps, refresh, conn, queue, flow, fresh, hist, skips>>

\* try_wait_next receives one id, drains the channel, and the counts are
\* compared.  An id outside send_conn_ids counts like any other one.
Receive ==
    /\ pc = "wait" /\ send_conn_ids # {} /\ notes # {}
    /\ fetched' = fetched \cup notes
    /\ notes' = {}
    /\ pc' = IF AllFetched(fetched') THEN "done" ELSE "wait"
    /\ skips' = IF /\ AllFetched(fetched') /\ fetched' \ send_conn_ids # {}
                   /\ send_conn_ids \ fetched' # {} /\ skips < MaxQueue
                THEN skips + 1 ELSE skips
    /\ UNCHANGED <<maps, refresh, conn, queue, display_conns, send_conn_ids, tries,
                   fresh, hist>>

\* A mutation of WaitSlice: the loop waits for a fetch however long it takes.
WaitSliceForever ==
    /\ pc = "wait" /\ send_conn_ids # {} /\ notes = {}
    /\ tries' = IF tries = MaxTries THEN tries ELSE tries + 1
    /\ UNCHANGED <<maps, refresh, conn, queue, notes, display_conns, send_conn_ids, fetched,
                   pc, fresh, hist, skips>>

\* 300 ms pass without a notification; the loop ends after timeout_millis.
WaitSlice ==
    /\ pc = "wait" /\ send_conn_ids # {} /\ notes = {}
    /\ IF tries + 1 = MaxTries
       THEN pc' = "done" /\ tries' = 0 /\ CountSkip
       ELSE pc' = "wait" /\ tries' = tries + 1 /\ UNCHANGED skips
    /\ UNCHANGED <<maps, refresh, conn, queue, notes, display_conns, send_conn_ids, fetched,
                   fresh, hist>>

\* check_privacy_mode_changed inside the wait, with or without a changed display.
PrivacySwitchInWait ==
    /\ pc = "wait"
    /\ CountSkip
    /\ ExitRun
    /\ \/ UNCHANGED maps
       \/ subscribes' = subscribes \cup new_subscribes /\ new_subscribes' = {}
    /\ UNCHANGED <<refresh, conn, queue, notes, fresh, hist>>

\* A mutation of FrameDone: the registration of the last frame is kept.
FrameDoneKeepsConns ==
    /\ pc = "done"
    /\ pc' = "top"
    /\ UNCHANGED <<maps, refresh, conn, queue, flow, fresh, hist, skips>>

\* DISPLAY_CONN_IDS.remove; the rest of the frame time is slept.
FrameDone ==
    /\ pc = "done"
    /\ display_conns' = {}
    /\ pc' = "top"
    /\ UNCHANGED <<maps, refresh, conn, queue, notes, send_conn_ids, fetched, tries,
                   fresh, hist, skips>>

Wait == NothingToWait \/ Receive \/ WaitSlice \/ FrameDone

Thread ==
    \/ SetupEncoder \/ LeaveLoop \/ SwitchToRefresh \/ BeginFrame \/ Capture \/ NoFrame
    \/ SnapshotTest \/ SnapshotCheck \/ SwapOk \/ SwapSwitch
    \/ EncodeOk \/ SetSend \/ EncodeFail \/ Wait

\* Steps of the thread that something outside it has to cause.
Caused == SwitchByEnvironment \/ SwitchByDisplayChange \/ PrivacySwitchInWait

Connection(c) ==
    \/ Subscribe(c) \/ Unsubscribe(c) \/ Fetch(c) \/ VideoReceived(c)
    \/ CloseNotify(c) \/ RemoveConnection(c)

Next == Thread \/ Caused \/ RequestRefresh \/ \E c \in Conns : Connection(c)

\* Only the thread is scheduled fairly: no connection has to fetch anything and
\* no outside event has to come.  A capturer and an encoder can be created
\* eventually (GenericService::run retries after an error).
Spec == Init /\ [][Next]_vars /\ WF_vars(Thread)

----------------------------------------------------------------------------
(* A viewer is shown a frame that depends on an encoder's key frame only   *)
(* if it received that key frame ("so that new sub and old sub share the   *)
(* same encoder after switch", video_service.rs:1178).  The one exception: *)
(* every earlier viewer left between two frames, so the snapshot saw no    *)
(* subscriber and the newcomer joined a running encoder.                   *)
KeyFrameFirst == blind \subseteq turnover

(* Flow control: apart from the frame in flight, a connection's queue      *)
(* holds at most one frame for every wait that was given up (3 s timeout,  *)
(* SWITCH inside the wait, or an id that was not waited for).              *)
BacklogBounded ==
    \A c \in Conns : conn[c] = "open" => queue[c] <= 1 + skips

(* DISPLAY_CONN_IDS names connections only while a frame of this run is in *)
(* flight, and then exactly those it was sent to, so the close of a        *)
(* connection wakes the thread that waits for it.                          *)
WaitersRegistered ==
    /\ pc = "wait" => display_conns = send_conn_ids
    /\ pc \in {"idle", "top", "frame", "snap", "check", "encode"} => display_conns = {}

(* The thread leaves the wait for a frame even when a connection never     *)
(* fetches it, because it is slow or because it closed after its last      *)
(* notification and before remove_connection.                              *)
WaitEnds == pc = "wait" ~> pc # "wait"

(* A refresh request is answered by a new encoder, hence a key frame,      *)
(* unless all viewers leave.                                               *)
RefreshHonoured == refresh ~> (fresh \/ ~ok)
=============================================================================
