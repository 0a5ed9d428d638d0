------------------------------ MODULE VideoQoS ------------------------------
(***************************************************************************)
(* The frame rate of the controlled side: src/server/video_qos.rs.  One    *)
(* VIDEO_QOS behind a mutex serves all connections that watch: each feeds  *)
(* the delays of its TestDelay messages into it, each display's video      *)
(* service asks it to adjust once a second, and all of them share the one  *)
(* frame rate that comes out.  Each method is one action.                  *)
(*                                                                         *)
(* The numbers of the code are constants here.  Left out: the bitrate      *)
(* ratio, a product of floats, with the displays and the recording flag.   *)
(***************************************************************************)
EXTENDS Naturals, Sequences, FiniteSetsExt, SequencesExt

CONSTANTS
    Users,                               \* connections that watch
    MIN_FPS, INIT_FPS, FPS, MAX_FPS,     \* as in the code
    QuickStep,                           \* the quick increase, 5 in the code
    MinFps, NormalFps,                   \* min_fps and normal_fps of a quality
    Qualities,                           \* qualities a user may ask for
    Delays,                              \* answers to TestDelay, in ms
    Late,                                \* an answer outstanding for more than 2 s
    HistoryLen,                          \* HISTORY_DELAY_LEN
    MinSamples, WindowSamples,           \* of the RttCalculator
    MaxEvents                            \* bound: connects, settings and late answers

ASSUME QoSAssumption ==
    /\ {MIN_FPS, INIT_FPS, FPS, MAX_FPS, QuickStep, Late, HistoryLen, MinSamples,
        WindowSamples, MaxEvents} \subseteq Nat
    /\ 0 < MIN_FPS /\ MIN_FPS < INIT_FPS /\ INIT_FPS <= FPS /\ FPS <= MAX_FPS
    /\ HistoryLen < WindowSamples /\ Late > 2000 /\ Delays \subseteq Nat
    /\ "balanced" \in DOMAIN MinFps /\ Qualities \subseteq DOMAIN MinFps
    /\ DOMAIN MinFps = DOMAIN NormalFps
    /\ \A q \in DOMAIN MinFps : MinFps[q] \in Nat /\ NormalFps[q] \in Nat

VARIABLES
    fps,           \* the frame rate
    users,         \* connections in users
    data,          \* their UserData
    asked,         \* users that set a quality, the latest last
    due,           \* users with a TestDelay on its way: last_test_delay
    fresh,         \* the last user connected less than a second ago
    events         \* bound

vars == <<fps, users, data, asked, due, fresh, events>>

\* UserData::default.  0 stands for None; samples is the window of the
\* RttCalculator, and delay_history its end.
NewUser == [custom_fps |-> 0, auto_adjust_fps |-> 0, quality |-> "balanced",
            samples |-> <<>>, min_rtt |-> 0, smoothed_rtt |-> 0, response_delayed |-> FALSE,
            fps |-> 0, quick |-> 0, increase |-> 0]

Init ==
    /\ fps = FPS /\ users = {} /\ data = [u \in Users |-> NewUser]
    /\ asked = <<>> /\ due = {} /\ fresh = FALSE /\ events = 0

Clamp(n, lo, hi) == Max({lo, Min({n, hi})})

----------------------------------------------------------------------------
(* Delays.                                                                 *)

\* RttCalculator::get_rtt.
Rtt(d) == IF d.smoothed_rtt # 0 THEN d.smoothed_rtt
          ELSE IF Len(d.samples) >= MinSamples THEN d.min_rtt ELSE 0

\* delay_history: one entry more than HISTORY_DELAY_LEN.
History(d) == SubSeq(d.samples, Max({1, Len(d.samples) - HistoryLen}), Len(d.samples))
Total(s) == LET sum[n \in 0 .. Len(s)] == IF n = 0 THEN 0 ELSE sum[n - 1] + s[n] IN sum[Len(s)]
Average(d) == Total(History(d)) \div Len(History(d))

\* avg_delay: "Average delay minus RTT".
AvgDelay(d) ==
    IF d.samples = <<>> THEN 150
    ELSE IF Rtt(d) # 0 /\ Average(d) > Rtt(d) THEN Average(d) - Rtt(d)
    ELSE Average(d)

\* Mutation: the window of samples is never emptied.
AddDelayGrows(d, delay) ==
    [d EXCEPT !.samples = Append(@, delay), !.min_rtt = IF @ = 0 THEN delay ELSE Min({@, delay})]

\* add_delay, with RttCalculator::update.
AddDelay(d, delay) ==
    LET s == Append(IF Len(d.samples) >= WindowSamples THEN Tail(d.samples) ELSE d.samples, delay)
        m == IF d.min_rtt = 0 THEN delay ELSE Min({d.min_rtt, delay}) IN
    [d EXCEPT !.samples = s, !.min_rtt = m,
              !.smoothed_rtt = IF Len(s) >= WindowSamples
                               THEN (m + Min(ToSet(s))) \div 2 ELSE @]

----------------------------------------------------------------------------
(* The adjustment.                                                         *)

UserFps(d) ==
    LET own == IF d.custom_fps = 0 THEN FPS ELSE d.custom_fps IN
    IF d.auto_adjust_fps # 0 /\ d.auto_adjust_fps < own THEN d.auto_adjust_fps ELSE own

\* highest_fps.
HighestFps(U, D) ==
    Clamp(Min({UserFps(D[u]) : u \in U} \cup (IF U = {} THEN {FPS} ELSE {})), MIN_FPS, MAX_FPS)

\* latest_quality.
LatestQuality == IF asked = <<>> THEN "balanced" ELSE data[Last(asked)].quality

\* adjust_fps: the minimum of all users, MIN_FPS + 1 while an answer is late, and
\* INIT_FPS at most in the first second.
AdjustFps(U, D) ==
    LET slowest == Min({IF D[u].fps = 0 THEN INIT_FPS ELSE D[u].fps : u \in U} \cup
                       (IF U = {} THEN {INIT_FPS} ELSE {}))
        waiting == IF \E u \in U : D[u].response_delayed THEN Min({slowest, MIN_FPS + 1})
                   ELSE slowest
        started == IF fresh THEN Min({waiting, INIT_FPS}) ELSE waiting IN
    Clamp(started, MIN_FPS, HighestFps(U, D))

\* Mutation: a good network does not raise the rate.
DelayFpsNoStep(f, avg, old, quick, min, normal) ==
    IF avg < 150 THEN Max({min, f}) ELSE Min({min, (150 * min) \div avg})

\* The frame rate user_network_delay derives from the current one, for the average
\* delay after (avg) and before (old) the new sample.
DelayFps(f, avg, old, quick, min, normal) ==
    LET up      == IF f < normal THEN 1 ELSE 0
        divided == (f * 150 + avg - 1) \div avg
        product == (150 * min) \div avg IN
    CASE avg < 50                  -> Max({min, f + (IF quick >= 3 THEN QuickStep ELSE up)})
      [] avg >= 50  /\ avg < 100   -> Max({min, f + (IF avg < old THEN up ELSE 0)})
      [] avg >= 100 /\ avg < 150   -> Max({min, f})
      [] avg >= 150 /\ avg < 200   -> Max({min, divided})
      [] avg >= 200 /\ avg < 300   -> Min({min, divided})
      [] avg >= 300 /\ avg < 600   -> product
      [] avg >= 600                -> Min({product, divided})

----------------------------------------------------------------------------
(* The methods.                                                            *)

\* asked without the setting of u.
Forget(u) == IF \E i \in DOMAIN asked : asked[i] = u
             THEN RemoveAt(asked, CHOOSE i \in DOMAIN asked : asked[i] = u) ELSE asked

\* on_connection_open.
Open(u) ==
    /\ u \notin users /\ events < MaxEvents /\ events' = events + 1
    /\ users' = users \cup {u} /\ data' = [data EXCEPT ![u] = NewUser]
    /\ fresh' = TRUE
    /\ UNCHANGED <<fps, asked, due>>

\* on_connection_close: the last user resets everything.
Close(u) ==
    /\ u \in users
    /\ users' = users \ {u} /\ data' = [data EXCEPT ![u] = NewUser]
    /\ asked' = Forget(u) /\ due' = due \ {u}
    /\ fps' = IF users' = {} THEN FPS ELSE fps
    /\ fresh' = IF users' = {} THEN TRUE ELSE fresh
    /\ UNCHANGED events

\* user_custom_fps and user_auto_adjust_fps; both refuse a rate out of range.
SetFps(u, field, n) ==
    /\ u \in users /\ events < MaxEvents /\ events' = events + 1
    /\ n \in MIN_FPS .. MAX_FPS
    /\ data' = [data EXCEPT ![u] = IF field = "custom" THEN [@ EXCEPT !.custom_fps = n]
                                   ELSE [@ EXCEPT !.auto_adjust_fps = n]]
    /\ UNCHANGED <<fps, users, asked, due, fresh>>

\* user_image_quality.
SetQuality(u, q) ==
    /\ u \in users /\ events < MaxEvents /\ events' = events + 1
    /\ data' = [data EXCEPT ![u].quality = q]
    /\ asked' = Append(Forget(u), u)
    /\ UNCHANGED <<fps, users, due, fresh>>

\* What user_network_delay makes of a user's data d, which has the new sample; the
\* new rate of the user starts from the rate f that all users share.
Answered(d, old, f, quality, highest) ==
    LET avg   == Max({AvgDelay(d), 10})
        quick == IF avg < 50 THEN d.quick + 1 ELSE d.quick
        inc   == IF avg < 150 THEN d.increase + 1 ELSE 0
        rate  == DelayFps(f, avg, old, quick, MinFps[quality], NormalFps[quality])
                    + (IF inc >= 3 THEN 1 ELSE 0) IN
    [d EXCEPT !.fps = Clamp(rate, MIN_FPS, highest),
              !.quick = IF avg > 50 \/ (avg < 50 /\ quick >= 3) THEN 0 ELSE quick,
              !.increase = IF inc >= 3 THEN 0 ELSE inc]

\* user_network_delay: a TestDelay is answered.
NetworkDelay(u, delay) ==
    /\ u \in due /\ due' = due \ {u}
    /\ \E d \in {AddDelay(data[u], Max({delay, 10}))} :
          data' = [data EXCEPT ![u] = Answered(d, AvgDelay(@), fps, LatestQuality,
                                               HighestFps(users, data))]
    /\ fps' = AdjustFps(users, data')
    /\ UNCHANGED <<users, asked, fresh, events>>

\* The timer of a connection sends a TestDelay when none is on its way, and
\* user_delay_response_elapsed finds it young: the rate is not adjusted.
Ask(u) ==
    /\ u \in users \ due /\ due' = due \cup {u}
    /\ data' = [data EXCEPT ![u].response_delayed = FALSE]
    /\ UNCHANGED <<fps, users, asked, fresh, events>>

\* Mutation: the rate is not adjusted.
StillWaitingLazy(u) ==
    /\ u \in due /\ events < MaxEvents /\ events' = events + 1
    /\ data' = [data EXCEPT ![u] = [AddDelay(@, Late) EXCEPT !.response_delayed = TRUE]]
    /\ UNCHANGED <<fps, users, asked, due, fresh>>

\* The timer again, with the answer outstanding for more than 2 s.
StillWaiting(u) ==
    /\ u \in due /\ events < MaxEvents /\ events' = events + 1
    /\ data' = [data EXCEPT ![u] = [AddDelay(@, Late) EXCEPT !.response_delayed = TRUE]]
    /\ fps' = AdjustFps(users, data')
    /\ UNCHANGED <<users, asked, due, fresh>>

\* update_display_data, called by the video service once a second.
UpdateDisplayData ==
    /\ users # {} /\ fps' = AdjustFps(users, data)
    /\ UNCHANGED <<users, data, asked, due, fresh, events>>

\* new_user_instant is a second old.
Second == fresh /\ fresh' = FALSE /\ UNCHANGED <<fps, users, data, asked, due, events>>

Next ==
    \/ \E u \in Users :
          \/ Open(u) \/ Close(u) \/ Ask(u) \/ StillWaiting(u)
          \/ \E q \in Qualities : SetQuality(u, q)
          \/ \E f \in {"custom", "auto"}, n \in {MIN_FPS, INIT_FPS, MAX_FPS} : SetFps(u, f, n)
          \/ \E d \in Delays : NetworkDelay(u, d)
    \/ UpdateDisplayData \/ Second

\* The timers run, and a TestDelay is answered or its connection closes: one that
\* stays silent for 30 s is closed with "Timeout".
Fairness ==
    /\ \A u \in Users : WF_vars(Ask(u)) /\ []<>(u \notin due)
    /\ WF_vars(Second)

Spec == Init /\ [][Next]_vars /\ Fairness

----------------------------------------------------------------------------
TypeOK ==
    /\ fps \in MIN_FPS .. MAX_FPS /\ users \subseteq Users
    /\ \A u \in Users :
          /\ data[u].fps \in 0 .. MAX_FPS /\ data[u].quick \in 0 .. 2 /\ data[u].increase \in 0 .. 2
          /\ data[u].custom_fps \in 0 .. MAX_FPS /\ data[u].auto_adjust_fps \in 0 .. MAX_FPS
          /\ Len(data[u].samples) <= WindowSamples
          /\ data[u].quality \in DOMAIN MinFps
    /\ ToSet(asked) \subseteq users /\ due \subseteq users /\ fresh \in BOOLEAN /\ events \in 0 .. MaxEvents

(***************************************************************************)
(* While a user's answer is late, nobody's sample raises the rate: it is   *)
(* at most MIN_FPS + 1 until that user answers or leaves, although every   *)
(* user's sample and every display recomputes it.                          *)
(***************************************************************************)
LateHoldsRate ==
    (\E u \in users : data[u].response_delayed) => fps <= MIN_FPS + 1

(***************************************************************************)
(* "Average delay minus RTT": the delay a rate is derived from is the      *)
(* average less the round trip, once that is known.                        *)
(***************************************************************************)
RttSubtracted ==
    \A u \in users : Rtt(data[u]) # 0 /\ Average(data[u]) >= Rtt(data[u])
                        => AvgDelay(data[u]) = Average(data[u]) - Rtt(data[u])

(***************************************************************************)
(* Congestion ends: when from some time on all users have a good network,  *)
(* the rate comes back to normal_fps, or to the highest rate they allow,   *)
(* and stays there: a slow user that leaves, a late answer and a new user  *)
(* hold it down no longer than they last.                                  *)
(***************************************************************************)
Good == /\ users # {} /\ ~fresh
        /\ \A u \in users : AvgDelay(data[u]) < 50 /\ ~data[u].response_delayed
RateRecovers ==
    <>[]Good => <>[](fps >= Min({NormalFps[LatestQuality], HighestFps(users, data)}))
=============================================================================
