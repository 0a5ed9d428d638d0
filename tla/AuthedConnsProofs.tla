-------------------------- MODULE AuthedConnsProofs --------------------------
(***************************************************************************)
(* Proofs about AuthedConns for any set of connections and keys: the three *)
(* safety invariants of the run hold whatever the number of connections.   *)
(***************************************************************************)
EXTENDS AuthedConns, Naturals, SequenceTheorems, TLAPS

\* The phases in which a connection's AuthedConnID exists.
Held == Opening \cup {"lookup", "paint", "authed", "resize", "closing"}

\* A connection is busy between its change of AUTHED_CONNS and the end of the
\* check_wake_lock that follows.
Busy == Opening \cup Closing

\* AUTHED_CONNS holds exactly the connections between AuthedConnID::new and
\* its drop; what a connection knows of its session goes with it.
Registered ==
    /\ \A c \in Conns : c \in AUTHED <=> pc[c] \in Held
    /\ \A c \in Conns : handle[c] # "none" => c \in AUTHED
    /\ \A c \in Conns : pc[c] = "resize" => kind[c] = "Remote"

\* Whoever restores does so alone: no remote connection is registered.
RestoreAlone ==
    ~reopened => \A c \in Conns : pc[c] \in Restoring => Remote(AUTHED) = {}

\* The record is there while a change is under way.  Unless a restoration
\* failed, it is of the resolution before the first change, it is there
\* before the display changes, and it is cleared only when the display is
\* back.
RecordSound ==
    ~reopened =>
        /\ \A c \in Conns : pc[c] = "resize" => record # "none"
        /\ ~unrestored =>
             /\ record # "changed"
             /\ record = "none" => display = "original"
             /\ \A c \in Conns : pc[c] = "restore3" => display = "original"

\* What is still to be restored has somebody who will restore it: a remote
\* connection, or one that has left and has not come to that step yet.
Responsible ==
    (~reopened /\ Remote(AUTHED) = {}) =>
        /\ wallpaper => \E c \in Conns : pc[c] \in {"retained", "restore1"}
        /\ record # "none" => \E c \in Conns : pc[c] \in Restoring \cup {"retained"}

\* The last word said to the wake lock thread.
LastWord == IF chan = <<>> THEN wakelock ELSE chan[Len(chan)][1]

\* Without an overlap one connection is busy at a time, the count it has read
\* is still right, and what it sent last is what the registry says.
OneBusy == ~overlap => \A c, d \in Conns : pc[c] \in Busy /\ pc[d] \in Busy => c = d

CountFresh ==
    ~overlap => \A c \in Conns :
        pc[c] \in {"open2", "open3", "wake2", "wake3"} => any[c] = (AUTHED # {})

LastWordTrue ==
    (~overlap /\ \A c \in Conns : pc[c] \notin Busy) => LastWord = (AUTHED # {})

WakeInv == OneBusy /\ CountFresh /\ LastWordTrue
\* A connection whose handle is live has its session in SESSIONS.
LiveSession == \A c \in Conns : handle[c] = "live" => key[c] \in sessions

RestoreInv == RestoreAlone /\ RecordSound /\ Responsible

IInv == TypeOK /\ Registered /\ LiveSession /\ SessionKept /\ RestoreInv /\ WakeInv

\* The invariant holds at first.
LEMMA InitInv == Init => IInv
  <1> SUFFICES ASSUME Init PROVE IInv
    OBVIOUS
  <1> USE DEF Init, Held, Busy, Phases, Opening, Closing, Restoring
  <1>1. TypeOK
    <2>1. chan \in Seq(BOOLEAN \X BOOLEAN)
      OBVIOUS
    <2>2. any \in [Conns -> BOOLEAN] /\ anyRemote \in [Conns -> BOOLEAN]
      OBVIOUS
    <2> QED BY <2>1, <2>2 DEF TypeOK
  <1>2. Registered /\ LiveSession /\ SessionKept
    BY DEF Registered, LiveSession, SessionKept, Remote
  <1>3. RestoreInv
    BY DEF RestoreInv, RestoreAlone, RecordSound, Responsible, Remote
  <1>4. OneBusy /\ CountFresh
    BY DEF OneBusy, CountFresh
  <1>5. LastWordTrue
    BY DEF LastWordTrue, LastWord
  <1> QED BY <1>1, <1>2, <1>3, <1>4, <1>5 DEF IInv, WakeInv

\* Every step keeps the types.
LEMMA TypeStep == TypeOK /\ [Next]_vars => TypeOK'
  <1> SUFFICES ASSUME TypeOK, [Next]_vars PROVE TypeOK'
    OBVIOUS
  <1> USE DEF TypeOK, ident, state, sess, desk, lock, local, hist, Go, Phases, Opening, Closing,
              Restoring
  <1>1. ASSUME NEW c \in Conns, ValidatePassword(c) \/ ExpireSessions(c) PROVE TypeOK'
    BY <1>1 DEF ValidatePassword, ExpireSessions, Unlink
  <1>2. ASSUME NEW c \in Conns, Authorize(c) PROVE TypeOK'
    BY <1>2 DEF Authorize, Others
  <1>3. ASSUME NEW c \in Conns, check_wake_lock(c) PROVE TypeOK'
    <2>1. CASE ReadCount(c, "open1", "open2") \/ ReadCount(c, "wake1", "wake2")
      BY <2>1 DEF ReadCount
    <2>2. CASE ReadRemoteCount(c, "open2", "open3") \/ ReadRemoteCount(c, "wake2", "wake3")
      BY <2>2 DEF ReadRemoteCount
    <2>3. CASE SendWakeLock(c, "open3", "lookup") \/ SendWakeLock(c, "wake3", "closed")
      <3>1. any[c] \in BOOLEAN /\ anyRemote[c] \in BOOLEAN
        OBVIOUS
      <3>2. chan' = Append(chan, <<any[c], anyRemote[c]>>)
        BY <2>3 DEF SendWakeLock
      <3>3. chan' \in Seq(BOOLEAN \X BOOLEAN)
        BY <3>1, <3>2
      <3>4. any' \in [Conns -> BOOLEAN] /\ anyRemote' \in [Conns -> BOOLEAN]
        BY <2>3 DEF SendWakeLock
      <3> QED BY <2>3, <3>3, <3>4 DEF SendWakeLock
    <2> QED BY <1>3, <2>1, <2>2, <2>3 DEF check_wake_lock
  <1>4. ASSUME NEW c \in Conns, LookupSession(c) PROVE TypeOK'
    BY <1>4 DEF LookupSession
  <1>5. ASSUME NEW c \in Conns, OnRemoteAuthorized(c) PROVE TypeOK'
    BY <1>5 DEF OnRemoteAuthorized
  <1>6. ASSUME NEW c \in Conns, RecordResolution(c) \/ ApplyResolution(c) PROVE TypeOK'
    BY <1>6 DEF RecordResolution, ApplyResolution
  <1>7. ASSUME NEW c \in Conns, CloseNoRetry(c) \/ CloseWithRetry(c) PROVE TypeOK'
    BY <1>7 DEF CloseNoRetry, CloseWithRetry, Ended, Unlink
  <1>8. ASSUME NEW c \in Conns, Retain(c) \/ CountRemote(c) PROVE TypeOK'
    <2>1. CASE Retain(c)
      BY <2>1 DEF Retain, Others
    <2>2. CASE CountRemote(c)
      BY <2>2 DEF CountRemote
    <2> QED BY <1>8, <2>1, <2>2
  <1>9. ASSUME NEW c \in Conns,
               RestoreWallpaper(c) \/ RestoreResolutions(c) \/ ClearResolutions(c)
        PROVE  TypeOK'
    BY <1>9 DEF RestoreWallpaper, RestoreResolutions, ClearResolutions
  <1>10. ASSUME WakeLockThread PROVE TypeOK'
    BY <1>10 DEF WakeLockThread
  <1>11. CASE UNCHANGED vars
    BY <1>11 DEF vars
  <1> QED BY <1>1, <1>2, <1>3, <1>4, <1>5, <1>6, <1>7, <1>8, <1>9, <1>10, <1>11 DEF Next, Task

(* What the registry says of a connection is what its task says.           *)
LEMMA RegisteredStep == TypeOK /\ Registered /\ [Next]_vars => Registered'
  <1> SUFFICES ASSUME TypeOK, Registered, [Next]_vars PROVE Registered'
    OBVIOUS
  <1> USE DEF TypeOK, Registered, Held, ident, state, sess, desk, lock, local, hist, Go, Phases,
              Opening, Closing, Restoring
  <1>1. ASSUME NEW c \in Conns, ValidatePassword(c) \/ ExpireSessions(c) \/ Authorize(c)
        PROVE  Registered'
    BY <1>1 DEF ValidatePassword, ExpireSessions, Unlink, Authorize
  <1>2. ASSUME NEW c \in Conns, check_wake_lock(c) PROVE Registered'
    BY <1>2 DEF check_wake_lock, ReadCount, ReadRemoteCount, SendWakeLock
  <1>3. ASSUME NEW c \in Conns, LookupSession(c) \/ OnRemoteAuthorized(c) PROVE Registered'
    <2>1. CASE LookupSession(c)
      BY ZenonT(90), <2>1 DEF LookupSession
    <2>2. CASE OnRemoteAuthorized(c)
      BY <2>2 DEF OnRemoteAuthorized
    <2> QED BY <1>3, <2>1, <2>2
  <1>4. ASSUME NEW c \in Conns, RecordResolution(c) \/ ApplyResolution(c) PROVE Registered'
    <2>1. CASE RecordResolution(c)
      BY <2>1 DEF RecordResolution
    <2>2. CASE ApplyResolution(c)
      BY <2>2 DEF ApplyResolution
    <2> QED BY <1>4, <2>1, <2>2
  <1>5. ASSUME NEW c \in Conns, CloseNoRetry(c) \/ CloseWithRetry(c) PROVE Registered'
    BY <1>5 DEF CloseNoRetry, CloseWithRetry, Ended, Unlink
  <1>6. ASSUME NEW c \in Conns, Retain(c) \/ CountRemote(c) PROVE Registered'
    BY <1>6 DEF Retain, CountRemote
  <1>7. ASSUME NEW c \in Conns,
               RestoreWallpaper(c) \/ RestoreResolutions(c) \/ ClearResolutions(c)
        PROVE  Registered'
    BY <1>7 DEF RestoreWallpaper, RestoreResolutions, ClearResolutions
  <1>8. ASSUME WakeLockThread PROVE Registered'
    BY <1>8 DEF WakeLockThread
  <1>9. CASE UNCHANGED vars
    BY <1>9 DEF vars
  <1> QED BY <1>1, <1>2, <1>3, <1>4, <1>5, <1>6, <1>7, <1>8, <1>9 DEF Next, Task

(* The session of a live handle is there: whoever removes it, by expiry or *)
(* by a close without retry, unlinks its handles.  A close does so of its  *)
(* own accord only if no other remote connection of the peer is            *)
(* registered, or if the connection that closes is a remote one itself.    *)
LEMMA SessionStep == IInv /\ [Next]_vars => LiveSession' /\ SessionKept'
  <1> SUFFICES ASSUME IInv, [Next]_vars PROVE LiveSession' /\ SessionKept'
    OBVIOUS
  <1> USE DEF IInv, TypeOK, Registered, LiveSession, SessionKept, Remote, ident, state, sess,
              desk, lock, local, hist
  <1>1. ASSUME NEW c \in Conns, ValidatePassword(c) \/ Authorize(c)
        PROVE  LiveSession' /\ SessionKept'
    BY <1>1 DEF ValidatePassword, Authorize
  <1>2. ASSUME NEW c \in Conns, ExpireSessions(c) PROVE LiveSession' /\ SessionKept'
    BY <1>2 DEF ExpireSessions, Unlink
  <1>3. ASSUME NEW c \in Conns, LookupSession(c) PROVE LiveSession' /\ SessionKept'
    BY <1>3 DEF LookupSession
  <1>4. ASSUME NEW c \in Conns, CloseNoRetry(c) PROVE LiveSession' /\ SessionKept'
    <2>1. UNCHANGED <<kind, key, AUTHED>>
      BY <1>4 DEF CloseNoRetry
    <2>2. CASE KeepsSession(c)
      BY <1>4, <2>1, <2>2 DEF CloseNoRetry
    <2>3. CASE ~KeepsSession(c)
      <3>1. LiveSession'
        BY <1>4, <2>1, <2>3 DEF CloseNoRetry, Unlink
      <3>2. ASSUME NEW d \in Remote(AUTHED), handle'[d] = "taken" PROVE FALSE
        <4>1. handle[d] = "live" /\ key[d] = key[c] /\ c \notin Remote(AUTHED)
          BY <1>4, <2>3, <3>2 DEF CloseNoRetry, Unlink
        <4> QED BY <2>3, <4>1 DEF KeepsSession
      <3>3. handle' \in [Conns -> {"none", "live", "aged", "given", "taken"}]
        BY <1>4, <2>3 DEF CloseNoRetry, Unlink
      <3> QED BY <2>1, <3>1, <3>2, <3>3
    <2> QED BY <2>2, <2>3
  <1>5. ASSUME NEW c \in Conns, Retain(c) PROVE LiveSession' /\ SessionKept'
    BY <1>5 DEF Retain
  <1>6. ASSUME NEW c \in Conns,
               \/ check_wake_lock(c) \/ OnRemoteAuthorized(c)
               \/ RecordResolution(c) \/ ApplyResolution(c)
               \/ CloseWithRetry(c) \/ CountRemote(c)
               \/ RestoreWallpaper(c) \/ RestoreResolutions(c) \/ ClearResolutions(c)
        PROVE  LiveSession' /\ SessionKept'
    <2>1. UNCHANGED <<kind, key, AUTHED, sessions, handle>>
      BY <1>6 DEF check_wake_lock, ReadCount, ReadRemoteCount, SendWakeLock,
         OnRemoteAuthorized, RecordResolution, ApplyResolution, CloseWithRetry, CountRemote,
         RestoreWallpaper, RestoreResolutions, ClearResolutions
    <2> QED BY <2>1
  <1>7. CASE WakeLockThread \/ UNCHANGED vars
    BY <1>7 DEF WakeLockThread, vars
  <1> QED BY <1>1, <1>2, <1>3, <1>4, <1>5, <1>6, <1>7 DEF Next, Task

(* Restoring starts only when no remote connection is registered, and one  *)
(* that comes later is remembered in reopened.                             *)
LEMMA RestoreStep == IInv /\ [Next]_vars => RestoreInv'
  <1> SUFFICES ASSUME IInv, [Next]_vars PROVE RestoreInv'
    OBVIOUS
  <1> USE DEF IInv, TypeOK, Registered, RestoreInv, Remote, Held, Opening, Closing, Restoring,
              Phases, ident, state, sess, desk, lock, local, hist, Go
  <1>1. ASSUME NEW c \in Conns, Authorize(c) PROVE RestoreInv'
    <2>1. RestoreAlone'
      BY ZenonT(90), <1>1 DEF Authorize, Others, RestoreAlone
    <2>2. RecordSound'
      BY <1>1 DEF Authorize, RecordSound
    <2>3. Responsible'
      BY <1>1 DEF Authorize, Responsible
    <2> QED BY <2>1, <2>2, <2>3
  <1>2. ASSUME NEW c \in Conns,
               \/ ValidatePassword(c) \/ ExpireSessions(c) \/ check_wake_lock(c)
               \/ LookupSession(c) \/ CloseNoRetry(c) \/ CloseWithRetry(c)
        PROVE  RestoreInv'
    <2>1. /\ UNCHANGED <<kind, AUTHED, wallpaper, record, display, unrestored, reopened>>
          /\ \A d \in Conns :
               \A p \in Restoring \cup {"retained", "resize"} : pc[d] = p <=> pc'[d] = p
      BY <1>2 DEF ValidatePassword, ExpireSessions, check_wake_lock, ReadCount, ReadRemoteCount,
         SendWakeLock,
         LookupSession, CloseNoRetry, CloseWithRetry, Ended
    <2>2. Remote(AUTHED)' = Remote(AUTHED)
      BY <2>1
    <2>3. RestoreAlone'
      BY <2>1, <2>2 DEF RestoreAlone
    <2>4. RecordSound'
      BY <2>1 DEF RecordSound
    <2>5. Responsible'
      BY <2>1, <2>2 DEF Responsible
    <2> QED BY <2>3, <2>4, <2>5
  <1>3. ASSUME NEW c \in Conns, OnRemoteAuthorized(c) PROVE RestoreInv'
    <2>1. /\ UNCHANGED <<kind, AUTHED, record, display, unrestored, reopened>>
          /\ \A d \in Conns :
               \A p \in Restoring \cup {"retained", "resize"} : pc[d] = p <=> pc'[d] = p
          /\ c \in AUTHED /\ (kind[c] # "Remote" => UNCHANGED wallpaper)
      BY <1>3 DEF OnRemoteAuthorized
    <2>2. Remote(AUTHED)' = Remote(AUTHED)
      BY <2>1
    <2>3. RestoreAlone'
      BY <2>1, <2>2 DEF RestoreAlone
    <2>4. RecordSound'
      BY <2>1 DEF RecordSound
    <2>5. Responsible'
      BY <2>1, <2>2 DEF Responsible
    <2> QED BY <2>3, <2>4, <2>5
  <1>4. ASSUME NEW c \in Conns, RecordResolution(c) PROVE RestoreInv'
    BY <1>4 DEF RecordResolution, RestoreAlone, RecordSound, Responsible
  <1>5. ASSUME NEW c \in Conns, ApplyResolution(c) PROVE RestoreInv'
    BY <1>5 DEF ApplyResolution, RestoreAlone, RecordSound, Responsible
  <1>6. ASSUME NEW c \in Conns, Retain(c) PROVE RestoreInv'
    BY <1>6 DEF Retain, RestoreAlone, RecordSound, Responsible
  <1>7. ASSUME NEW c \in Conns, CountRemote(c) PROVE RestoreInv'
    BY <1>7 DEF CountRemote, RestoreAlone, RecordSound, Responsible
  <1>8. ASSUME NEW c \in Conns, RestoreWallpaper(c) PROVE RestoreInv'
    BY <1>8 DEF RestoreWallpaper, RestoreAlone, RecordSound, Responsible
  <1>9. ASSUME NEW c \in Conns, RestoreResolutions(c) PROVE RestoreInv'
    <2>1. /\ UNCHANGED <<kind, AUTHED, wallpaper, record, reopened>>
          /\ pc[c] = "restore2" /\ pc'[c] = "restore3"
          /\ \A d \in Conns \ {c} : pc'[d] = pc[d]
      BY <1>9 DEF RestoreResolutions
    <2>2. Remote(AUTHED)' = Remote(AUTHED)
      BY <2>1
    <2>3. RestoreAlone'
      BY <2>1, <2>2 DEF RestoreAlone
    <2>4. RecordSound'
      <3>1. CASE record = "none"
        <4>1. display' = display /\ (unrestored => unrestored')
          BY <1>9, <3>1 DEF RestoreResolutions
        <4> QED BY <2>1, <3>1, <4>1 DEF RecordSound
      <3>2. CASE record # "none"
        <4>1. ~unrestored' => ~unrestored /\ display' = record
          BY <1>9, <3>2 DEF RestoreResolutions
        <4>2. record = "original" \/ record = "changed"
          BY <3>2
        <4> QED BY <2>1, <3>2, <4>1, <4>2 DEF RecordSound
      <3> QED BY <3>1, <3>2
    <2>5. Responsible'
      BY <2>1, <2>2 DEF Responsible
    <2> QED BY <2>3, <2>4, <2>5
  <1>10. ASSUME NEW c \in Conns, ClearResolutions(c) PROVE RestoreInv'
    BY <1>10 DEF ClearResolutions, RestoreAlone, RecordSound, Responsible
  <1>11. CASE WakeLockThread \/ UNCHANGED vars
    BY <1>11 DEF WakeLockThread, vars, RestoreAlone, RecordSound, Responsible
  <1> QED BY <1>1, <1>2, <1>3, <1>4, <1>5, <1>6, <1>7, <1>8, <1>9, <1>10, <1>11 DEF Next, Task

(* Appending makes the last word; taking the first message keeps it.       *)
LEMMA AppendLastWord ==
    ASSUME TypeOK, NEW a \in BOOLEAN, NEW b \in BOOLEAN, chan' = Append(chan, <<a, b>>)
    PROVE  LastWord' = a
  BY DEF TypeOK, LastWord

\* Taking the first element of a sequence keeps its last one.
LEMMA TailLast ==
    ASSUME NEW B, NEW s \in Seq(B), s # <<>>
    PROVE  /\ Tail(s) = <<>> => Head(s) = s[Len(s)]
           /\ Tail(s) # <<>> => Tail(s)[Len(Tail(s))] = s[Len(s)]
  <1> DEFINE t == Tail(s)
  <1>1. Len(s) \in Nat \ {0}
    BY EmptySeq
  <1>2. /\ t \in Seq(B) /\ Len(t) = Len(s) - 1
        /\ \A i \in 1 .. Len(t) : t[i] = s[i + 1]
    BY HeadTailProperties
  <1> HIDE DEF t
  <1>3. ASSUME t = <<>> PROVE Head(s) = s[Len(s)]
    <2>1. Len(t) = 0
      BY <1>3
    <2>2. Len(s) = 1
      BY <1>1, <1>2, <2>1
    <2> QED BY <2>2
  <1>4. ASSUME t # <<>> PROVE t[Len(t)] = s[Len(s)]
    <2>1. Len(t) \in 1 .. Len(t)
      BY <1>2, <1>4, EmptySeq
    <2> QED BY <1>1, <1>2, <2>1
  <1> QED BY <1>3, <1>4 DEF t

\* The wake lock thread obeys a word; the last one stays what it was.
LEMMA TailLastWord ==
    ASSUME TypeOK, WakeLockThread
    PROVE  LastWord' = LastWord
  <1>1. chan \in Seq(BOOLEAN \X BOOLEAN) /\ chan # <<>>
        /\ chan' = Tail(chan) /\ wakelock' = Head(chan)[1]
    BY DEF TypeOK, WakeLockThread
  <1> QED BY <1>1, TailLast DEF LastWord

(* While nobody overlaps, only the busy connection changes the registry.   *)
LEMMA WakeStep == IInv /\ [Next]_vars => WakeInv'
  <1> SUFFICES ASSUME IInv, [Next]_vars PROVE WakeInv'
    OBVIOUS
  <1> USE DEF IInv, TypeOK, Registered, WakeInv, Held, Busy, Opening, Closing, Restoring, Phases,
              ident, state, sess, desk, lock, local, hist, Go
  <1>1. ASSUME NEW c \in Conns, Authorize(c) \/ Retain(c) PROVE WakeInv'
    <2>1. /\ pc[c] \notin Busy /\ pc'[c] \in {"open1", "retained"}
          /\ \A d \in Conns \ {c} : pc'[d] = pc[d]
          /\ UNCHANGED any
          /\ ~overlap' => ~overlap /\ \A d \in Conns \ {c} : pc[d] \notin Busy
      BY ZenonT(90), <1>1 DEF Authorize, Retain, Others
    <2> QED BY <2>1 DEF OneBusy, CountFresh, LastWordTrue
  <1>2. ASSUME NEW c \in Conns, \/ ReadCount(c, "open1", "open2")
                                \/ ReadCount(c, "wake1", "wake2") PROVE WakeInv'
    <2>1. /\ pc[c] \in Busy /\ pc'[c] \in {"open2", "wake2"}
          /\ \A d \in Conns \ {c} : pc'[d] = pc[d] /\ any'[d] = any[d]
          /\ any'[c] = (AUTHED # {})
          /\ UNCHANGED <<AUTHED, overlap>>
      BY <1>2 DEF ReadCount
    <2> QED BY <2>1 DEF OneBusy, CountFresh, LastWordTrue
  <1>3. ASSUME NEW c \in Conns, \/ SendWakeLock(c, "open3", "lookup")
                                \/ SendWakeLock(c, "wake3", "closed") PROVE WakeInv'
    <2>1. /\ pc[c] \in {"open3", "wake3"} /\ pc'[c] \notin Busy
          /\ \A d \in Conns \ {c} : pc'[d] = pc[d] /\ any'[d] = any[d]
          /\ UNCHANGED <<AUTHED, overlap>>
      BY <1>3 DEF SendWakeLock
    <2>2. LastWord' = any[c]
      <3>1. chan' = Append(chan, <<any[c], anyRemote[c]>>)
        BY <1>3 DEF SendWakeLock
      <3> QED BY <3>1, AppendLastWord
    <2> QED BY <2>1, <2>2 DEF OneBusy, CountFresh, LastWordTrue
  <1>4. ASSUME NEW c \in Conns,
               \/ ValidatePassword(c) \/ ExpireSessions(c) \/ LookupSession(c)
               \/ OnRemoteAuthorized(c)
               \/ ReadRemoteCount(c, "open2", "open3") \/ ReadRemoteCount(c, "wake2", "wake3")
               \/ RecordResolution(c) \/ ApplyResolution(c)
               \/ CloseNoRetry(c) \/ CloseWithRetry(c) \/ CountRemote(c)
               \/ RestoreWallpaper(c) \/ RestoreResolutions(c) \/ ClearResolutions(c)
        PROVE  WakeInv'
    <2>1. UNCHANGED <<any, AUTHED, overlap, chan, wakelock>>
      BY <1>4 DEF ValidatePassword, ExpireSessions, LookupSession, OnRemoteAuthorized,
           ReadRemoteCount,
         RecordResolution, ApplyResolution, CloseNoRetry, CloseWithRetry, CountRemote,
         RestoreWallpaper, RestoreResolutions, ClearResolutions
    <2>2. \A d \in Conns :
              /\ pc[d] \in Busy <=> pc'[d] \in Busy
              /\ pc'[d] \in {"open2", "open3", "wake2", "wake3"}
                    => pc[d] \in {"open2", "open3", "wake2", "wake3"}
      <3>1. \/ /\ pc[c] \in Restoring \cup {"retained"}
               /\ pc'[c] \in Restoring \cup {"wake1"}
            \/ pc[c] \in {"open2", "wake2"} /\ pc'[c] \in {"open3", "wake3"}
            \/ pc[c] \notin Busy /\ pc'[c] \notin Busy
        BY ZenonT(90), <1>4 DEF ValidatePassword, ExpireSessions, LookupSession, OnRemoteAuthorized,
           ReadRemoteCount, RecordResolution, ApplyResolution, CloseNoRetry, CloseWithRetry, Ended, CountRemote,
           RestoreWallpaper, RestoreResolutions, ClearResolutions
      <3>2. \A d \in Conns \ {c} : pc'[d] = pc[d]
        BY ZenonT(90), <1>4 DEF ValidatePassword, ExpireSessions, LookupSession, OnRemoteAuthorized,
           ReadRemoteCount, RecordResolution, ApplyResolution, CloseNoRetry, CloseWithRetry, Ended, CountRemote,
           RestoreWallpaper, RestoreResolutions, ClearResolutions
      <3> QED BY <3>1, <3>2
    <2>3. OneBusy' /\ CountFresh'
      BY <2>1, <2>2 DEF OneBusy, CountFresh
    <2>4. LastWordTrue'
      BY <2>1, <2>2 DEF LastWordTrue, LastWord
    <2> QED BY <2>3, <2>4
  <1>5. ASSUME WakeLockThread PROVE WakeInv'
    <2>1. LastWord' = LastWord /\ UNCHANGED <<pc, any, AUTHED, overlap>>
      BY <1>5, TailLastWord DEF WakeLockThread
    <2> QED BY <2>1 DEF OneBusy, CountFresh, LastWordTrue
  <1>6. CASE UNCHANGED vars
    BY <1>6 DEF vars, OneBusy, CountFresh, LastWordTrue, LastWord
  <1> QED BY <1>1, <1>2, <1>3, <1>4, <1>5, <1>6 DEF Next, Task, check_wake_lock

\* Every step keeps the invariant.
LEMMA NextInv == IInv /\ [Next]_vars => IInv'
  BY TypeStep, RegisteredStep, SessionStep, RestoreStep, WakeStep DEF IInv

(* Every state has its type, whatever the number of connections.           *)
THEOREM TypeCorrect == Spec => []TypeOK
  BY InitInv, NextInv, PTL DEF Spec, IInv

(* The session an authorised remote connection found at its login stays    *)
(* until a remote connection of that peer gives it up or it is forgotten   *)
(* for its age: check_remove_session of another connection, authorised or  *)
(* not, does not take it away, whatever reads of AUTHED_CONNS, logins and  *)
(* closes come in between.                                                 *)
THEOREM SessionKeptHolds == Spec => []SessionKept
  BY InitInv, NextInv, PTL DEF Spec, IInv

(* Once the last remote connection has left and nobody is restoring, the   *)
(* wallpaper's remover and the record are gone and the display is back or  *)
(* a restoration failed: the drops of AuthedConnID, in whatever order they *)
(* run, leave nothing else of any connection behind.                       *)
THEOREM RestoredWhenIdleHolds == Spec => []RestoredWhenIdle
  <1>1. IInv => RestoredWhenIdle
    BY DEF IInv, TypeOK, RestoreInv, RecordSound, Responsible, RestoredWhenIdle, Restoring
  <1> QED BY <1>1, InitInv, NextInv, PTL DEF Spec

(* The wake lock thread, once it has read its channel, holds the lock      *)
(* exactly if a connection is authorised, when no two connections were     *)
(* between AUTHED_CONNS and the channel at once.                           *)
THEOREM WakeLockExactHolds == Spec => []WakeLockExact
  <1>1. IInv => WakeLockExact
    BY DEF IInv, WakeInv, LastWordTrue, LastWord, WakeLockExact, Busy
  <1> QED BY <1>1, InitInv, NextInv, PTL DEF Spec
=============================================================================
