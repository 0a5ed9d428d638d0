---------------------------- MODULE AuthedConns ----------------------------
(***************************************************************************)
(* The registry of authorised connections of the controlled side: mod raii *)
(* of src/server/connection.rs, with what hangs on it: the wake lock       *)
(* thread, the wallpaper, the record of changed resolutions                *)
(* (src/server/display_service.rs) and the sessions that let a peer        *)
(* reconnect.                                                              *)
(*                                                                         *)
(* Every connection is a task of its own on a multi-threaded runtime, and  *)
(* each static is behind its own mutex, so one action is one acquisition   *)
(* of one of those mutexes.  The counts the code reads are only compared   *)
(* with zero and are modelled by that comparison.                          *)
(***************************************************************************)
EXTENDS Sequences

CONSTANTS
    Conns,   \* connection ids; an id is never used twice (Server::get_new_id)
    Keys     \* SessionKey: peer id, name and session id of the peer

VARIABLES
    kind,       \* AuthConnType: Remote, or one of the others
    key,        \* the peer's SessionKey
    pc,         \* where the connection's task is
    AUTHED,     \* AUTHED_CONNS
    sessions,   \* keys of SESSIONS
    handle,     \* session_last_recv_time: none, live (of the session that is in
                \* SESSIONS), or of one that is no longer there: it was forgotten
                \* for its age (aged), a remote connection gave it up (given), or
                \* another connection removed it (taken)
    any, anyRemote,  \* locals of check_wake_lock: conn_count > 0, remote_count > 0
    chan,       \* WAKELOCK_SENDER's channel
    wakelock,   \* the wake lock thread holds a lock
    wallpaper,  \* WALLPAPER_REMOVER is set
    record,     \* CHANGED_RESOLUTIONS of the display: the original, or none
    display,    \* the display's resolution
    unrestored, \* history: a restoration failed on a changed display
    reopened,   \* history: a remote connection came while another restored
    overlap     \* history: two connections were between registry and wake lock

sess  == <<sessions, handle>>
desk  == <<wallpaper, record, display>>
lock  == <<chan, wakelock>>
state == <<AUTHED, sess, lock, desk>>
ident == <<kind, key>>
local == <<any, anyRemote>>
hist  == <<unrestored, reopened, overlap>>
vars  == <<ident, pc, state, local, hist>>

Opening    == {"open1", "open2", "open3"}
Restoring  == {"restore1", "restore2", "restore3"}
Closing    == {"retained", "wake1", "wake2", "wake3"} \cup Restoring
Phases     == {"login", "valid", "lookup", "paint", "authed", "resize", "closing", "closed"}
              \cup Opening \cup Closing

Remote(S) == {c \in S : kind[c] = "Remote"}

TypeOK ==
    /\ kind \in [Conns -> {"Remote", "Other"}] /\ key \in [Conns -> Keys]
    /\ pc \in [Conns -> Phases]
    /\ AUTHED \subseteq Conns /\ sessions \subseteq Keys
    /\ handle \in [Conns -> {"none", "live", "aged", "given", "taken"}]
    /\ any \in [Conns -> BOOLEAN] /\ anyRemote \in [Conns -> BOOLEAN]
    /\ chan \in Seq(BOOLEAN \X BOOLEAN)
    /\ wakelock \in BOOLEAN /\ wallpaper \in BOOLEAN
    /\ record \in {"none", "original", "changed"} /\ display \in {"original", "changed"}
    /\ unrestored \in BOOLEAN /\ reopened \in BOOLEAN /\ overlap \in BOOLEAN

Init ==
    /\ kind \in [Conns -> {"Remote", "Other"}] /\ key \in [Conns -> Keys]
    /\ pc = [c \in Conns |-> "login"]
    /\ AUTHED = {} /\ sessions = {} /\ handle = [c \in Conns |-> "none"]
    /\ any = [c \in Conns |-> FALSE] /\ anyRemote = [c \in Conns |-> FALSE]
    /\ chan = <<>> /\ wakelock = FALSE /\ wallpaper = FALSE
    /\ record = "none" /\ display = "original"
    /\ unrestored = FALSE /\ reopened = FALSE /\ overlap = FALSE

Go(c, from, to) == pc[c] = from /\ pc' = [pc EXCEPT ![c] = to]
Others(c, phases) == \E d \in Conns \ {c} : pc[d] \in phases

----------------------------------------------------------------------------
(* Login and AuthedConnID::new.                                            *)

\* validate_password with the temporary password, or the second factor: the
\* session is inserted, or updated with its age as it was.
ValidatePassword(c) ==
    /\ Go(c, "login", "valid")
    /\ sessions' = sessions \cup {key[c]}
    /\ UNCHANGED <<ident, AUTHED, handle, lock, desk, local, hist>>

\* The connections whose session is forgotten keep a handle without effect.
Unlink(K, how) ==
    [d \in Conns |-> IF handle[d] = "live" /\ key[d] \in K THEN how ELSE handle[d]]

\* is_recent_session of any login forgets the sessions without news for
\* SESSION_TIMEOUT, whoever is authorised.  Time is abstracted: whatever the
\* connections with a handle have received, any session may be that old.
ExpireSessions(c) ==
    /\ pc[c] \in {"login", "valid"}
    /\ \E silent \in SUBSET sessions :
         /\ sessions' = sessions \ silent
         /\ handle' = Unlink(silent, "aged")
    /\ UNCHANGED <<ident, pc, AUTHED, lock, desk, local, hist>>

\* send_logon_response: from validate_password, or without a session when the
\* connection manager accepts or a permanent password is used.
Authorize(c) ==
    /\ pc[c] \in {"login", "valid"}
    /\ pc' = [pc EXCEPT ![c] = "open1"]
    /\ AUTHED' = AUTHED \cup {c}
    /\ reopened' = (reopened \/ (kind[c] = "Remote" /\ Others(c, Restoring)))
    /\ overlap' = (overlap \/ Others(c, Opening \cup Closing))
    /\ UNCHANGED <<ident, sess, lock, desk, local, unrestored>>

\* check_wake_lock takes AUTHED_CONNS twice and then the sender.
ReadCount(c, from, to) ==
    /\ Go(c, from, to)
    /\ any' = [any EXCEPT ![c] = AUTHED # {}]
    /\ UNCHANGED <<ident, state, anyRemote, hist>>

ReadRemoteCount(c, from, to) ==
    /\ Go(c, from, to)
    /\ anyRemote' = [anyRemote EXCEPT ![c] = Remote(AUTHED) # {}]
    /\ UNCHANGED <<ident, state, any, hist>>

SendWakeLock(c, from, to) ==
    /\ Go(c, from, to)
    /\ chan' = Append(chan, <<any[c], anyRemote[c]>>)
    /\ any' = [any EXCEPT ![c] = FALSE] /\ anyRemote' = [anyRemote EXCEPT ![c] = FALSE]
    /\ UNCHANGED <<ident, AUTHED, sess, wakelock, desk, hist>>

check_wake_lock(c) ==
    \/ ReadCount(c, "open1", "open2") \/ ReadRemoteCount(c, "open2", "open3")
    \/ SendWakeLock(c, "open3", "lookup")
    \/ ReadCount(c, "wake1", "wake2") \/ ReadRemoteCount(c, "wake2", "wake3")
    \/ SendWakeLock(c, "wake3", "closed")

\* session_last_recv_time
LookupSession(c) ==
    /\ Go(c, "lookup", "paint")
    /\ handle' = [handle EXCEPT ![c] = IF key[c] \in sessions THEN "live" ELSE "none"]
    /\ UNCHANGED <<ident, AUTHED, sessions, lock, desk, local, hist>>

\* on_remote_authorized removes the wallpaper if the option says so.
OnRemoteAuthorized(c) ==
    /\ Go(c, "paint", "authed")
    /\ wallpaper' \in IF kind[c] = "Remote" THEN {wallpaper, TRUE} ELSE {wallpaper}
    /\ UNCHANGED <<ident, AUTHED, sess, lock, record, display, local, hist>>

----------------------------------------------------------------------------
(* change_resolution: the record first, then the platform call.            *)

RecordResolution(c) ==
    /\ kind[c] = "Remote" /\ Go(c, "authed", "resize")
    /\ record' = IF record = "none" THEN display ELSE record
    /\ UNCHANGED <<ident, AUTHED, sess, lock, wallpaper, display, local, hist>>

\* The platform call, whose failure is only logged.
ApplyResolution(c) ==
    /\ Go(c, "resize", "authed")
    /\ display' \in {display, "original", "changed"}
    /\ UNCHANGED <<ident, AUTHED, sess, lock, wallpaper, record, local, hist>>

----------------------------------------------------------------------------
(* Close.                                                                  *)

\* A mutation of KeepsSession: nobody else is asked.
KeepsSessionNever(c) == FALSE

\* check_remove_session: another remote connection with the same key keeps
\* the session, unless the connection that closes is a remote one itself.
KeepsSession(c) ==
    /\ c \notin Remote(AUTHED)
    /\ \E d \in Remote(AUTHED) \ {c} : key[d] = key[c]

Ended(c) == pc' = [pc EXCEPT ![c] = IF c \in AUTHED THEN "closing" ELSE "closed"]

\* The close says no retry: a CloseReason message, or without one the
\* connection manager or the end of the service.
CloseNoRetry(c) ==
    /\ pc[c] \in {"login", "valid", "authed"}
    /\ Ended(c)
    /\ IF KeepsSession(c)
         THEN UNCHANGED sess
         ELSE /\ sessions' = sessions \ {key[c]}
              /\ handle' = Unlink({key[c]}, IF c \in Remote(AUTHED) THEN "given" ELSE "taken")
    /\ UNCHANGED <<ident, AUTHED, lock, desk, local, hist>>

\* Timeout or a broken stream: the session stays for the retry.
CloseWithRetry(c) ==
    /\ pc[c] \in {"login", "valid", "authed"}
    /\ Ended(c)
    /\ UNCHANGED <<ident, state, local, hist>>

\* Drop for AuthedConnID, after on_connection_close.
Retain(c) ==
    /\ Go(c, "closing", "retained")
    /\ AUTHED' = AUTHED \ {c}
    /\ overlap' = (overlap \/ Others(c, Opening \cup Closing))
    /\ handle' = [handle EXCEPT ![c] = "none"]
    /\ UNCHANGED <<ident, sessions, lock, desk, local, unrestored, reopened>>

\* A mutation of CountRemote: the closing connection still counts itself.
CountRemoteBeforeRetain(c) ==
    /\ pc[c] = "retained"
    /\ pc' = [pc EXCEPT ![c] = IF Remote(AUTHED \cup {c}) = {} THEN "restore1" ELSE "wake1"]
    /\ UNCHANGED <<ident, state, local, hist>>

CountRemote(c) ==
    /\ pc[c] = "retained"
    /\ pc' = [pc EXCEPT ![c] = IF Remote(AUTHED) = {} THEN "restore1" ELSE "wake1"]
    /\ UNCHANGED <<ident, state, local, hist>>

RestoreWallpaper(c) ==
    /\ Go(c, "restore1", "restore2")
    /\ wallpaper' = FALSE
    /\ UNCHANGED <<ident, AUTHED, sess, lock, record, display, local, hist>>

\* A mutation of RestoreResolutions: a display without a record is restored too.
RestoreWithoutRecord(c) ==
    /\ Go(c, "restore2", "restore3")
    /\ display' = record
    /\ UNCHANGED <<ident, AUTHED, sess, lock, wallpaper, record, local, hist>>

\* restore_resolutions reads the record under one lock and clears it under
\* another, whether the platform call has restored the display or failed.
RestoreResolutions(c) ==
    /\ Go(c, "restore2", "restore3")
    /\ display' \in IF record = "none" THEN {display} ELSE {display, record}
    /\ unrestored' = (unrestored \/ (record # "none" /\ display' # record))
    /\ UNCHANGED <<ident, AUTHED, sess, lock, wallpaper, record, local, reopened, overlap>>

ClearResolutions(c) ==
    /\ Go(c, "restore3", "wake1")
    /\ record' = "none"
    /\ UNCHANGED <<ident, AUTHED, sess, lock, wallpaper, display, local, hist>>

\* A mutation of WakeLockThread: the wake lock follows the remote count only.
WakeLockThreadRemoteOnly ==
    /\ chan # <<>>
    /\ chan' = Tail(chan)
    /\ wakelock' = Head(chan)[2]
    /\ UNCHANGED <<ident, pc, AUTHED, sess, desk, local, hist>>

\* start_wakelock_thread
WakeLockThread ==
    /\ chan # <<>>
    /\ chan' = Tail(chan)
    /\ wakelock' = Head(chan)[1]
    /\ UNCHANGED <<ident, pc, AUTHED, sess, desk, local, hist>>

Task(c) ==
    \/ ValidatePassword(c) \/ ExpireSessions(c) \/ Authorize(c) \/ check_wake_lock(c)
    \/ LookupSession(c) \/ OnRemoteAuthorized(c)
    \/ RecordResolution(c) \/ ApplyResolution(c)
    \/ CloseNoRetry(c) \/ CloseWithRetry(c)
    \/ Retain(c) \/ CountRemote(c)
    \/ RestoreWallpaper(c) \/ RestoreResolutions(c) \/ ClearResolutions(c)

Next ==
    \/ \E c \in Conns : Task(c)
    \/ WakeLockThread

Spec == Init /\ [][Next]_vars

----------------------------------------------------------------------------
(* Once no remote connection is left and nobody is restoring, the         *)
(* wallpaper's remover and the record of resolutions are gone and the      *)
(* display is what it was before the first change, in whatever order the   *)
(* connections closed: the last one to leave AUTHED_CONNS sees a count of  *)
(* zero.  Two things void the promise: a remote connection that is         *)
(* registered while another one restores (between its count and its        *)
(* clear), and, for the display alone, a restoration that failed, whose    *)
(* record restore_resolutions clears all the same.                         *)
RestoredWhenIdle ==
    (/\ ~reopened /\ Remote(AUTHED) = {}
     /\ \A c \in Conns : pc[c] \notin Restoring \cup {"retained"})
        => ~wallpaper /\ record = "none" /\ (display = "original" \/ unrestored)

(* When everything is quiet the wake lock is held exactly if a connection  *)
(* is authorised, provided no two connections registered or left while     *)
(* another one was between AUTHED_CONNS and the wake lock's channel.       *)
WakeLockExact ==
    (/\ ~overlap /\ chan = <<>>
     /\ \A c \in Conns : pc[c] \notin Opening \cup Closing)
        => wakelock = (AUTHED # {})

(* The session an authorised remote connection found at its login stays    *)
(* for its retry, unless a remote connection of that peer gives it up or   *)
(* nothing was heard on it for SESSION_TIMEOUT when somebody logged in: no *)
(* close of another connection of the peer, a file transfer or one that    *)
(* never got past its login, takes it away.                                *)
SessionKept ==
    \A c \in Remote(AUTHED) :
        \/ handle[c] \in {"none", "aged", "given"}
        \/ handle[c] = "live" /\ key[c] \in sessions
=============================================================================
