------------------------------ MODULE Mediator ------------------------------
(***************************************************************************)
(* The life of the rendezvous mediator (src/src/rendezvous_mediator.rs):   *)
(* `start_all` runs rounds for ever.  A round reads the "stop-service"     *)
(* option and the list of rendezvous servers, clears the two flags         *)
(* SHOULD_EXIT and MANUAL_RESTARTED, spawns one task per server and waits  *)
(* for all of them.  A task that ends, and everyone who changes an option  *)
(* the mediator depends on, raises SHOULD_EXIT, and every task looks at    *)
(* the flag at each tick of its timer.                                     *)
(*                                                                         *)
(* The option writers are the IPC connections of src/src/ipc.rs, each of   *)
(* which runs `handle` in a task of its own, and the ConfigureUpdate       *)
(* branch of `handle_resp`, which runs inside a server's task.  What the   *)
(* tasks do with their servers is in module Registration.                  *)
(***************************************************************************)
EXTENDS Naturals, FiniteSets

CONSTANTS
    Hosts,      \* rendezvous servers a list may name
    Lists,      \* the lists of servers that may be configured
    Ipc,        \* IPC connections that may set options
    NoConf      \* the local variables of a writer that is not at work

ASSUME ActorAssumption == Hosts \cap Ipc = {}
\* get_rendezvous_servers falls back on the built-in list: it is never empty.
ASSUME ListAssumption == Lists \subseteq (SUBSET Hosts) \ {{}}
ASSUME NoConfAssumption == NoConf \notin [stop : BOOLEAN, servers : Lists]

VARIABLES
    phase,          \* where start_all is in its loop
    used,           \* the servers this round read
    task,           \* per server: the spawned task
    SHOULD_EXIT,
    MANUAL_RESTARTED,
    conf,           \* the options: is the service stopped, which servers
    pc,             \* per option writer: its place in CheckIfRestart
    snap,           \* per option writer: the options it found at first
    lost            \* history: a restart this round needed was not recorded

vars == <<phase, used, task, SHOULD_EXIT, MANUAL_RESTARTED, conf, pc, snap, lost>>
Flags == <<SHOULD_EXIT, MANUAL_RESTARTED>>

Actors == Hosts \cup Ipc
Configs == [stop : BOOLEAN, servers : Lists]
Phases == {"top", "decide", "servers", "clear", "clear_manual", "spawn", "join",
           "ended", "sleep", "nap"}

\* The round has read options that are no longer the configured ones.
Running == phase \in {"servers", "clear", "clear_manual", "spawn", "join"}
Stale ==
    /\ Running
    /\ conf.stop \/ ((phase # "servers") /\ (conf.servers # used))

\* A writer is about to raise SHOULD_EXIT, or to see whether it must.
Pending == \E a \in Actors : pc[a] \in {"check", "exit"}
\* No one will raise it in this round for what has been written so far.
NobodyRestarts == \A a \in Actors : pc[a] # "exit"

Init ==
    /\ phase = "top"
    /\ used = {}
    /\ task = [h \in Hosts |-> "none"]
    /\ SHOULD_EXIT = FALSE
    /\ MANUAL_RESTARTED = FALSE
    /\ conf \in Configs
    /\ pc = [a \in Actors |-> "idle"]
    /\ snap = [a \in Actors |-> NoConf]
    /\ lost = FALSE

-----------------------------------------------------------------------------
(* start_all *)

\* The top of the loop: RENDEZVOUS_REGISTERED and SOLVING_PK_MISMATCH are
\* reset (module Registration).
Top ==
    /\ phase = "top"
    /\ phase' = "decide"
    /\ UNCHANGED <<used, task, Flags, conf, pc, snap, lost>>

DecideIgnoringStop ==
    /\ phase = "decide"
    /\ phase' = "servers"
    /\ UNCHANGED <<used, task, Flags, conf, pc, snap, lost>>

\* The "stop-service" option is read.  When it is set every connection of the
\* server is closed and the round is over.
Decide ==
    /\ phase = "decide"
    /\ phase' = IF conf.stop THEN "ended" ELSE "servers"
    /\ UNCHANGED <<used, task, Flags, conf, pc, snap, lost>>

ReadServers ==
    /\ phase = "servers"
    /\ used' = conf.servers
    /\ phase' = "clear"
    /\ UNCHANGED <<task, Flags, conf, pc, snap, lost>>

\* SHOULD_EXIT.store(false): a restart requested since the options were read
\* is forgotten here.
ClearExit ==
    /\ phase = "clear"
    /\ lost' = (lost \/ (SHOULD_EXIT /\ Stale /\ NobodyRestarts))
    /\ SHOULD_EXIT' = FALSE
    /\ phase' = "clear_manual"
    /\ UNCHANGED <<used, task, MANUAL_RESTARTED, conf, pc, snap>>

ClearManual ==
    /\ phase = "clear_manual"
    /\ MANUAL_RESTARTED' = FALSE
    /\ phase' = "spawn"
    /\ UNCHANGED <<used, task, SHOULD_EXIT, conf, pc, snap, lost>>

SpawnAnyHost(h) ==
    /\ phase = "spawn"
    /\ task[h] = "none"
    /\ task' = [task EXCEPT ![h] = "run"]
    /\ phase' = IF \E k \in used \ {h} : task[k] = "none" THEN "spawn" ELSE "join"
    /\ UNCHANGED <<used, Flags, conf, pc, snap, lost>>

\* One turn of the for loop: the task runs at once, before the next is spawned.
Spawn(h) ==
    /\ phase = "spawn"
    /\ h \in used
    /\ task[h] = "none"
    /\ task' = [task EXCEPT ![h] = "run"]
    /\ phase' = IF \E k \in used \ {h} : task[k] = "none" THEN "spawn" ELSE "join"
    /\ UNCHANGED <<used, Flags, conf, pc, snap, lost>>

\* join_all returns when every task of the round has.
Joined ==
    /\ phase = "join"
    /\ \A h \in used : task[h] = "done"
    /\ task' = [h \in Hosts |-> "none"]
    /\ used' = {}
    /\ lost' = FALSE
    /\ phase' = "ended"
    /\ UNCHANGED <<Flags, conf, pc, snap>>

\* reset_online, then a pause: 33 ms after a manual restart, otherwise what is
\* left of CONNECT_TIMEOUT.  In a stopped round MANUAL_RESTARTED is not cleared.
Ended ==
    /\ phase = "ended"
    /\ phase' = IF MANUAL_RESTARTED THEN "nap" ELSE "sleep"
    /\ UNCHANGED <<used, task, Flags, conf, pc, snap, lost>>

Wake ==
    /\ phase \in {"sleep", "nap"}
    /\ phase' = "top"
    /\ UNCHANGED <<used, task, Flags, conf, pc, snap, lost>>

Loop ==
    \/ Top \/ Decide \/ ReadServers \/ ClearExit \/ ClearManual \/ Joined
    \/ Ended \/ Wake
    \/ \E h \in Hosts : Spawn(h)

-----------------------------------------------------------------------------
(* A server's task: the loops of start_udp and start_tcp *)

\* The timer ticks and SHOULD_EXIT is set: break.
SeeExit(h) ==
    /\ task[h] = "run"
    /\ pc[h] = "idle"
    /\ SHOULD_EXIT
    /\ task' = [task EXCEPT ![h] = "ending"]
    /\ UNCHANGED <<phase, used, Flags, conf, pc, snap, lost>>

\* An error ends the loop: the socket fails, a send fails, the TCP connection
\* is silent for longer than 3/2 of its keep-alive.
Fail(h) ==
    /\ task[h] = "run"
    /\ pc[h] = "idle"
    /\ task' = [task EXCEPT ![h] = "ending"]
    /\ UNCHANGED <<phase, used, Flags, conf, pc, snap, lost>>

LeaveSilently(h) ==
    /\ task[h] = "ending"
    /\ task' = [task EXCEPT ![h] = "done"]
    /\ UNCHANGED <<phase, used, Flags, conf, pc, snap, lost>>

\* However the task ended, it raises SHOULD_EXIT for the others.
Leave(h) ==
    /\ task[h] = "ending"
    /\ SHOULD_EXIT' = TRUE
    /\ task' = [task EXCEPT ![h] = "done"]
    /\ UNCHANGED <<phase, used, MANUAL_RESTARTED, conf, pc, snap, lost>>

-----------------------------------------------------------------------------
(* Option writers *)

\* CheckIfRestart::new, and the first read of the ConfigureUpdate branch.
Begin(a) ==
    /\ pc[a] = "idle"
    /\ a \in Hosts => task[a] = "run"
    /\ snap' = [snap EXCEPT ![a] = conf]
    /\ pc' = [pc EXCEPT ![a] = "write"]
    /\ UNCHANGED <<phase, used, task, Flags, conf, lost>>

\* Config::set_options or Config2::set; a ConfigureUpdate only names servers.
Write(a) ==
    /\ pc[a] = "write"
    /\ conf' \in Configs
    /\ a \in Hosts => conf'.stop = conf.stop
    /\ pc' = [pc EXCEPT ![a] = "check"]
    /\ UNCHANGED <<phase, used, task, Flags, snap, lost>>

\* What the writer compares: IPC all the options, a ConfigureUpdate the servers.
Changed(a) ==
    IF a \in Ipc THEN conf # snap[a] ELSE conf.servers # snap[a].servers

CheckStopOnly(a) ==
    /\ pc[a] = "check"
    /\ pc' = [pc EXCEPT ![a] = IF conf.stop # snap[a].stop THEN "exit" ELSE "idle"]
    /\ snap' = [snap EXCEPT ![a] = NoConf]
    /\ lost' = (lost \/ (~Changed(a) /\ Stale /\ ~SHOULD_EXIT /\ NobodyRestarts))
    /\ UNCHANGED <<phase, used, task, Flags, conf>>

\* CheckIfRestart::drop, after the reply to the IPC client has been sent:
\* restart only when the options differ from those found at first.
Check(a) ==
    /\ pc[a] = "check"
    /\ pc' = [pc EXCEPT ![a] = IF Changed(a) THEN "exit" ELSE "idle"]
    /\ snap' = [snap EXCEPT ![a] = NoConf]
    /\ lost' = (lost \/ (~Changed(a) /\ Stale /\ ~SHOULD_EXIT /\ NobodyRestarts))
    /\ UNCHANGED <<phase, used, task, Flags, conf>>

\* A proxy setting restarts the mediator whatever it was before.
Socks(a) ==
    /\ a \in Ipc
    /\ pc[a] = "idle"
    /\ pc' = [pc EXCEPT ![a] = "exit"]
    /\ UNCHANGED <<phase, used, task, Flags, conf, snap, lost>>

\* RendezvousMediator::restart is two stores.
restart_exit(a) ==
    /\ pc[a] = "exit"
    /\ SHOULD_EXIT' = TRUE
    /\ pc' = [pc EXCEPT ![a] = "manual"]
    /\ UNCHANGED <<phase, used, task, MANUAL_RESTARTED, conf, snap, lost>>

restart_manual(a) ==
    /\ pc[a] = "manual"
    /\ MANUAL_RESTARTED' = TRUE
    /\ pc' = [pc EXCEPT ![a] = "idle"]
    /\ UNCHANGED <<phase, used, task, SHOULD_EXIT, conf, snap, lost>>

Finish(a) == Write(a) \/ Check(a) \/ restart_exit(a) \/ restart_manual(a)

Next ==
    \/ Loop
    \/ \E h \in Hosts : SeeExit(h) \/ Fail(h) \/ Leave(h)
    \/ \E a \in Actors : Begin(a) \/ Socks(a) \/ Finish(a)

(***************************************************************************)
(* The loop, the tasks and a writer that has begun are scheduled by tokio. *)
(* `select!` picks at random among the ready branches, so a task that      *)
(* finds the tick ready again and again takes it at last (strong fairness  *)
(* of SeeExit).  Failures and new option writes need never come.           *)
(***************************************************************************)
Fairness ==
    /\ WF_vars(Loop)
    /\ \A h \in Hosts : SF_vars(SeeExit(h)) /\ WF_vars(Leave(h))
    /\ \A a \in Actors : WF_vars(Finish(a))

Spec == Init /\ [][Next]_vars /\ Fairness

-----------------------------------------------------------------------------
(* Properties *)

\* The types; a server the round does not use has no task.
TypeOK ==
    /\ phase \in Phases
    /\ used \in SUBSET Hosts
    /\ task \in [Hosts -> {"none", "run", "ending", "done"}]
    /\ \A h \in Hosts : task[h] # "none" => h \in used
    /\ SHOULD_EXIT \in BOOLEAN /\ MANUAL_RESTARTED \in BOOLEAN /\ lost \in BOOLEAN
    /\ conf \in Configs
    /\ pc \in [Actors -> {"idle", "write", "check", "exit", "manual"}]
    /\ snap \in [Actors -> Configs \cup {NoConf}]

\* The options a running round was started with are the configured ones, or
\* the round has been told to end, or it is about to be, with two exceptions
\* only, which `lost` records: the flag was raised between the reading of the
\* options and SHOULD_EXIT.store(false), or a writer found the options it had
\* seen at first because another had changed them in the meantime.
AppliedUnlessLost ==
    (phase \in {"clear_manual", "spawn", "join"} /\ Stale) =>
        (SHOULD_EXIT \/ Pending \/ lost)

\* "SHOULD_EXIT here is to ensure once one exits, the others also exit"
\* (rendezvous_mediator.rs:140): when a task has ended, the round does.
OneExitsAllExit == \A h \in Hosts : (task[h] = "done") ~> (phase = "ended")

\* A service that stays stopped comes to have no rendezvous task, unless a
\* restart is lost in one of the two ways.
StopHonoured ==
    <>[](conf.stop) => (<>[](\A h \in Hosts : task[h] = "none") \/ []<>lost)

=============================================================================
