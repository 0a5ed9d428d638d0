------------------------------ MODULE Terminal ------------------------------
(***************************************************************************)
(* A terminal service of the controlled side that outlives connections:    *)
(* src/server/terminal_service.rs, and its use in                          *)
(* src/server/connection.rs.  The connections of one client attach to the  *)
(* service the client names (its service_id); each has a thread of its own *)
(* that polls all terminals of the service, and one cleanup thread reaps   *)
(* shells and removes services nobody uses.                                *)
(*                                                                         *)
(* TERMINAL_SERVICES, the service and each terminal have a mutex; locks    *)
(* are taken in this order, so an action is a section under one lock with  *)
(* the locks taken inside it.  Between two sections a service, or a        *)
(* terminal of the same number, may have been replaced: both carry an      *)
(* identity here, as the code's Arc does.  Left out: input, output and     *)
(* is_opened, which only gates output.                                     *)
(***************************************************************************)
EXTENDS Naturals, FiniteSets

CONSTANTS
    Conns,         \* connections of the client
    Terms,         \* terminal numbers
    MaxGens,       \* how often the service is created
    MaxShells,     \* how many shells are started
    MaxFlips       \* how often the client changes its terminal_persistent

ASSUME TerminalAssumption == {MaxGens, MaxShells, MaxFlips} \subseteq Nat

VARIABLES
    registered,    \* the service in TERMINAL_SERVICES, 0 for none
    gens,          \* services created
    persistent,    \* is_persistent of each service
    sessions,      \* the terminals of each service: number to shell, 0 for none
    shells,        \* shells started
    running,       \* shells whose pty is open and whose reader thread reads
    owned,         \* shells whose child handle is in the session
    reaper,        \* shells whose child handle was put into TERMINAL_TASKS, where
                   \* it stays until check_zombie_terminals finds the process ended,
                   \* or was dropped when handle_close could not kill the process
    sent,          \* shells with closed_message_sent
    idle,          \* last_activity is older than the timeouts
    keeper,        \* the cleanup thread has put the service into to_remove
    conn,          \* connections: new, on, closing
    wish,          \* terminal_persistent of a connection
    flips,         \* changes of it
    call,          \* the action a connection handles: kind, terminal, service
    pc,            \* the connection's thread
    tp, tg, tclosed,  \* its proxy's is_persistent, service, closed_terminals
    late           \* history: services that became persistent, or got a terminal,
                   \* when their removal was already decided

registry == <<registered, gens, persistent, sessions>>
procs    == <<shells, running, owned, reaper, sent>>
thread   == <<pc, tp, tg, tclosed>>
client   == <<conn, wish, flips, call>>
vars     == <<registry, procs, idle, keeper, client, thread, late>>

Gens   == 1 .. MaxGens
Shells == 1 .. MaxShells
NoCall == [kind |-> "none", t |-> 0, g |-> 0]

Init ==
    /\ registered = 0 /\ gens = 0
    /\ persistent = [g \in Gens |-> FALSE]
    /\ sessions = [g \in Gens |-> [t \in Terms |-> 0]]
    /\ shells = 0 /\ running = {} /\ owned = {} /\ reaper = {} /\ sent = {}
    /\ idle = FALSE /\ keeper = FALSE
    /\ conn = [c \in Conns |-> "new"] /\ wish \in [Conns -> BOOLEAN] /\ flips = 0
    /\ call = [c \in Conns |-> NoCall]
    /\ pc = [c \in Conns |-> "off"] /\ tp = [c \in Conns |-> FALSE]
    /\ tg = [c \in Conns |-> 0] /\ tclosed = [c \in Conns |-> {}]
    /\ late = {}

Go(c, from, to) == pc[c] = from /\ pc' = [pc EXCEPT ![c] = to]
ShellsOf(g) == {sessions[g][t] : t \in Terms} \ {0}

\* The removal of the service is decided and not yet done.
Decided == keeper \/ \E c \in Conns : pc[c] = "remove"

\* Who holds a reference to service g besides TERMINAL_SERVICES.
Holders(g) == {<<"call", c>> : c \in {d \in Conns : call[d].g = g}} \cup
              {<<"thread", c>> : c \in {d \in Conns : pc[d] = "clean" /\ tg[d] = g}}

\* The shells that go with service g when holder h lets go of it.
Dropped(g, h) == IF registered = g \/ Holders(g) \ {h} # {} THEN {} ELSE ShellsOf(g)

\* Mutations: a child handed over is kept as well; the pty stays open.
StopKeepsChild(P) ==
    /\ running' = running \ P
    /\ reaper' = reaper \cup (P \cap owned) /\ UNCHANGED owned
StopLeavesRunning(P) ==
    /\ running' = running
    /\ reaper' = reaper \cup (P \cap owned) /\ owned' = owned \ P

\* TerminalSession::stop of the shells P, also when their session is dropped: the
\* pty is closed, the threads are joined, and a child that is still in the session
\* is killed and handed to the reaper.
Stop(P) ==
    /\ running' = running \ P
    /\ reaper' = reaper \cup (P \cap owned)
    /\ owned' = owned \ P

\* The terminals of service g once the shells P are gone with it.
Without(g, P) == [sessions EXCEPT ![g] = IF P = {} THEN @ ELSE [t \in Terms |-> 0]]

\* remove_service: whatever service is registered now goes, and its terminals are
\* stopped; somebody who looked it up before still sees them.
RemoveService ==
    LET g == registered IN
    IF g = 0 THEN UNCHANGED <<registry, running, owned, reaper, idle, late>>
    ELSE /\ registered' = 0 /\ idle' = FALSE /\ late' = late \ {g}
         /\ persistent' = [persistent EXCEPT ![g] = FALSE]
         /\ sessions' = IF Holders(g) = {} THEN Without(g, ShellsOf(g)) ELSE sessions
         /\ Stop(ShellsOf(g))
         /\ UNCHANGED gens

----------------------------------------------------------------------------
(* Connections.                                                            *)

\* init_terminal_service: get_or_create_service, and the thread is started.  When
\* MAX_SERVICES others exist there is a thread and no service.
Attach(c) ==
    /\ conn[c] = "new" /\ conn' = [conn EXCEPT ![c] = "on"]
    /\ \/ /\ registered # 0
          /\ persistent' = [persistent EXCEPT ![registered] = wish[c]]
          /\ late' = IF Decided THEN late \cup {registered} ELSE late
          /\ UNCHANGED <<registered, gens, idle>>
       \/ /\ registered = 0 /\ gens < MaxGens
          /\ gens' = gens + 1 /\ registered' = gens + 1
          /\ persistent' = [persistent EXCEPT ![gens + 1] = wish[c]]
          /\ late' = IF Decided THEN late \cup {gens + 1} ELSE late
          /\ idle' = FALSE
       \/ registered = 0 /\ UNCHANGED <<registered, gens, persistent, idle, late>>
    /\ Go(c, "off", "start")
    /\ UNCHANGED <<sessions, procs, keeper, wish, flips, call, tp, tg, tclosed>>

\* update_terminal_persistence.
SetPersistent(c) ==
    /\ conn[c] = "on" /\ call[c] = NoCall
    /\ flips < MaxFlips /\ flips' = flips + 1
    /\ wish' = [wish EXCEPT ![c] = ~@]
    /\ persistent' = IF registered = 0 THEN persistent
                     ELSE [persistent EXCEPT ![registered] = ~wish[c]]
    /\ late' = IF registered # 0 /\ Decided THEN late \cup {registered} ELSE late
    /\ UNCHANGED <<registered, gens, sessions, procs, idle, keeper, conn, call, thread>>

\* handle_action up to the lock of the service: get_service and update_activity.
\* Without a service the client gets an error.
Handle(c, kind, t) ==
    /\ conn[c] = "on" /\ call[c] = NoCall /\ registered # 0
    /\ call' = [call EXCEPT ![c] = [kind |-> kind, t |-> t, g |-> registered]]
    /\ idle' = FALSE
    /\ UNCHANGED <<registry, procs, keeper, conn, wish, flips, thread, late>>

\* The call of c ends; the service it looked up is dropped if nobody else has it.
Return(c) == call' = [call EXCEPT ![c] = NoCall]

\* handle_open of an existing terminal reconnects to it, whether or not its shell
\* runs; opening the pty or starting the shell may also fail.
OpenNothing(c) ==
    LET g == call[c].g  P == Dropped(g, <<"call", c>>) IN
    /\ call[c].kind = "open"
    /\ Stop(P) /\ sessions' = Without(g, P)
    /\ Return(c)
    /\ UNCHANGED <<registered, gens, persistent, shells, sent, idle, keeper, conn, wish, flips, thread, late>>

\* handle_open of a new terminal.  A service that was removed since it was looked
\* up is dropped right after, and the new terminal with it.
Open(c) ==
    LET g == call[c].g
        p == shells + 1
        P == ShellsOf(g) IN
    /\ call[c].kind = "open" /\ sessions[g][call[c].t] = 0 /\ shells < MaxShells
    /\ shells' = p
    /\ IF registered = g \/ Holders(g) # {<<"call", c>>}
       THEN /\ sessions' = [sessions EXCEPT ![g][call[c].t] = p]
            /\ running' = running \cup {p} /\ owned' = owned \cup {p}
            /\ UNCHANGED reaper
       ELSE /\ sessions' = Without(g, P)
            /\ running' = running \ P /\ owned' = owned \ P
            /\ reaper' = reaper \cup (P \cap owned) \cup {p}
    /\ late' = IF registered = g /\ Decided THEN late \cup {g} ELSE late
    /\ Return(c)
    /\ UNCHANGED <<registered, gens, persistent, sent, idle, keeper, conn, wish, flips, thread>>

\* handle_close: the child is killed and handed to the reaper, or, when the kill
\* fails, dropped by the early return; either way the session goes with its pty.
Close(c) ==
    LET g == call[c].g
        P == Dropped(g, <<"call", c>>) IN
    /\ call[c].kind = "close"
    /\ Stop(({sessions[g][call[c].t]} \ {0}) \cup P)
    /\ sessions' = [Without(g, P) EXCEPT ![g][call[c].t] = 0]
    /\ Return(c)
    /\ UNCHANGED <<registered, gens, persistent, shells, sent, idle, keeper, conn, wish, flips, thread, late>>

\* The connection ends; Drop for Connection makes the service inactive and joins
\* its thread.
Disconnect(c) ==
    /\ conn[c] = "on" /\ call[c] = NoCall
    /\ conn' = [conn EXCEPT ![c] = "closing"] /\ wish' = [wish EXCEPT ![c] = FALSE]
    /\ UNCHANGED <<registry, procs, idle, keeper, flips, call, thread, late>>

----------------------------------------------------------------------------
(* The thread of a connection: run, inside GenericService::run.            *)

\* The thread calls run only while the service is active; a connection that ends
\* before leaves its service to the cleanup thread.
Enter(c) ==
    /\ Go(c, "start", IF conn[c] = "on" THEN "top" ELSE "done")
    /\ UNCHANGED <<registry, procs, idle, keeper, client, tp, tg, tclosed, late>>

\* TerminalServiceProxy::new: the persistence is read once per round.
Proxy(c) ==
    /\ conn[c] = "on" /\ Go(c, "top", "poll")
    /\ tp' = [tp EXCEPT ![c] = registered # 0 /\ persistent[registered]]
    /\ UNCHANGED <<registry, procs, idle, keeper, client, tg, tclosed, late>>

\* read_outputs: the terminals whose reader thread is finished, each noticed once.
Poll(c) ==
    LET closed == IF registered = 0 THEN {}
                  ELSE {t \in Terms : sessions[registered][t] \notin running \cup sent \cup {0}} IN
    /\ Go(c, "poll", IF closed = {} THEN "top" ELSE "clean")
    /\ tg' = [tg EXCEPT ![c] = IF closed = {} THEN 0 ELSE registered]
    /\ tclosed' = [tclosed EXCEPT ![c] = closed]
    /\ sent' = sent \cup {sessions[registered][t] : t \in closed}
    /\ tp' = [tp EXCEPT ![c] = @ /\ closed # {}]
    /\ UNCHANGED <<registry, shells, running, owned, reaper, idle, keeper, client, late>>

\* The end of read_outputs: by number, so a terminal opened since is hit as well.
\* A terminal of a service that is not persistent is dropped, otherwise its child
\* goes to the reaper and the terminal stays.
Clean(c) ==
    LET g    == tg[c]
        P    == {sessions[g][t] : t \in tclosed[c]} \ {0}
        D    == Dropped(g, <<"thread", c>>)
        gone == (IF tp[c] THEN {} ELSE P) \cup D IN
    /\ Go(c, "clean", "top")
    /\ running' = running \ gone
    /\ reaper' = reaper \cup ((P \cup gone) \cap owned)
    /\ owned' = owned \ (P \cup gone)
    /\ sessions' = IF tp[c] THEN Without(g, D)
                   ELSE [Without(g, D) EXCEPT ![g] = [t \in Terms |-> IF t \in tclosed[c] THEN 0 ELSE @[t]]]
    /\ tp' = [tp EXCEPT ![c] = FALSE]
    /\ tg' = [tg EXCEPT ![c] = 0] /\ tclosed' = [tclosed EXCEPT ![c] = {}]
    /\ UNCHANGED <<registered, gens, persistent, shells, sent, idle, keeper, client, late>>

\* Mutation: the persistence is not looked at.
LeaveAlways(c) ==
    /\ conn[c] # "on"
    /\ Go(c, "top", IF registered # 0 THEN "remove" ELSE "done")
    /\ UNCHANGED <<registry, procs, idle, keeper, client, tp, tg, tclosed, late>>

\* The end of run: is the service that is registered now persistent ...
Leave(c) ==
    /\ conn[c] # "on"
    /\ Go(c, "top", IF registered # 0 /\ ~persistent[registered] THEN "remove" ELSE "done")
    /\ UNCHANGED <<registry, procs, idle, keeper, client, tp, tg, tclosed, late>>

\* ... and, with no lock in between, its removal.
LeaveAndRemove(c) ==
    /\ Go(c, "remove", "done") /\ RemoveService
    /\ UNCHANGED <<shells, sent, keeper, client, tp, tg, tclosed>>

----------------------------------------------------------------------------
(* The cleanup thread, time, and the shells.                               *)

\* Mutation: a service that is not persistent is left to its connections.
CollectPersistentOnly ==
    /\ ~keeper /\ registered # 0 /\ idle /\ persistent[registered] /\ ShellsOf(registered) = {}
    /\ keeper' = TRUE
    /\ UNCHANGED <<registry, procs, idle, client, thread, late>>

\* cleanup_inactive_services, the choice: idle, and not persistent or empty.
Collect ==
    /\ ~keeper /\ registered # 0 /\ idle
    /\ ~persistent[registered] \/ ShellsOf(registered) = {}
    /\ keeper' = TRUE
    /\ UNCHANGED <<registry, procs, idle, client, thread, late>>

\* cleanup_inactive_services, the removal, "outside of iteration to avoid deadlock".
Sweep ==
    /\ keeper /\ keeper' = FALSE /\ RemoveService
    /\ UNCHANGED <<shells, sent, client, thread>>

\* SERVICE_IDLE_TIMEOUT (an hour, doubled for a persistent service) passes without
\* an action of the client, but not while somebody is between two sections.
Idle ==
    /\ registered # 0 /\ ~idle /\ idle' = TRUE
    /\ ~Decided
    /\ \A c \in Conns : call[c] = NoCall /\ pc[c] \notin {"start", "clean"}
                       /\ (conn[c] = "closing" => pc[c] = "done")
    /\ UNCHANGED <<registry, procs, keeper, client, thread, late>>

\* A shell exits and its reader thread sees the end of the output.  Where the pty
\* reports no end while pty_pair is open, the shell counts as running until then.
Exit(p) ==
    /\ p \in running /\ running' = running \ {p}
    /\ UNCHANGED <<registry, shells, owned, reaper, sent, idle, keeper, client, thread, late>>

----------------------------------------------------------------------------
Thread(c) == Enter(c) \/ Proxy(c) \/ Poll(c) \/ Clean(c) \/ Leave(c) \/ LeaveAndRemove(c)
Handler(c) == OpenNothing(c) \/ Open(c) \/ Close(c)

Next ==
    \/ \E c \in Conns :
          \/ Attach(c) \/ SetPersistent(c) \/ Disconnect(c)
          \/ Handler(c) \/ Thread(c)
          \/ \E kind \in {"open", "close"}, t \in Terms : Handle(c, kind, t)
    \/ Collect \/ Sweep \/ Idle
    \/ \E p \in Shells : Exit(p)

\* The threads run, a handler returns, and time passes.
Fairness ==
    /\ \A c \in Conns : WF_vars(Thread(c)) /\ WF_vars(Handler(c))
    /\ WF_vars(Collect) /\ WF_vars(Sweep) /\ WF_vars(Idle)

Spec == Init /\ [][Next]_vars /\ Fairness

----------------------------------------------------------------------------
TypeOK ==
    /\ registered \in 0 .. gens /\ gens \in 0 .. MaxGens
    /\ persistent \in [Gens -> BOOLEAN]
    /\ sessions \in [Gens -> [Terms -> 0 .. shells]]
    /\ shells \in 0 .. MaxShells
    /\ running \subseteq 1 .. shells /\ owned \subseteq 1 .. shells
    /\ reaper \subseteq (1 .. shells) \ owned /\ sent \subseteq 1 .. shells
    /\ idle \in BOOLEAN /\ keeper \in BOOLEAN /\ flips \in 0 .. MaxFlips
    /\ conn \in [Conns -> {"new", "on", "closing"}] /\ wish \in [Conns -> BOOLEAN]
    /\ call \in [Conns -> {NoCall} \cup [kind : {"open", "close"}, t : Terms, g : Gens]]
    /\ pc \in [Conns -> {"off", "start", "top", "poll", "clean", "remove", "done"}]
    /\ tp \in [Conns -> BOOLEAN] /\ tg \in [Conns -> 0 .. MaxGens]
    /\ tclosed \in [Conns -> SUBSET Terms] /\ late \subseteq Gens

(***************************************************************************)
(* No orphan shell: a shell that runs is a terminal of the registered      *)
(* service, or of one that a handler or a thread still holds and that ends *)
(* with it, and its child handle is kept, so that the process is reaped.   *)
(* handle_open may put a shell into a service that was removed since it    *)
(* was looked up, and read_outputs takes the child of a terminal that was  *)
(* opened since it saw the old one end.                                    *)
(***************************************************************************)
NoOrphanShell ==
    \A p \in running :
        /\ p \in owned \cup reaper
        /\ \E g \in Gens : p \in ShellsOf(g) /\ (registered = g \/ Holders(g) # {})

(***************************************************************************)
(* "Persistent terminal service that can survive connection drops": the    *)
(* service is removed with its terminals only if it became persistent, or  *)
(* got a terminal, after the removal was decided (run and                  *)
(* cleanup_inactive_services look at the service under one lock and remove *)
(* it under another).  A shell of it that runs goes only by its own exit,  *)
(* by such a removal, because the client closes its terminal, or by one    *)
(* more stale decision: a thread that saw an older terminal of that number *)
(* end, with the is_persistent it read at the top of its round.            *)
(***************************************************************************)
PersistentSurvives ==
    [][(registered # 0 /\ persistent[registered]) =>
        /\ (registered' = 0 /\ ShellsOf(registered) # {}) => registered \in late
        /\ \A t \in Terms : sessions[registered][t] \in running \ running' =>
              \/ Exit(sessions[registered][t])
              \/ registered \in late /\ registered' = 0
              \/ \E c \in Conns : Close(c) /\ call[c].g = registered /\ call[c].t = t
              \/ \E c \in Conns : /\ Clean(c) /\ tg[c] = registered
                                  /\ t \in tclosed[c] /\ ~tp[c]]_vars

(***************************************************************************)
(* A service that is not persistent does not stay behind: once no          *)
(* connection is attached it is removed, by the thread of a connection or, *)
(* when that thread ended before it entered run, by the cleanup thread.    *)
(***************************************************************************)
TemporaryGoes ==
    (registered # 0 /\ ~persistent[registered] /\ \A c \in Conns : conn[c] # "on")
        ~> (registered = 0 \/ \E c \in Conns : conn[c] = "on")
=============================================================================
