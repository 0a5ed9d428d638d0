--------------------------- MODULE MediatorProofs ---------------------------
(***************************************************************************)
(* Proofs about Mediator for any set of servers, server lists and option   *)
(* writers.                                                                *)
(***************************************************************************)
EXTENDS Mediator, TLAPS

\* Tasks exist only between the first spawn of a round and its join_all.
TasksInRound ==
    phase \notin {"spawn", "join"} => \A h \in Hosts : task[h] = "none"

\* AppliedUnlessLost from the moment "stop-service" has been read: what the
\* round has read so far is what is configured, or the round will be told.
RoundApplied == Stale => (SHOULD_EXIT \/ Pending \/ lost)

IInv == TypeOK /\ TasksInRound /\ RoundApplied

\* The invariant holds at first.
LEMMA InitInv == Init => IInv
  BY DEF Init, IInv, TypeOK, TasksInRound, RoundApplied, Stale, Running, Phases

(* A step of start_all reads options, clears the flags, spawns and joins:  *)
(* clearing SHOULD_EXIT forgets a restart only if lost records it.         *)
LEMMA LoopInv == ASSUME IInv, Loop PROVE IInv'
  <1> USE DEF IInv
  <1>1. CASE Top \/ Ended \/ Wake
    BY <1>1 DEF Top, Ended, Wake, TypeOK, Phases, TasksInRound, RoundApplied, Stale,
       Running, Flags
  <1>2. CASE Decide
    BY <1>2 DEF Decide, TypeOK, Phases, TasksInRound, RoundApplied, Stale, Running, Flags
  <1>3. CASE ReadServers
    <2>1. conf.servers \in SUBSET Hosts
      BY ListAssumption DEF TypeOK, Configs
    <2>2. TypeOK' /\ TasksInRound'
      BY <1>3, <2>1 DEF ReadServers, TypeOK, Phases, TasksInRound, Flags
    <2>3. RoundApplied'
      BY <1>3 DEF ReadServers, RoundApplied, Stale, Running, Pending, Flags
    <2> QED BY <2>2, <2>3
  <1>4. CASE ClearExit
    <2>1. TypeOK' /\ TasksInRound'
      BY <1>4 DEF ClearExit, TypeOK, Phases, TasksInRound
    <2>2. ASSUME Stale' PROVE Pending' \/ lost'
      <3>1. Stale /\ pc' = pc
        BY <1>4, <2>2 DEF ClearExit, Stale, Running
      <3>2. CASE SHOULD_EXIT /\ NobodyRestarts
        BY <1>4, <3>1, <3>2 DEF ClearExit
      <3>3. CASE ~NobodyRestarts
        BY <3>1, <3>3 DEF NobodyRestarts, Pending
      <3>4. CASE ~SHOULD_EXIT
        BY <1>4, <3>1, <3>4 DEF RoundApplied, Pending, ClearExit
      <3> QED BY <3>2, <3>3, <3>4
    <2> QED BY <2>1, <2>2 DEF RoundApplied
  <1>5. CASE ClearManual
    BY <1>5 DEF ClearManual, TypeOK, Phases, TasksInRound, RoundApplied, Stale, Running, Pending
  <1>6. ASSUME NEW h \in Hosts, Spawn(h) PROVE IInv'
    BY <1>6 DEF Spawn, TypeOK, Phases, TasksInRound, RoundApplied, Stale, Running, Pending, Flags
  <1>7. CASE Joined
    BY <1>7 DEF Joined, TypeOK, Phases, TasksInRound, RoundApplied, Stale, Running, Flags
  <1> QED BY <1>1, <1>2, <1>3, <1>4, <1>5, <1>6, <1>7 DEF Loop

(* A task that ends raises SHOULD_EXIT and reads nothing.                  *)
LEMMA TaskInv ==
  ASSUME IInv, NEW h \in Hosts, SeeExit(h) \/ Fail(h) \/ Leave(h)
  PROVE  IInv'
  <1> USE DEF IInv, TypeOK, TasksInRound, RoundApplied, Stale, Running, Pending, Flags
  <1>1. CASE SeeExit(h)
    BY <1>1 DEF SeeExit
  <1>2. CASE Fail(h)
    BY <1>2 DEF Fail
  <1>3. CASE Leave(h)
    BY <1>3 DEF Leave
  <1> QED BY <1>1, <1>2, <1>3

(* A writer is pending from its write until it has raised SHOULD_EXIT; it  *)
(* gives up only when it finds no change, and lost records the case in     *)
(* which another one has started the round with other options.             *)
LEMMA WriterInv ==
  ASSUME IInv, NEW a \in Actors, Begin(a) \/ Socks(a) \/ Finish(a)
  PROVE  IInv'
  <1> USE DEF IInv, Flags
  <1>1. CASE Begin(a)
    <2>1. TypeOK' /\ TasksInRound'
      BY <1>1 DEF Begin, TypeOK, TasksInRound
    <2>2. Pending => Pending'
      BY <1>1 DEF Begin, Pending, TypeOK
    <2> QED BY <1>1, <2>1, <2>2 DEF Begin, RoundApplied, Stale, Running
  <1>2. CASE Socks(a)
    <2>1. TypeOK' /\ TasksInRound'
      BY <1>2 DEF Socks, TypeOK, TasksInRound
    <2>2. Pending'
      BY <1>2 DEF Socks, Pending, TypeOK
    <2> QED BY <2>1, <2>2 DEF RoundApplied
  <1>3. CASE Write(a)
    <2>1. TypeOK' /\ TasksInRound'
      BY <1>3 DEF Write, TypeOK, TasksInRound
    <2>2. Pending'
      BY <1>3 DEF Write, Pending, TypeOK
    <2> QED BY <2>1, <2>2 DEF RoundApplied
  <1>4. CASE Check(a)
    <2>1. TypeOK' /\ TasksInRound'
      BY <1>4 DEF Check, TypeOK, TasksInRound
    <2>2. (Stale' => Stale) /\ SHOULD_EXIT' = SHOULD_EXIT
      BY <1>4 DEF Check, Stale, Running
    <2>3. CASE Changed(a)
      <3>1. Pending'
        BY <1>4, <2>3 DEF Check, Pending, TypeOK
      <3> QED BY <2>1, <3>1 DEF RoundApplied
    <2>4. CASE ~NobodyRestarts
      <3>1. PICK b \in Actors : pc[b] = "exit"
        BY <2>4 DEF NobodyRestarts
      <3>2. pc'[b] = "exit"
        BY <1>4, <3>1 DEF Check, TypeOK
      <3>3. Pending'
        BY <3>2 DEF Pending
      <3> QED BY <2>1, <3>3 DEF RoundApplied
    <2>5. CASE ~Changed(a) /\ NobodyRestarts
      <3>1. ASSUME Stale, ~SHOULD_EXIT PROVE lost'
        BY <1>4, <2>5, <3>1 DEF Check
      <3> QED BY <2>1, <2>2, <3>1 DEF RoundApplied
    <2> QED BY <2>3, <2>4, <2>5
  <1>5. CASE restart_exit(a)
    BY <1>5 DEF restart_exit, TypeOK, TasksInRound, RoundApplied
  <1>6. CASE restart_manual(a)
    <2>1. TypeOK' /\ TasksInRound'
      BY <1>6 DEF restart_manual, TypeOK, TasksInRound
    <2>2. Pending => Pending'
      BY <1>6 DEF restart_manual, Pending, TypeOK
    <2> QED BY <1>6, <2>1, <2>2 DEF restart_manual, RoundApplied, Stale, Running
  <1> QED BY <1>1, <1>2, <1>3, <1>4, <1>5, <1>6 DEF Finish

\* Every step keeps the invariant.
LEMMA NextInv == IInv /\ [Next]_vars => IInv'
  <1> SUFFICES ASSUME IInv, [Next]_vars PROVE IInv'
    OBVIOUS
  <1>1. CASE UNCHANGED vars
    BY <1>1 DEF vars, IInv, TypeOK, TasksInRound, RoundApplied, Stale, Running, Pending
  <1> QED BY <1>1, LoopInv, TaskInv, WriterInv DEF Next

(* The inductive invariant holds in every reachable state.                 *)
THEOREM Invariance == Spec => []IInv
  BY InitInv, NextInv, PTL DEF Spec

(* The state of the mediator stays within its types, and a server that the *)
(* round does not use has no task.                                         *)
THEOREM TypeCorrect == Spec => []TypeOK
  <1>1. IInv => TypeOK BY DEF IInv
  <1> QED BY Invariance, <1>1, PTL

(* A round whose options have been changed is told to end, apart from the  *)
(* two windows of restart and CheckIfRestart that lost records.            *)
THEOREM ChangesApplied == Spec => []AppliedUnlessLost
  <1>1. IInv => AppliedUnlessLost
    BY DEF IInv, RoundApplied, AppliedUnlessLost
  <1> QED BY Invariance, <1>1, PTL
=============================================================================
