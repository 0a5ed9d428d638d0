--------------------------- MODULE TerminalProofs ---------------------------
(***************************************************************************)
(* Proofs about Terminal for any number of connections, terminals,         *)
(* services and shells.                                                    *)
(***************************************************************************)
EXTENDS Terminal, TerminalBuffer, Integers, WellFoundedInduction, SequenceTheorems, TLAPS

\* A thread between the two halves of read_outputs has a service.
CleansSomething == \A c \in Conns : pc[c] = "clean" => tg[c] \in Gens

\* A service that is persistent and has terminals although its removal is
\* decided became so after the decision.
DecidedLate ==
    (registered # 0 /\ persistent[registered] /\ ShellsOf(registered) # {} /\ Decided)
        => registered \in late

\* A shell is in one terminal of one service.
Apart ==
    \A g, h \in Gens : \A t, u \in Terms :
        (sessions[g][t] # 0 /\ sessions[g][t] = sessions[h][u]) => g = h /\ t = u

IInv == TypeOK /\ CleansSomething /\ Apart /\ NoOrphanShell /\ DecidedLate

----------------------------------------------------------------------------
(* Operators.                                                              *)

\* The shells of a service are those in its terminals.
LEMMA ShellsFacts ==
    ASSUME TypeOK, NEW g \in Gens
    PROVE  /\ ShellsOf(g) \subseteq 1 .. shells
           /\ \A p : p \in ShellsOf(g) <=> p # 0 /\ \E t \in Terms : sessions[g][t] = p
  <1>1. shells \in Nat /\ \A t \in Terms : sessions[g][t] \in 0 .. shells
    BY TerminalAssumption DEF TypeOK
  <1> QED BY <1>1 DEF ShellsOf

(* Stopping shells only takes from what runs, and moves children from      *)
(* their sessions to the reaper.                                           *)
LEMMA StopFacts ==
    ASSUME TypeOK, NEW P, Stop(P)
    PROVE  /\ running' = running \ P
           /\ running' \subseteq 1 .. shells /\ owned' \subseteq 1 .. shells
           /\ reaper' \subseteq (1 .. shells) \ owned'
           /\ owned' \cup reaper' = owned \cup reaper
  BY DEF TypeOK, Stop

(* Clearing the terminals of one service leaves the others alone.          *)
LEMMA WithoutFacts ==
    ASSUME TypeOK, NEW g \in Gens, NEW P
    PROVE  /\ Without(g, P) \in [Gens -> [Terms -> 0 .. shells]]
           /\ \A h \in Gens : (h # g \/ P = {}) => Without(g, P)[h] = sessions[h]
           /\ P # {} => \A t \in Terms : Without(g, P)[g][t] = 0
  <1>1. shells \in Nat /\ 0 \in 0 .. shells
    BY TerminalAssumption DEF TypeOK
  <1> QED BY <1>1 DEF TypeOK, Without

\* Somebody other than TERMINAL_SERVICES refers to service g.
Held(g) == \E d \in Conns : call[d].g = g \/ (pc[d] = "clean" /\ tg[d] = g)

\* ... apart from a call of c, or from the thread of c.
HeldBesidesCall(g, c) ==
    \E d \in Conns : (d # c /\ call[d].g = g) \/ (pc[d] = "clean" /\ tg[d] = g)
HeldBesidesThread(g, c) ==
    \E d \in Conns : call[d].g = g \/ (d # c /\ pc[d] = "clean" /\ tg[d] = g)

\* Who holds a service, as a set and as a formula, also when one holder lets go.
LEMMA HolderFacts ==
    ASSUME NEW g, NEW c \in Conns
    PROVE  /\ Holders(g) # {} <=> Held(g)
           /\ Holders(g) \ {<<"call", c>>} # {} <=> HeldBesidesCall(g, c)
           /\ Holders(g) \ {<<"thread", c>>} # {} <=> HeldBesidesThread(g, c)
           /\ call[c].g = g =>
                 (Holders(g) # {<<"call", c>>} <=> HeldBesidesCall(g, c))
  <1> DEFINE A == {<<"call", d>> : d \in {e \in Conns : call[e].g = g}}
  <1> DEFINE B == {<<"thread", d>> : d \in {e \in Conns : pc[e] = "clean" /\ tg[e] = g}}
  <1>1. /\ \A x \in A : \E d \in Conns : x = <<"call", d>> /\ call[d].g = g
        /\ \A x \in B : \E d \in Conns : x = <<"thread", d>> /\ pc[d] = "clean" /\ tg[d] = g
        /\ \A d \in Conns : call[d].g = g => <<"call", d>> \in A
        /\ \A d \in Conns : pc[d] = "clean" /\ tg[d] = g => <<"thread", d>> \in B
    OBVIOUS
  <1>2. Holders(g) = A \cup B
    BY DEF Holders
  <1> HIDE DEF A, B
  <1>3. Holders(g) # {} <=> Held(g)
    BY <1>1, <1>2 DEF Held
  <1>4. Holders(g) \ {<<"call", c>>} # {} <=> HeldBesidesCall(g, c)
    <2>1. ASSUME NEW x \in Holders(g) \ {<<"call", c>>} PROVE HeldBesidesCall(g, c)
      BY <1>1, <1>2, <2>1 DEF HeldBesidesCall
    <2>2. ASSUME NEW d \in Conns, d # c, call[d].g = g
          PROVE  <<"call", d>> \in Holders(g) \ {<<"call", c>>}
      BY <1>1, <1>2, <2>2
    <2>3. ASSUME NEW d \in Conns, pc[d] = "clean", tg[d] = g
          PROVE  <<"thread", d>> \in Holders(g) \ {<<"call", c>>}
      BY <1>1, <1>2, <2>3
    <2> QED BY <2>1, <2>2, <2>3 DEF HeldBesidesCall
  <1>5. Holders(g) \ {<<"thread", c>>} # {} <=> HeldBesidesThread(g, c)
    <2>1. ASSUME NEW x \in Holders(g) \ {<<"thread", c>>} PROVE HeldBesidesThread(g, c)
      BY <1>1, <1>2, <2>1 DEF HeldBesidesThread
    <2>2. ASSUME NEW d \in Conns, call[d].g = g
          PROVE  <<"call", d>> \in Holders(g) \ {<<"thread", c>>}
      BY <1>1, <1>2, <2>2
    <2>3. ASSUME NEW d \in Conns, d # c, pc[d] = "clean", tg[d] = g
          PROVE  <<"thread", d>> \in Holders(g) \ {<<"thread", c>>}
      BY <1>1, <1>2, <2>3
    <2> QED BY <2>1, <2>2, <2>3 DEF HeldBesidesThread
  <1>6. call[c].g = g => <<"call", c>> \in Holders(g)
    BY <1>1, <1>2
  <1> QED BY <1>3, <1>4, <1>5, <1>6

(* NoOrphanShell with the holders spelt out.                               *)
Kept ==
    \A p \in running :
        /\ p \in owned \cup reaper
        /\ \E g \in Gens : /\ registered = g \/ Held(g)
                          /\ \E t \in Terms : sessions[g][t] = p

\* A service has holders if it is held,
LEMMA HoldersNonempty == \A g : Holders(g) # {} <=> Held(g)
  BY Zenon DEF Holders, Held

\* and so after a step.
LEMMA HoldersNonemptyNext == \A g : Holders(g)' # {} <=> Held(g)'
  BY Zenon DEF Holders, Held

\* NoOrphanShell with holders and shells spelled out, before and after a step.
LEMMA KeptForm ==
    /\ TypeOK => (NoOrphanShell <=> Kept)
    /\ TypeOK' => (NoOrphanShell' <=> Kept')
  <1>1. TypeOK => 0 \notin running
    BY DEF TypeOK
  <1>2. TypeOK' => 0 \notin running'
    BY DEF TypeOK
  <1>3. TypeOK => (NoOrphanShell <=> Kept)
    BY <1>1, HoldersNonempty DEF NoOrphanShell, Kept, ShellsOf
  <1>4. TypeOK' => (NoOrphanShell' <=> Kept')
    BY <1>2, HoldersNonemptyNext DEF NoOrphanShell, Kept, ShellsOf
  <1> QED BY <1>3, <1>4

\* A call in progress is about a service and a terminal.
LEMMA CallFacts ==
    ASSUME TypeOK, NEW c \in Conns, call[c].kind \in {"open", "close"}
    PROVE  call[c].g \in Gens /\ call[c].t \in Terms
  <1>1. call[c] \in {NoCall} \cup [kind : {"open", "close"}, t : Terms, g : Gens]
    BY DEF TypeOK
  <1>2. NoCall.kind = "none"
    BY DEF NoCall
  <1> QED BY <1>1, <1>2

\* Services and shells are numbered from 1.
LEMMA RegisteredFacts ==
    ASSUME TypeOK
    PROVE  /\ shells \in Nat /\ gens \in Nat /\ 0 \notin Gens
           /\ registered # 0 => registered \in Gens
           /\ gens < MaxGens => gens + 1 \in Gens
  BY TerminalAssumption DEF TypeOK, Gens

\* The part of the type invariant that an action about shells can disturb.
ShellTypes ==
    /\ shells \in 0 .. MaxShells
    /\ sessions \in [Gens -> [Terms -> 0 .. shells]]
    /\ running \subseteq 1 .. shells /\ owned \subseteq 1 .. shells
    /\ reaper \subseteq (1 .. shells) \ owned /\ sent \subseteq 1 .. shells

(* remove_service takes the registered service away and stops its shells.  *)
LEMMA RemoveFacts ==
    ASSUME TypeOK, RemoveService, UNCHANGED <<shells, sent>>
    PROVE  /\ registered' = 0 /\ gens' = gens /\ idle' \in BOOLEAN
           /\ persistent' \in [Gens -> BOOLEAN] /\ late' \subseteq Gens
           /\ ShellTypes'
           /\ owned' \cup reaper' = owned \cup reaper
           /\ running' = IF registered = 0 THEN running ELSE running \ ShellsOf(registered)
           /\ \A g \in Gens \ {registered} : sessions'[g] = sessions[g]
  <1>1. CASE registered = 0
    BY <1>1 DEF RemoveService, registry, TypeOK, ShellTypes
  <1>2. CASE registered # 0
    <2> DEFINE g == registered
    <2>1. g \in Gens
      BY <1>2, RegisteredFacts
    <2>2. /\ registered' = 0 /\ idle' = FALSE /\ late' = late \ {g}
          /\ persistent' = [persistent EXCEPT ![g] = FALSE]
          /\ sessions' = IF Holders(g) = {} THEN Without(g, ShellsOf(g)) ELSE sessions
          /\ Stop(ShellsOf(g))
          /\ UNCHANGED gens
      BY <1>2 DEF RemoveService
    <2> HIDE DEF g
    <2>3. /\ running' = running \ ShellsOf(g)
          /\ running' \subseteq 1 .. shells /\ owned' \subseteq 1 .. shells
          /\ reaper' \subseteq (1 .. shells) \ owned'
          /\ owned' \cup reaper' = owned \cup reaper
      BY <2>2, StopFacts
    <2>4. /\ sessions' \in [Gens -> [Terms -> 0 .. shells]]
          /\ \A h \in Gens : h # g => sessions'[h] = sessions[h]
      BY <2>1, <2>2, WithoutFacts DEF TypeOK
    <2>5. persistent' \in [Gens -> BOOLEAN] /\ late' \subseteq Gens
      BY <2>2 DEF TypeOK
    <2>6. ShellTypes'
      BY <2>3, <2>4 DEF ShellTypes, TypeOK
    <2> QED BY <1>2, <2>2, <2>3, <2>4, <2>5, <2>6 DEF g
  <1> QED BY <1>1, <1>2

(* Only shells of the service go with it.                                  *)
LEMMA DroppedFacts ==
    ASSUME TypeOK, NEW g \in Gens, NEW h
    PROVE  Dropped(g, h) \subseteq ShellsOf(g) /\ Dropped(g, h) \subseteq 1 .. shells
  BY ShellsFacts DEF Dropped

----------------------------------------------------------------------------
(* Type correctness.                                                       *)

\* handle_open keeps the types of the shells,
LEMMA OpenTypes ==
    ASSUME TypeOK, NEW c \in Conns, Open(c)
    PROVE  ShellTypes'
  <1> DEFINE g == call[c].g
  <1> DEFINE t == call[c].t
  <1> DEFINE q == shells + 1
  <1> DEFINE P == ShellsOf(g)
  <1>1. g \in Gens /\ t \in Terms
    BY CallFacts DEF Open
  <1>2. /\ shells < MaxShells /\ shells' = q /\ sent' = sent
        /\ \/ /\ sessions' = [sessions EXCEPT ![g][t] = q]
              /\ running' = running \cup {q} /\ owned' = owned \cup {q} /\ reaper' = reaper
           \/ /\ sessions' = Without(g, P)
              /\ running' = running \ P /\ owned' = owned \ P
              /\ reaper' = reaper \cup (P \cap owned) \cup {q}
    BY DEF Open
  <1>3. P \subseteq 1 .. shells
    BY <1>1, ShellsFacts
  <1>4. Without(g, P) \in [Gens -> [Terms -> 0 .. shells]]
    BY <1>1, WithoutFacts
  <1>5. /\ shells \in Nat /\ q \in 1 .. q /\ q \notin 1 .. shells
        /\ 0 .. shells \subseteq 0 .. q /\ 1 .. shells \subseteq 1 .. q /\ q \in 0 .. MaxShells
        /\ q \in 0 .. q
    BY <1>2, TerminalAssumption DEF TypeOK
  <1> HIDE DEF g, t, q, P
  <1>6. sessions' \in [Gens -> [Terms -> 0 .. q]]
    <2>1. sessions \in [Gens -> [Terms -> 0 .. q]] /\ Without(g, P) \in [Gens -> [Terms -> 0 .. q]]
      BY <1>4, <1>5 DEF TypeOK
    <2> QED BY <1>1, <1>2, <1>5, <2>1
  <1>7. running' \subseteq 1 .. q /\ owned' \subseteq 1 .. q /\ reaper' \subseteq (1 .. q) \ owned'
    BY <1>2, <1>3, <1>5 DEF TypeOK
  <1> QED BY <1>2, <1>5, <1>6, <1>7 DEF ShellTypes, TypeOK

\* so does handle_close, or an open that starts no shell,
LEMMA CloseTypes ==
    ASSUME TypeOK, NEW c \in Conns, Close(c) \/ OpenNothing(c)
    PROVE  ShellTypes'
  <1> DEFINE g == call[c].g
  <1> DEFINE P == Dropped(g, <<"call", c>>)
  <1>1. g \in Gens /\ call[c].t \in Terms
    BY CallFacts DEF Close, OpenNothing
  <1>2. Without(g, P) \in [Gens -> [Terms -> 0 .. shells]]
    BY <1>1, WithoutFacts
  <1>3. sessions' \in [Gens -> [Terms -> 0 .. shells]]
    <2>1. \/ sessions' = Without(g, P)
          \/ sessions' = [Without(g, P) EXCEPT ![g][call[c].t] = 0]
      BY DEF Close, OpenNothing
    <2>2. 0 \in 0 .. shells
      BY RegisteredFacts
    <2> HIDE DEF P
    <2> QED BY <1>1, <1>2, <2>1, <2>2
  <1>4. /\ running' \subseteq 1 .. shells /\ owned' \subseteq 1 .. shells
        /\ reaper' \subseteq (1 .. shells) \ owned'
    BY StopFacts DEF Close, OpenNothing
  <1>5. UNCHANGED <<shells, sent>>
    BY DEF Close, OpenNothing
  <1> QED BY <1>3, <1>4, <1>5 DEF ShellTypes, TypeOK

\* and the second half of read_outputs,
LEMMA CleanTypes ==
    ASSUME TypeOK, CleansSomething, NEW c \in Conns, Clean(c)
    PROVE  ShellTypes'
  <1> DEFINE g == tg[c]
  <1> DEFINE P == {sessions[g][t] : t \in tclosed[c]} \ {0}
  <1> DEFINE D == Dropped(g, <<"thread", c>>)
  <1> DEFINE gone == (IF tp[c] THEN {} ELSE P) \cup D
  <1>1. g \in Gens
    BY DEF Clean, Go, CleansSomething
  <1>2. Without(g, D) \in [Gens -> [Terms -> 0 .. shells]]
    BY <1>1, WithoutFacts
  <1>3. sessions' \in [Gens -> [Terms -> 0 .. shells]]
    <2>1. \/ sessions' = Without(g, D)
          \/ sessions' = [Without(g, D) EXCEPT
                             ![g] = [t \in Terms |-> IF t \in tclosed[c] THEN 0 ELSE @[t]]]
      BY DEF Clean
    <2>2. 0 \in 0 .. shells
      BY RegisteredFacts
    <2> HIDE DEF D
    <2> QED BY <1>1, <1>2, <2>1, <2>2
  <1>4. /\ running' = running \ gone
        /\ reaper' = reaper \cup ((P \cup gone) \cap owned)
        /\ owned' = owned \ (P \cup gone)
        /\ UNCHANGED <<shells, sent>>
    BY DEF Clean
  <1> HIDE DEF P, gone
  <1> QED BY <1>3, <1>4 DEF ShellTypes, TypeOK

\* and every step keeps all types.
LEMMA TypeStep == TypeOK /\ CleansSomething /\ [Next]_vars => TypeOK' /\ CleansSomething'
  <1> SUFFICES ASSUME TypeOK, CleansSomething, [Next]_vars PROVE TypeOK' /\ CleansSomething'
    OBVIOUS
  <1> USE DEF registry, procs, thread, client, Go
  <1>1. ASSUME NEW c \in Conns, Attach(c) PROVE TypeOK' /\ CleansSomething'
    <2>1. /\ registered' \in 0 .. gens' /\ gens' \in 0 .. MaxGens
          /\ persistent' \in [Gens -> BOOLEAN] /\ late' \subseteq Gens /\ idle' \in BOOLEAN
      <3>1. CASE /\ registered # 0
                 /\ persistent' = [persistent EXCEPT ![registered] = wish[c]]
                 /\ late' = IF Decided THEN late \cup {registered} ELSE late
                 /\ UNCHANGED <<registered, gens, idle>>
        BY <3>1, RegisteredFacts DEF TypeOK
      <3>2. CASE /\ registered = 0 /\ gens < MaxGens
                 /\ gens' = gens + 1 /\ registered' = gens + 1
                 /\ persistent' = [persistent EXCEPT ![gens + 1] = wish[c]]
                 /\ late' = IF Decided THEN late \cup {gens + 1} ELSE late
                 /\ idle' = FALSE
        <4>1. gens + 1 \in Gens /\ gens' \in 0 .. MaxGens /\ registered' \in 0 .. gens'
          BY <3>2, RegisteredFacts, TerminalAssumption
        <4> QED BY <3>2, <4>1 DEF TypeOK
      <3>3. CASE registered = 0 /\ UNCHANGED <<registered, gens, persistent, idle, late>>
        BY <3>3 DEF TypeOK
      <3> QED BY <1>1, <3>1, <3>2, <3>3 DEF Attach
    <2>2. /\ conn' = [conn EXCEPT ![c] = "on"] /\ pc' = [pc EXCEPT ![c] = "start"]
          /\ UNCHANGED <<sessions, procs, keeper, wish, flips, call, tp, tg, tclosed>>
      BY <1>1 DEF Attach
    <2> QED BY <2>1, <2>2 DEF TypeOK, CleansSomething
  <1>2. ASSUME NEW c \in Conns, SetPersistent(c) PROVE TypeOK' /\ CleansSomething'
    <2>1. persistent' \in [Gens -> BOOLEAN] /\ late' \subseteq Gens
      BY <1>2, RegisteredFacts DEF SetPersistent, TypeOK
    <2>2. flips' \in 0 .. MaxFlips /\ wish' \in [Conns -> BOOLEAN]
      BY <1>2, TerminalAssumption DEF SetPersistent, TypeOK
    <2> QED BY <1>2, <2>1, <2>2 DEF SetPersistent, TypeOK, CleansSomething
  <1>3. ASSUME NEW c \in Conns, Disconnect(c) PROVE TypeOK' /\ CleansSomething'
    BY <1>3 DEF Disconnect, TypeOK, CleansSomething
  <1>4. ASSUME NEW c \in Conns, NEW kind \in {"open", "close"}, NEW t \in Terms, Handle(c, kind, t)
        PROVE  TypeOK' /\ CleansSomething'
    <2>1. [kind |-> kind, t |-> t, g |-> registered] \in [kind : {"open", "close"}, t : Terms, g : Gens]
      BY <1>4, RegisteredFacts DEF Handle
    <2> QED BY <1>4, <2>1 DEF Handle, TypeOK, CleansSomething
  <1>5. ASSUME NEW c \in Conns, Handler(c) PROVE TypeOK' /\ CleansSomething'
    <2>1. ShellTypes'
      BY <1>5, OpenTypes, CloseTypes DEF Handler
    <2>2. call' = [call EXCEPT ![c] = NoCall]
      BY <1>5 DEF Handler, OpenNothing, Open, Close, Return
    <2>3. /\ UNCHANGED <<registered, gens, persistent, idle, keeper, conn, wish, flips, thread>>
      BY <1>5 DEF Handler, OpenNothing, Open, Close
    <2>4. late' \subseteq Gens
      BY <1>5, CallFacts DEF Handler, OpenNothing, Open, Close, TypeOK
    <2> QED BY <2>1, <2>2, <2>3, <2>4 DEF TypeOK, ShellTypes, CleansSomething
  <1>6. ASSUME NEW c \in Conns, Enter(c) \/ Leave(c) PROVE TypeOK' /\ CleansSomething'
    <2>1. \E to \in {"top", "done", "remove"} : pc' = [pc EXCEPT ![c] = to]
      BY <1>6 DEF Enter, Leave
    <2>2. UNCHANGED <<registry, procs, idle, keeper, client, tp, tg, tclosed, late>>
      BY <1>6 DEF Enter, Leave
    <2> QED BY <2>1, <2>2 DEF TypeOK, CleansSomething
  <1>7. ASSUME NEW c \in Conns, Proxy(c) PROVE TypeOK' /\ CleansSomething'
    <2>1. (registered # 0 /\ persistent[registered]) \in BOOLEAN
      OBVIOUS
    <2> QED BY <1>7, <2>1 DEF Proxy, TypeOK, CleansSomething
  <1>8. ASSUME NEW c \in Conns, Poll(c) PROVE TypeOK' /\ CleansSomething'
    <2> DEFINE closed ==
          IF registered = 0 THEN {}
          ELSE {t \in Terms : sessions[registered][t] \notin running \cup sent \cup {0}}
    <2>1. /\ pc' = [pc EXCEPT ![c] = IF closed = {} THEN "top" ELSE "clean"]
          /\ tg' = [tg EXCEPT ![c] = IF closed = {} THEN 0 ELSE registered]
          /\ tclosed' = [tclosed EXCEPT ![c] = closed]
          /\ sent' = sent \cup {sessions[registered][t] : t \in closed}
          /\ tp' = [tp EXCEPT ![c] = @ /\ closed # {}]
          /\ UNCHANGED <<registry, shells, running, owned, reaper, idle, keeper, client, late>>
      BY <1>8 DEF Poll
    <2>2. /\ closed \subseteq Terms
          /\ closed # {} => registered \in Gens
          /\ \A t \in closed : sessions[registered][t] \in ShellsOf(registered)
      BY RegisteredFacts DEF ShellsOf
    <2>3. {sessions[registered][t] : t \in closed} \subseteq 1 .. shells
      BY <2>2, ShellsFacts
    <2> HIDE DEF closed
    <2>4. sent' \subseteq 1 .. shells
      BY <2>1, <2>3 DEF TypeOK
    <2>5. tg' \in [Conns -> 0 .. MaxGens] /\ CleansSomething'
      <3>1. 0 \in 0 .. MaxGens /\ Gens \subseteq 0 .. MaxGens
        BY TerminalAssumption DEF Gens
      <3> QED BY <2>1, <2>2, <3>1 DEF TypeOK, CleansSomething
    <2>6. /\ pc' \in [Conns -> {"off", "start", "top", "poll", "clean", "remove", "done"}]
          /\ tp' \in [Conns -> BOOLEAN] /\ tclosed' \in [Conns -> SUBSET Terms]
      BY <2>1, <2>2 DEF TypeOK
    <2> QED BY <2>1, <2>4, <2>5, <2>6 DEF TypeOK
  <1>9. ASSUME NEW c \in Conns, Clean(c) PROVE TypeOK' /\ CleansSomething'
    <2>1. ShellTypes'
      BY <1>9, CleanTypes
    <2>2. /\ pc' = [pc EXCEPT ![c] = "top"] /\ tp' = [tp EXCEPT ![c] = FALSE]
          /\ tg' = [tg EXCEPT ![c] = 0] /\ tclosed' = [tclosed EXCEPT ![c] = {}]
          /\ UNCHANGED <<registered, gens, persistent, idle, keeper, client, late>>
      BY <1>9 DEF Clean
    <2>3. 0 \in 0 .. MaxGens
      BY TerminalAssumption
    <2> QED BY <2>1, <2>2, <2>3 DEF TypeOK, ShellTypes, CleansSomething
  <1>10. ASSUME NEW c \in Conns, LeaveAndRemove(c) PROVE TypeOK' /\ CleansSomething'
    <2>1. /\ registered' = 0 /\ gens' = gens /\ idle' \in BOOLEAN
          /\ persistent' \in [Gens -> BOOLEAN] /\ late' \subseteq Gens /\ ShellTypes'
      BY <1>10, RemoveFacts DEF LeaveAndRemove
    <2>2. 0 \in 0 .. gens
      BY RegisteredFacts
    <2> QED BY <1>10, <2>1, <2>2 DEF LeaveAndRemove, TypeOK, ShellTypes, CleansSomething
  <1>11. ASSUME Sweep PROVE TypeOK' /\ CleansSomething'
    <2>1. /\ registered' = 0 /\ gens' = gens /\ idle' \in BOOLEAN
          /\ persistent' \in [Gens -> BOOLEAN] /\ late' \subseteq Gens /\ ShellTypes'
      BY <1>11, RemoveFacts DEF Sweep
    <2>2. 0 \in 0 .. gens
      BY RegisteredFacts
    <2> QED BY <1>11, <2>1, <2>2 DEF Sweep, TypeOK, ShellTypes, CleansSomething
  <1>12. ASSUME Collect \/ Idle \/ \E p \in Shells : Exit(p) PROVE TypeOK' /\ CleansSomething'
    BY <1>12 DEF Collect, Idle, Exit, TypeOK, CleansSomething
  <1>13. CASE UNCHANGED vars
    BY <1>13 DEF vars, TypeOK, CleansSomething
  <1> QED BY <1>1, <1>2, <1>3, <1>4, <1>5, <1>6, <1>7, <1>8, <1>9, <1>10, <1>11, <1>12, <1>13
          DEF Next, Thread

----------------------------------------------------------------------------
(* No orphan shell.                                                        *)

(* A handler returns: whoever held a service still does, but for the       *)
(* caller, and if nobody does the service's shells are stopped.            *)
LEMMA HandlerKeeps ==
    ASSUME TypeOK, Kept, NEW c \in Conns, OpenNothing(c) \/ Close(c)
    PROVE  Kept'
  <1>1. PICK g \in Gens : g = call[c].g /\ call[c].t \in Terms
    BY CallFacts DEF Close, OpenNothing
  <1> DEFINE P == Dropped(g, <<"call", c>>)
  <1> DEFINE Q == IF call[c].kind = "close" THEN {sessions[g][call[c].t]} \ {0} ELSE {}
  <1>2. /\ Stop(Q \cup P) \/ (Q = {} /\ Stop(P))
        /\ \/ sessions' = Without(g, P) /\ Q = {}
           \/ sessions' = [Without(g, P) EXCEPT ![g][call[c].t] = 0]
              /\ Q = {sessions[g][call[c].t]} \ {0}
        /\ call' = [call EXCEPT ![c] = NoCall]
        /\ UNCHANGED <<registered, pc, tg>>
    BY <1>1 DEF Close, OpenNothing, Return, thread
  <1>3. running' = running \ (Q \cup P) /\ owned' \cup reaper' = owned \cup reaper
    BY <1>2, StopFacts
  <1>4. /\ registered = g \/ HeldBesidesCall(g, c) => P = {}
        /\ ~(registered = g \/ HeldBesidesCall(g, c)) => P = ShellsOf(g)
    BY <1>1, HolderFacts DEF Dropped
  <1>5. \A h \in Gens : /\ h # g /\ Held(h) => Held(h)'
                        /\ HeldBesidesCall(g, c) => Held(g)'
    BY <1>1, <1>2 DEF Held, HeldBesidesCall, TypeOK
  <1>6. /\ Without(g, P) \in [Gens -> [Terms -> 0 .. shells]]
        /\ \A h \in Gens : (h # g \/ P = {}) => Without(g, P)[h] = sessions[h]
    BY <1>1, WithoutFacts
  <1>7. \A p : p \in ShellsOf(g) <=> p # 0 /\ \E t \in Terms : sessions[g][t] = p
    BY <1>1, ShellsFacts
  <1> SUFFICES ASSUME NEW p \in running'
               PROVE  \E h \in Gens : /\ registered' = h \/ Held(h)'
                                     /\ \E t \in Terms : sessions'[h][t] = p
    BY <1>3 DEF Kept
  <1>8. PICK h \in Gens, t \in Terms : (registered = h \/ Held(h)) /\ sessions[h][t] = p
    BY <1>3 DEF Kept
  <1>9. p # 0 /\ p \notin Q /\ p \notin P
    BY <1>3 DEF TypeOK
  <1> HIDE DEF P, Q
  <1>10. CASE h # g
    <2>1. sessions'[h] = sessions[h]
      BY <1>1, <1>2, <1>6, <1>10
    <2> QED BY <1>2, <1>5, <1>8, <1>10, <2>1
  <1>11. CASE h = g
    <2>1. registered = g \/ HeldBesidesCall(g, c)
      BY <1>4, <1>7, <1>8, <1>9, <1>11
    <2>2. P = {} /\ Without(g, P)[g] = sessions[g]
      BY <1>1, <1>4, <1>6, <2>1
    <2>3. sessions'[g][t] = p
      BY <1>1, <1>2, <1>6, <1>8, <1>9, <1>11, <2>2
    <2> QED BY <1>1, <1>2, <1>5, <1>8, <1>11, <2>1, <2>3
  <1> QED BY <1>10, <1>11

\* handle_open: the new shell belongs to the service of the call, registered or not.
LEMMA OpenKeeps ==
    ASSUME TypeOK, Kept, NEW c \in Conns, Open(c)
    PROVE  Kept'
  <1>1. PICK g \in Gens, u \in Terms : g = call[c].g /\ u = call[c].t
    BY CallFacts DEF Open
  <1> DEFINE q == shells + 1
  <1> DEFINE P == ShellsOf(g)
  <1>2. /\ sessions[g][u] = 0 /\ call' = [call EXCEPT ![c] = NoCall]
        /\ UNCHANGED <<registered, pc, tg>>
    BY <1>1 DEF Open, Return, thread
  <1>3. \/ /\ registered = g \/ HeldBesidesCall(g, c)
           /\ sessions' = [sessions EXCEPT ![g][u] = q]
           /\ running' = running \cup {q} /\ owned' = owned \cup {q} /\ reaper' = reaper
        \/ /\ sessions' = Without(g, P)
           /\ running' = running \ P /\ owned' = owned \ P
           /\ reaper' = reaper \cup (P \cap owned) \cup {q}
    BY <1>1, HolderFacts DEF Open
  <1>4. \A h \in Gens : /\ h # g /\ Held(h) => Held(h)'
                        /\ HeldBesidesCall(g, c) => Held(g)'
    BY <1>1, <1>2 DEF Held, HeldBesidesCall, TypeOK
  <1>5. /\ Without(g, P) \in [Gens -> [Terms -> 0 .. shells]]
        /\ \A h \in Gens : h # g => Without(g, P)[h] = sessions[h]
    BY <1>1, WithoutFacts
  <1>6. \A p : p \in P <=> p # 0 /\ \E t \in Terms : sessions[g][t] = p
    BY <1>1, ShellsFacts
  <1>7. sessions \in [Gens -> [Terms -> 0 .. shells]] /\ 0 \notin running
    BY DEF TypeOK
  <1> HIDE DEF P, q
  <1>8. CASE /\ registered = g \/ HeldBesidesCall(g, c)
             /\ sessions' = [sessions EXCEPT ![g][u] = q]
             /\ running' = running \cup {q} /\ owned' = owned \cup {q} /\ reaper' = reaper
    <2> SUFFICES ASSUME NEW p \in running'
                 PROVE  /\ p \in owned' \cup reaper'
                        /\ \E h \in Gens : /\ registered' = h \/ Held(h)'
                                          /\ \E t \in Terms : sessions'[h][t] = p
      BY DEF Kept
    <2>1. CASE p = q
      <3>1. sessions'[g][u] = q
        BY <1>1, <1>7, <1>8
      <3> QED BY <1>1, <1>2, <1>4, <1>8, <2>1, <3>1
    <2>2. CASE p \in running
      <3>1. PICK h \in Gens, t \in Terms : (registered = h \/ Held(h)) /\ sessions[h][t] = p
        BY <2>2 DEF Kept
      <3>2. h # g \/ t # u
        BY <1>2, <1>7, <2>2, <3>1
      <3>3. sessions'[h][t] = p
        BY <1>1, <1>7, <1>8, <3>1, <3>2
      <3>4. registered' = h \/ Held(h)'
        BY <1>1, <1>2, <1>4, <1>8, <3>1
      <3> QED BY <1>8, <2>2, <3>3, <3>4 DEF Kept
    <2> QED BY <1>8, <2>1, <2>2
  <1>9. CASE /\ sessions' = Without(g, P)
             /\ running' = running \ P /\ owned' = owned \ P
             /\ reaper' = reaper \cup (P \cap owned) \cup {q}
    <2> SUFFICES ASSUME NEW p \in running'
                 PROVE  \E h \in Gens : /\ registered' = h \/ Held(h)'
                                       /\ \E t \in Terms : sessions'[h][t] = p
      BY <1>9 DEF Kept
    <2>1. PICK h \in Gens, t \in Terms : (registered = h \/ Held(h)) /\ sessions[h][t] = p
      BY <1>9 DEF Kept
    <2>2. h # g
      BY <1>6, <1>7, <1>9, <2>1
    <2> QED BY <1>2, <1>4, <1>5, <1>9, <2>1, <2>2
  <1> QED BY <1>3, <1>8, <1>9

\* read_outputs cleans up: what it drops is stopped, or still held.
LEMMA CleanKeeps ==
    ASSUME TypeOK, CleansSomething, Kept, NEW c \in Conns, Clean(c)
    PROVE  Kept'
  <1>1. PICK g \in Gens : g = tg[c] /\ pc[c] = "clean" /\ tclosed[c] \subseteq Terms
    BY DEF Clean, Go, CleansSomething, TypeOK
  <1> DEFINE P == {sessions[g][t] : t \in tclosed[c]} \ {0}
  <1> DEFINE D == Dropped(g, <<"thread", c>>)
  <1>2. \/ /\ tp[c]
           /\ running' = running \ D
           /\ sessions' = Without(g, D)
        \/ /\ ~tp[c]
           /\ running' = running \ (P \cup D)
           /\ sessions' = [Without(g, D) EXCEPT
                             ![g] = [t \in Terms |-> IF t \in tclosed[c] THEN 0 ELSE @[t]]]
    BY <1>1 DEF Clean
  <1>3. owned \cup reaper \subseteq owned' \cup reaper'
    BY DEF Clean
  <1>4. /\ pc' = [pc EXCEPT ![c] = "top"] /\ tg' = [tg EXCEPT ![c] = 0]
        /\ UNCHANGED <<registered, call>>
    BY <1>1 DEF Clean, Go, client
  <1>5. /\ registered = g \/ HeldBesidesThread(g, c) => D = {}
        /\ ~(registered = g \/ HeldBesidesThread(g, c)) => D = ShellsOf(g)
    BY <1>1, HolderFacts DEF Dropped
  <1>6. \A h \in Gens : /\ h # g /\ Held(h) => Held(h)'
                        /\ HeldBesidesThread(g, c) => Held(g)'
    BY <1>1, <1>4 DEF Held, HeldBesidesThread, TypeOK
  <1>7. /\ Without(g, D) \in [Gens -> [Terms -> 0 .. shells]]
        /\ \A h \in Gens : (h # g \/ D = {}) => Without(g, D)[h] = sessions[h]
    BY <1>1, WithoutFacts
  <1>8. \A p : p \in ShellsOf(g) <=> p # 0 /\ \E t \in Terms : sessions[g][t] = p
    BY <1>1, ShellsFacts
  <1>9. 0 \notin running /\ \A t \in tclosed[c] : sessions[g][t] \in P \cup {0}
    BY DEF TypeOK
  <1> HIDE DEF P, D
  <1> SUFFICES ASSUME NEW p \in running'
               PROVE  \E h \in Gens : /\ registered' = h \/ Held(h)'
                                     /\ \E t \in Terms : sessions'[h][t] = p
    BY <1>2, <1>3 DEF Kept
  <1>10. p \in running /\ p \notin D
    BY <1>2
  <1>11. PICK h \in Gens, t \in Terms : (registered = h \/ Held(h)) /\ sessions[h][t] = p
    BY <1>10 DEF Kept
  <1>12. CASE h # g
    <2>1. sessions'[h] = sessions[h]
      BY <1>1, <1>2, <1>7, <1>12
    <2> QED BY <1>4, <1>6, <1>11, <1>12, <2>1
  <1>13. CASE h = g
    <2>1. registered = g \/ HeldBesidesThread(g, c)
      BY <1>5, <1>8, <1>9, <1>10, <1>11, <1>13
    <2>2. D = {} /\ Without(g, D)[g] = sessions[g]
      BY <1>1, <1>5, <1>7, <2>1
    <2>3. ~tp[c] => t \notin tclosed[c]
      BY <1>2, <1>9, <1>10, <1>11, <1>13
    <2>4. sessions'[g][t] = p
      BY <1>1, <1>2, <1>7, <1>11, <1>13, <2>2, <2>3
    <2> QED BY <1>1, <1>4, <1>6, <1>11, <1>13, <2>1, <2>4
  <1> QED BY <1>12, <1>13

(* A service keeps its place or its holders in every other step.           *)
LEMMA KeptStep == TypeOK /\ CleansSomething /\ Kept /\ [Next]_vars => Kept'
  <1> SUFFICES ASSUME TypeOK, CleansSomething, Kept, [Next]_vars PROVE Kept'
    OBVIOUS
  <1> USE DEF registry, procs, thread, client, Go
  <1>1. ASSUME NEW c \in Conns, Handler(c) PROVE Kept'
    BY <1>1, HandlerKeeps, OpenKeeps DEF Handler
  <1>2. ASSUME NEW c \in Conns, Clean(c) PROVE Kept'
    BY <1>2, CleanKeeps
  <1>3. ASSUME RemoveService, UNCHANGED <<shells, sent, call, tg>>,
               \A d \in Conns : pc[d] = "clean" => pc'[d] = "clean"
        PROVE  Kept'
    <2>1. /\ owned' \cup reaper' = owned \cup reaper
          /\ running' = IF registered = 0 THEN running ELSE running \ ShellsOf(registered)
          /\ \A g \in Gens \ {registered} : sessions'[g] = sessions[g]
      BY <1>3, RemoveFacts
    <2>2. \A g \in Gens : Held(g) => Held(g)'
      BY <1>3 DEF Held
    <2> SUFFICES ASSUME NEW p \in running'
                 PROVE  \E g \in Gens : Held(g)' /\ \E t \in Terms : sessions'[g][t] = p
      BY <2>1 DEF Kept
    <2>3. PICK g \in Gens, t \in Terms : (registered = g \/ Held(g)) /\ sessions[g][t] = p
      BY <2>1 DEF Kept
    <2>4. g # registered
      <3>1. p # 0 /\ 0 \notin Gens
        BY <2>1, RegisteredFacts DEF TypeOK
      <3>2. p \in ShellsOf(g)
        BY <2>3, <3>1, ShellsFacts
      <3> QED BY <2>1, <3>1, <3>2
    <2> QED BY <2>1, <2>2, <2>3, <2>4
  <1>4. ASSUME NEW c \in Conns, LeaveAndRemove(c) PROVE Kept'
    BY <1>3, <1>4 DEF LeaveAndRemove, TypeOK
  <1>5. ASSUME Sweep PROVE Kept'
    BY <1>3, <1>5 DEF Sweep
  <1>6. ASSUME sessions' = sessions, running' \subseteq running,
               UNCHANGED <<owned, reaper>>,
               registered' = registered \/ registered = 0,
               \A g \in Gens : Held(g) => Held(g)'
        PROVE  Kept'
    BY <1>6, RegisteredFacts DEF Kept
  <1>7. ASSUME NEW c \in Conns, Attach(c) PROVE Kept'
    <2>1. \A g \in Gens : Held(g) => Held(g)'
      BY <1>7 DEF Attach, Held, TypeOK
    <2> QED BY <1>6, <1>7, <2>1 DEF Attach
  <1>8. ASSUME NEW c \in Conns, SetPersistent(c) \/ Disconnect(c) PROVE Kept'
    <2>1. UNCHANGED <<registered, sessions, running, owned, reaper, call, pc, tg>>
      BY <1>8 DEF SetPersistent, Disconnect
    <2> QED BY <1>6, <2>1 DEF Held
  <1>9. ASSUME NEW c \in Conns, NEW kind \in {"open", "close"}, NEW t \in Terms, Handle(c, kind, t)
        PROVE  Kept'
    <2>1. call[c].g = 0 /\ 0 \notin Gens
      BY <1>9, RegisteredFacts DEF Handle, NoCall
    <2>2. \A g \in Gens : Held(g) => Held(g)'
      BY <1>9, <2>1 DEF Handle, Held, TypeOK
    <2> QED BY <1>6, <1>9, <2>2 DEF Handle
  <1>10. ASSUME NEW c \in Conns, Enter(c) \/ Proxy(c) \/ Poll(c) \/ Leave(c) PROVE Kept'
    <2>1. /\ pc[c] # "clean" /\ \A d \in Conns \ {c} : pc'[d] = pc[d] /\ tg'[d] = tg[d]
          /\ UNCHANGED <<registered, sessions, running, owned, reaper, call>>
      BY <1>10 DEF Enter, Proxy, Poll, Leave, TypeOK
    <2>2. \A g \in Gens : Held(g) => Held(g)'
      BY <2>1 DEF Held
    <2> QED BY <1>6, <2>1, <2>2
  <1>11. ASSUME Collect \/ Idle \/ (\E p \in Shells : Exit(p)) \/ UNCHANGED vars PROVE Kept'
    <2>1. /\ UNCHANGED <<registered, sessions, owned, reaper, call, pc, tg>>
          /\ running' \subseteq running
      BY <1>11 DEF Collect, Idle, Exit, vars
    <2> QED BY <1>6, <2>1 DEF Held
  <1> QED BY <1>1, <1>2, <1>4, <1>5, <1>7, <1>8, <1>9, <1>10, <1>11 DEF Next, Thread

----------------------------------------------------------------------------
(* Persistence.                                                            *)

\* The service has a terminal.
Occupied(g) == \E t \in Terms : sessions[g][t] # 0

\* A service has shells if one of its terminals is in use.
LEMMA OccupiedForm ==
    /\ (ShellsOf(registered) # {}) <=> Occupied(registered)
    /\ (ShellsOf(registered) # {})' <=> Occupied(registered)'
  BY DEF ShellsOf, Occupied

(* Only handle_open fills a terminal; the others leave it or empty it.     *)
LEMMA OnlyOpenFills ==
    ASSUME TypeOK, CleansSomething, NEW c \in Conns, OpenNothing(c) \/ Close(c) \/ Clean(c),
           NEW g \in Gens, NEW t \in Terms
    PROVE  sessions'[g][t] \in {0, sessions[g][t]}
  <1>1. CASE OpenNothing(c) \/ Close(c)
    <2>1. call[c].g \in Gens /\ call[c].t \in Terms
      BY <1>1, CallFacts DEF OpenNothing, Close
    <2> DEFINE W == Without(call[c].g, Dropped(call[c].g, <<"call", c>>))
    <2>2. W \in [Gens -> [Terms -> 0 .. shells]] /\ W[g][t] \in {0, sessions[g][t]}
      BY <2>1, WithoutFacts
    <2>3. sessions' = W \/ sessions' = [W EXCEPT ![call[c].g][call[c].t] = 0]
      BY <1>1 DEF OpenNothing, Close
    <2> HIDE DEF W
    <2> QED BY <2>1, <2>2, <2>3
  <1>2. CASE Clean(c)
    <2>1. tg[c] \in Gens
      BY <1>2 DEF Clean, CleansSomething, Go
    <2> DEFINE W == Without(tg[c], Dropped(tg[c], <<"thread", c>>))
    <2>2. W \in [Gens -> [Terms -> 0 .. shells]] /\ W[g][t] \in {0, sessions[g][t]}
      BY <2>1, WithoutFacts
    <2>3. \/ sessions' = W
          \/ sessions' = [W EXCEPT
                ![tg[c]] = [v \in Terms |-> IF v \in tclosed[c] THEN 0 ELSE @[v]]]
      BY <1>2 DEF Clean
    <2> HIDE DEF W
    <2> QED BY <2>1, <2>2, <2>3
  <1> QED BY <1>1, <1>2

(* Nor does a removal fill one.                                            *)
LEMMA RemovalEmpties ==
    ASSUME TypeOK, RemoveService, NEW g \in Gens, NEW t \in Terms
    PROVE  sessions'[g][t] \in {0, sessions[g][t]}
  <1>1. CASE registered = 0
    BY <1>1 DEF RemoveService, registry
  <1>2. CASE registered # 0
    <2>1. /\ registered \in Gens
          /\ sessions' = sessions \/ sessions' = Without(registered, ShellsOf(registered))
      BY <1>2, RegisteredFacts DEF RemoveService
    <2> QED BY <2>1, WithoutFacts
  <1> QED BY <1>1, <1>2

(* A new shell has a number of its own, and nothing moves a shell.         *)
LEMMA ApartStep == TypeOK /\ CleansSomething /\ Apart /\ [Next]_vars => Apart'
  <1> SUFFICES ASSUME TypeOK, CleansSomething, Apart, [Next]_vars PROVE Apart'
    OBVIOUS
  <1> USE DEF registry, procs, thread, client
  <1>1. (\A g \in Gens : \A t \in Terms : sessions'[g][t] \in {0, sessions[g][t]}) => Apart'
    BY DEF Apart
  <1>2. ASSUME NEW c \in Conns, OpenNothing(c) \/ Close(c) \/ Clean(c) PROVE Apart'
    BY <1>1, <1>2, OnlyOpenFills
  <1>3. ASSUME Sweep \/ \E c \in Conns : LeaveAndRemove(c) PROVE Apart'
    <2>1. RemoveService
      BY <1>3 DEF Sweep, LeaveAndRemove
    <2> QED BY <1>1, <2>1, RemovalEmpties
  <1>4. ASSUME NEW c \in Conns, Open(c) PROVE Apart'
    <2>1. PICK g \in Gens, u \in Terms : g = call[c].g /\ u = call[c].t
      BY <1>4, CallFacts DEF Open
    <2>2. \/ sessions' = [sessions EXCEPT ![g][u] = shells + 1]
          \/ sessions' = Without(g, ShellsOf(g))
      BY <1>4, <2>1 DEF Open
    <2>3. CASE sessions' = Without(g, ShellsOf(g))
      BY <1>1, <2>3, WithoutFacts
    <2>4. CASE sessions' = [sessions EXCEPT ![g][u] = shells + 1]
      <3>1. \A h \in Gens : \A t \in Terms :
                /\ sessions[h][t] # shells + 1
                /\ sessions'[h][t] = IF h = g /\ t = u THEN shells + 1 ELSE sessions[h][t]
        BY <2>4, RegisteredFacts DEF TypeOK
      <3> QED BY <3>1 DEF Apart
    <2> QED BY <2>2, <2>3, <2>4
  <1>5. ASSUME \/ \E c \in Conns :
                     \/ Attach(c) \/ SetPersistent(c) \/ Disconnect(c)
                     \/ Enter(c) \/ Proxy(c) \/ Poll(c) \/ Leave(c)
                     \/ \E kind \in {"open", "close"}, t \in Terms : Handle(c, kind, t)
               \/ Collect \/ Idle \/ (\E p \in Shells : Exit(p)) \/ UNCHANGED vars
        PROVE  Apart'
    <2>1. UNCHANGED sessions
      BY <1>5 DEF Attach, SetPersistent, Disconnect, Enter, Proxy, Poll, Leave, Handle, Collect,
         Idle, Exit, vars
    <2> QED BY <1>1, <2>1
  <1> QED BY <1>2, <1>3, <1>4, <1>5 DEF Next, Handler, Thread

(* A decision to remove falls on a service that is not persistent or has   *)
(* no terminal; what changes that afterwards is remembered in late.        *)
LEMMA DecidedStep == TypeOK /\ CleansSomething /\ DecidedLate /\ [Next]_vars => DecidedLate'
  <1> SUFFICES ASSUME TypeOK, CleansSomething, DecidedLate, [Next]_vars,
                      registered' # 0, persistent'[registered'], Occupied(registered)', Decided'
               PROVE  registered' \in late'
    BY OccupiedForm DEF DecidedLate
  <1> USE DEF registry, procs, thread, client, Go
  <1>1. registered # 0 /\ persistent[registered] /\ Occupied(registered) /\ Decided
            => registered \in late
    BY OccupiedForm DEF DecidedLate
  <1>2. ASSUME NEW c \in Conns, Attach(c) PROVE registered' \in late'
    <2>1. Decided
      BY <1>2 DEF Attach, Decided, TypeOK
    <2> QED BY <1>2, <2>1 DEF Attach
  <1>3. ASSUME NEW c \in Conns, SetPersistent(c) PROVE registered' \in late'
    BY <1>3 DEF SetPersistent, Decided
  <1>4. ASSUME NEW c \in Conns, Open(c) PROVE registered' \in late'
    <2>1. PICK g \in Gens, u \in Terms : g = call[c].g /\ u = call[c].t
      BY <1>4, CallFacts DEF Open
    <2>2. /\ UNCHANGED <<registered, persistent, keeper, pc>>
          /\ late' = IF registered = g /\ Decided THEN late \cup {g} ELSE late
          /\ \/ sessions' = [sessions EXCEPT ![g][u] = shells + 1]
             \/ sessions' = Without(g, ShellsOf(g))
      BY <1>4, <2>1 DEF Open
    <2>3. Decided
      BY <2>2 DEF Decided
    <2>4. CASE registered = g
      BY <2>2, <2>3, <2>4
    <2>5. CASE registered # g
      <3>1. registered \in Gens
        BY <2>2, RegisteredFacts
      <3>2. sessions'[registered] = sessions[registered]
        BY <2>2, <2>5, <3>1, WithoutFacts DEF TypeOK
      <3> QED BY <1>1, <2>2, <2>3, <2>5, <3>2 DEF Occupied
    <2> QED BY <2>4, <2>5
  <1>5. ASSUME NEW c \in Conns, OpenNothing(c) \/ Close(c) \/ Clean(c) PROVE registered' \in late'
    <2>1. UNCHANGED <<registered, persistent, late, keeper>>
      BY <1>5 DEF OpenNothing, Close, Clean
    <2>2. Decided
      BY <1>5 DEF OpenNothing, Close, Clean, Decided, TypeOK
    <2>3. registered \in Gens
      BY <2>1, RegisteredFacts
    <2>4. Occupied(registered)
      BY <1>5, <2>1, <2>3, OnlyOpenFills DEF Occupied
    <2> QED BY <1>1, <2>1, <2>2, <2>4
  <1>6. ASSUME Sweep \/ \E c \in Conns : LeaveAndRemove(c) PROVE registered' \in late'
    BY <1>6, RemoveFacts DEF LeaveAndRemove, Sweep
  <1>7. ASSUME NEW c \in Conns, Leave(c) PROVE registered' \in late'
    <2>1. UNCHANGED <<registered, persistent, sessions, late, keeper>>
      BY <1>7 DEF Leave
    <2>2. Occupied(registered)
      BY <2>1 DEF Occupied
    <2>3. Decided
      BY <1>7, <2>1 DEF Leave, Decided, TypeOK
    <2> QED BY <1>1, <2>1, <2>2, <2>3
  <1>8. ASSUME Collect PROVE registered' \in late'
    BY <1>8, OccupiedForm DEF Collect, Occupied
  <1>9. ASSUME \/ \E c \in Conns : \/ Disconnect(c) \/ Enter(c) \/ Proxy(c) \/ Poll(c)
                                   \/ \E kind \in {"open", "close"}, t \in Terms : Handle(c, kind, t)
               \/ Idle \/ (\E p \in Shells : Exit(p)) \/ UNCHANGED vars
        PROVE  registered' \in late'
    <2>1. UNCHANGED <<registered, persistent, sessions, late, keeper>>
      BY <1>9 DEF Disconnect, Enter, Proxy, Poll, Handle, Idle, Exit, vars
    <2>2. Decided
      BY <1>9, <2>1 DEF Disconnect, Enter, Proxy, Poll, Handle, Idle, Exit, vars, Decided, TypeOK
    <2> QED BY <1>1, <2>1, <2>2 DEF Occupied
  <1> QED BY <1>2, <1>3, <1>4, <1>5, <1>6, <1>7, <1>8, <1>9 DEF Next, Handler, Thread

----------------------------------------------------------------------------
\* The invariant holds at first.
LEMMA InitInv == Init => IInv
  <1> SUFFICES ASSUME Init PROVE IInv
    OBVIOUS
  <1>1. TypeOK
    <2>1. /\ 0 \in 0 .. MaxGens /\ 0 \in 0 .. MaxShells /\ 0 \in 0 .. MaxFlips /\ 0 \in 0 .. 0
      BY TerminalAssumption
    <2>2. sessions \in [Gens -> [Terms -> 0 .. shells]]
      BY <2>1 DEF Init
    <2>3. persistent \in [Gens -> BOOLEAN] /\ tp \in [Conns -> BOOLEAN]
      BY DEF Init
    <2> QED BY <2>1, <2>2, <2>3 DEF Init, TypeOK
  <1>2. CleansSomething /\ NoOrphanShell /\ DecidedLate
    BY DEF Init, CleansSomething, NoOrphanShell, DecidedLate
  <1>3. Apart
    BY DEF Init, Apart
  <1> QED BY <1>1, <1>2, <1>3 DEF IInv

\* Every step keeps the invariant.
LEMMA NextInv == IInv /\ [Next]_vars => IInv'
  BY TypeStep, ApartStep, KeptStep, KeptForm, DecidedStep DEF IInv

(* Every state has its type: a child is never both in its session and with *)
(* the reaper.                                                             *)
THEOREM TypeCorrect == Spec => []TypeOK
  BY InitInv, NextInv, PTL DEF Spec, IInv

(* However many connections, terminals and services there are, a shell     *)
(* that runs belongs to a service somebody can still reach and its child   *)
(* will be reaped: no interleaving of handle_open, handle_close,           *)
(* read_outputs and remove_service leaves one behind.                      *)
THEOREM NoOrphanShellHolds == Spec => []NoOrphanShell
  BY InitInv, NextInv, PTL DEF Spec, IInv

\* The service goes only when its removal was decided.
LEMMA RemovedDecided ==
    ASSUME TypeOK, Next, registered # 0, registered' = 0
    PROVE  Decided
  <1>1. gens \in Nat
    BY RegisteredFacts
  <1> QED BY ZenonT(60), <1>1
          DEF Next, Attach, SetPersistent, Disconnect, Handler, OpenNothing, Open, Close, Thread,
          Enter, Proxy, Poll, Clean, Leave, LeaveAndRemove, Handle, Collect, Sweep, Idle, Exit,
          Go, registry, Decided

(* Who may end a running shell of the registered service.                  *)
LEMMA ShellLost ==
    ASSUME TypeOK, CleansSomething, Apart, Next, registered # 0,
           NEW t \in Terms, sessions[registered][t] \in running \ running'
    PROVE  \/ Exit(sessions[registered][t])
           \/ registered' = 0
           \/ \E c \in Conns : Close(c) /\ call[c].g = registered /\ call[c].t = t
           \/ \E c \in Conns : /\ Clean(c) /\ tg[c] = registered
                               /\ t \in tclosed[c] /\ ~tp[c]
  <1> DEFINE p == sessions[registered][t]
  <1>1. p # 0 /\ p \in running /\ p \notin running' /\ registered \in Gens
    BY RegisteredFacts DEF TypeOK
  <1>2. \A g \in Gens : registered # g => p \notin ShellsOf(g)
    BY <1>1, ShellsFacts DEF Apart
  <1>3. \A g \in Gens : \A u \in Terms : p = sessions[g][u] => g = registered /\ u = t
    BY <1>1 DEF Apart
  <1> HIDE DEF p
  <1>4. ASSUME NEW c \in Conns, OpenNothing(c) PROVE FALSE
    <2>1. call[c].g \in Gens
      BY <1>4, CallFacts DEF OpenNothing
    <2>2. running' = running \ Dropped(call[c].g, <<"call", c>>)
      BY <1>4 DEF OpenNothing, Stop
    <2>3. p \notin Dropped(call[c].g, <<"call", c>>)
      BY <1>2, <2>1 DEF Dropped
    <2> QED BY <1>1, <2>2, <2>3
  <1>5. ASSUME NEW c \in Conns, Open(c) PROVE FALSE
    <2>1. call[c].g \in Gens
      BY <1>5, CallFacts DEF Open
    <2>2. \/ running \subseteq running'
          \/ registered # call[c].g /\ running' = running \ ShellsOf(call[c].g)
      BY <1>5 DEF Open
    <2>3. registered # call[c].g => p \notin ShellsOf(call[c].g)
      BY <1>2, <2>1
    <2> QED BY <1>1, <2>2, <2>3
  <1>6. ASSUME NEW c \in Conns, Close(c) PROVE call[c].g = registered /\ call[c].t = t
    <2>1. call[c].g \in Gens /\ call[c].t \in Terms
      BY <1>6, CallFacts DEF Close
    <2>2. running' = running \ (({sessions[call[c].g][call[c].t]} \ {0})
                                   \cup Dropped(call[c].g, <<"call", c>>))
      BY <1>6 DEF Close, Stop
    <2>3. p \notin Dropped(call[c].g, <<"call", c>>)
      BY <1>2, <2>1 DEF Dropped
    <2> QED BY <1>1, <1>3, <2>1, <2>2, <2>3
  <1>7. ASSUME NEW c \in Conns, Clean(c) PROVE tg[c] = registered /\ t \in tclosed[c] /\ ~tp[c]
    <2>1. tg[c] \in Gens /\ tclosed[c] \subseteq Terms
      BY <1>7 DEF Clean, Go, CleansSomething, TypeOK
    <2>2. running' = running \ ((IF tp[c] THEN {} ELSE {sessions[tg[c]][u] : u \in tclosed[c]} \ {0})
                                   \cup Dropped(tg[c], <<"thread", c>>))
      BY <1>7 DEF Clean
    <2>3. p \notin Dropped(tg[c], <<"thread", c>>)
      BY <1>2, <2>1 DEF Dropped
    <2>4. ~tp[c] /\ \E u \in tclosed[c] : p = sessions[tg[c]][u]
      BY <1>1, <2>2, <2>3
    <2> QED BY <1>3, <2>1, <2>4
  <1>8. ASSUME Sweep \/ \E c \in Conns : LeaveAndRemove(c) PROVE registered' = 0
    BY <1>8, RegisteredFacts DEF Sweep, LeaveAndRemove, RemoveService
  <1>9. ASSUME NEW q \in Shells, Exit(q) PROVE q = p
    BY <1>1, <1>9 DEF Exit
  <1>10. ASSUME \/ \E c \in Conns :
                      \/ Attach(c) \/ SetPersistent(c) \/ Disconnect(c)
                      \/ Enter(c) \/ Proxy(c) \/ Poll(c) \/ Leave(c)
                      \/ \E kind \in {"open", "close"}, u \in Terms : Handle(c, kind, u)
                \/ Collect \/ Idle
         PROVE  FALSE
    <2>1. UNCHANGED running
      BY <1>10 DEF Attach, SetPersistent, Disconnect, Enter, Proxy, Poll, Leave, Handle, Collect,
         Idle, procs
    <2> QED BY <1>1, <2>1
  <1> QED BY <1>4, <1>5, <1>6, <1>7, <1>8, <1>9, <1>10 DEF p, Next, Handler, Thread

(* A persistent service with terminals is removed only if it became so     *)
(* after its removal was decided, by run or by cleanup_inactive_services;  *)
(* and its running shells go only with it, by their own exit, because the  *)
(* client closes the terminal, or by a read_outputs that saw an older      *)
(* terminal of that number end before the service was persistent.          *)
THEOREM PersistentSurvivesHolds == Spec => PersistentSurvives
  <1>1. ASSUME IInv, [Next]_vars
        PROVE  [(registered # 0 /\ persistent[registered]) =>
                  /\ (registered' = 0 /\ ShellsOf(registered) # {}) => registered \in late
                  /\ \A t \in Terms : sessions[registered][t] \in running \ running' =>
                        \/ Exit(sessions[registered][t])
                        \/ registered \in late /\ registered' = 0
                        \/ \E c \in Conns : Close(c) /\ call[c].g = registered /\ call[c].t = t
                        \/ \E c \in Conns : /\ Clean(c) /\ tg[c] = registered
                                            /\ t \in tclosed[c] /\ ~tp[c]]_vars
    <2> SUFFICES ASSUME Next, registered # 0, persistent[registered]
                 PROVE  /\ (registered' = 0 /\ ShellsOf(registered) # {}) => registered \in late
                        /\ \A t \in Terms : sessions[registered][t] \in running \ running' =>
                              \/ Exit(sessions[registered][t])
                              \/ registered \in late /\ registered' = 0
                              \/ \E c \in Conns : /\ Close(c) /\ call[c].g = registered
                                                  /\ call[c].t = t
                              \/ \E c \in Conns : /\ Clean(c) /\ tg[c] = registered
                                                  /\ t \in tclosed[c] /\ ~tp[c]
      BY <1>1
    <2>1. ASSUME registered' = 0, ShellsOf(registered) # {} PROVE registered \in late
      BY <1>1, <2>1, RemovedDecided DEF IInv, DecidedLate
    <2>2. ASSUME NEW t \in Terms, sessions[registered][t] \in running \ running'
          PROVE  \/ Exit(sessions[registered][t])
                 \/ registered \in late /\ registered' = 0
                 \/ \E c \in Conns : Close(c) /\ call[c].g = registered /\ call[c].t = t
                 \/ \E c \in Conns : /\ Clean(c) /\ tg[c] = registered
                                     /\ t \in tclosed[c] /\ ~tp[c]
      <3>1. ShellsOf(registered) # {}
        <4>1. sessions[registered][t] # 0
          BY <1>1, <2>2 DEF IInv, TypeOK
        <4> QED BY <4>1 DEF ShellsOf
      <3> QED BY <1>1, <2>1, <2>2, <3>1, ShellLost DEF IInv
    <2> QED BY <2>1, <2>2
  <1> QED BY <1>1, InitInv, NextInv, PTL DEF Spec, PersistentSurvives

----------------------------------------------------------------------------
(***************************************************************************)
(* The output buffer, for any sizes and any output that usize can count.   *)
(***************************************************************************)

\* A set of natural numbers has a least one: what every induction below rests on.
LEMMA LeastNat ==
    ASSUME NEW S \in SUBSET Nat, S # {}
    PROVE  \E m \in S : \A n \in S : m <= n
<1>1. PICK m \in S : \A n \in S : ~(<<n, m>> \in OpToRel(<, Nat))
    BY NatLessThanWellFounded, WFMin
<1>2. \A n \in S : m <= n
    <2> SUFFICES ASSUME NEW n \in S, ~(m <= n) PROVE FALSE
        OBVIOUS
    <2>1. n \in Nat /\ m \in Nat /\ n < m
        OBVIOUS
    <2>2. <<n, m>> \in OpToRel(<, Nat)
        BY <2>1 DEF OpToRel
    <2> QED
        BY <1>1, <2>2
<1> QED
    BY <1>2

----------------------------------------------------------------------------
(* The bytes of a sequence of lines.                                       *)

\* A line of any length.
Piece == [len : Nat, nl : BOOLEAN]

\* The partial sums of s up to its k-th line.
Sums(s, k) == {f \in [0 .. k -> Nat] : f[0] = 0 /\ \A n \in 1 .. k : f[n] = f[n - 1] + s[n].len}

\* Partial sums exist up to every length; by the least one without.
LEMMA SumsExist ==
    ASSUME NEW s \in Seq(Piece), NEW l \in 0 .. Len(s)
    PROVE  Sums(s, l) # {}
<1> DEFINE B == {k \in 0 .. Len(s) : Sums(s, k) = {}}
<1> SUFFICES ASSUME B # {} PROVE FALSE
    OBVIOUS
<1>1. PICK k \in B : \A n \in B : k <= n
    <2>1. B \in SUBSET Nat
        OBVIOUS
    <2> HIDE DEF B
    <2> QED
        BY <2>1, LeastNat
<1>2. CASE k = 0
    <2>1. [n \in 0 .. 0 |-> 0] \in Sums(s, 0)
        BY DEF Sums
    <2> QED
        BY <1>1, <1>2, <2>1
<1>3. CASE k # 0
    <2>1. k - 1 \in 0 .. Len(s) /\ k - 1 \notin B /\ k \in 1 .. Len(s)
        <3>1. k \in 0 .. Len(s) /\ Len(s) \in Nat
            BY <1>1
        <3>2. k - 1 \in 0 .. Len(s) /\ k \in 1 .. Len(s) /\ ~(k <= k - 1)
            BY <1>3, <3>1
        <3> HIDE DEF B
        <3> QED
            BY <1>1, <3>2
    <2>2. PICK f \in Sums(s, k - 1) : TRUE
        BY <2>1
    <2>3. f \in [0 .. (k - 1) -> Nat] /\ f[0] = 0 /\ \A n \in 1 .. (k - 1) : f[n] = f[n - 1] + s[n].len
        BY <2>2 DEF Sums
    <2>4. s[k].len \in Nat /\ f[k - 1] \in Nat
        <3>1. s[k] \in Piece
            BY <2>1, ElementOfSeq
        <3> QED
            BY <2>1, <2>3, <3>1 DEF Piece
    <2>5. PICK g : g = [n \in 0 .. k |-> IF n = k THEN f[k - 1] + s[k].len ELSE f[n]]
        OBVIOUS
    <2>6. g \in [0 .. k -> Nat]
        BY <2>1, <2>3, <2>4, <2>5
    <2>7. g[0] = 0
        BY <2>1, <2>3, <2>5
    <2>8. ASSUME NEW n \in 1 .. k PROVE g[n] = g[n - 1] + s[n].len
        <3>1. n - 1 \in 0 .. k /\ n - 1 # k /\ n \in 0 .. k /\ n # 0
            BY <2>1
        <3>2. g[n - 1] = f[n - 1] /\ g[n] = IF n = k THEN f[k - 1] + s[k].len ELSE f[n]
            BY <2>5, <3>1
        <3>3. CASE n = k
            BY <3>2, <3>3
        <3>4. CASE n # k
            <4>1. n \in 1 .. (k - 1)
                BY <2>1, <3>4
            <4> QED
                BY <2>3, <3>2, <3>4, <4>1
        <3> QED
            BY <3>3, <3>4
    <2>9. g \in Sums(s, k)
        BY <2>6, <2>7, <2>8 DEF Sums
    <2> QED
        BY <1>1, <2>9
<1> QED
    BY <1>2, <1>3

\* Partial sums are determined by the lines they sum up.
LEMMA SumsUnique ==
    ASSUME NEW k \in Nat, NEW s, NEW t, \A n \in 1 .. k : s[n] = t[n],
           NEW f \in Sums(s, k), NEW g \in Sums(t, k)
    PROVE  \A n \in 0 .. k : f[n] = g[n]
<1> DEFINE B == {n \in 0 .. k : f[n] # g[n]}
<1> SUFFICES ASSUME B # {} PROVE FALSE
    OBVIOUS
<1>1. PICK n \in B : \A m \in B : n <= m
    <2>1. B \in SUBSET Nat
        OBVIOUS
    <2> HIDE DEF B
    <2> QED
        BY <2>1, LeastNat
<1>2. n # 0
    BY <1>1 DEF Sums
<1>3. n - 1 \in 0 .. k /\ n \in 1 .. k /\ n - 1 \notin B
    <2>1. n \in 0 .. k
        BY <1>1
    <2>2. n - 1 \in 0 .. k /\ n \in 1 .. k /\ ~(n <= n - 1)
        BY <1>2, <2>1
    <2> HIDE DEF B
    <2> QED
        BY <1>1, <2>2
<1>4. f[n - 1] = g[n - 1]
    BY <1>3
<1>5. f[n] = f[n - 1] + s[n].len /\ g[n] = g[n - 1] + t[n].len /\ s[n] = t[n]
    BY <1>3 DEF Sums
<1> QED
    BY <1>1, <1>4, <1>5

\* Bytes is the last partial sum.
LEMMA BytesIsSum ==
    ASSUME NEW s \in Seq(Piece)
    PROVE  \E f \in Sums(s, Len(s)) : Bytes(s) = f[Len(s)] /\ Bytes(s) \in Nat
<1> DEFINE Eq(f) == f = [n \in 0 .. Len(s) |-> IF n = 0 THEN 0 ELSE f[n - 1] + s[n].len]
<1>1. Len(s) \in Nat
    OBVIOUS
<1>2. PICK f \in Sums(s, Len(s)) : TRUE
    BY <1>1, SumsExist
<1>3. f \in [0 .. Len(s) -> Nat] /\ f[0] = 0 /\ \A n \in 1 .. Len(s) : f[n] = f[n - 1] + s[n].len
    BY <1>2 DEF Sums
<1>4. \A n \in 0 .. Len(s) : f[n] = IF n = 0 THEN 0 ELSE f[n - 1] + s[n].len
    BY <1>1, <1>3
<1>5. Eq(f)
    BY <1>3, <1>4
<1>6. PICK sum : sum = CHOOSE g : Eq(g)
    OBVIOUS
<1>7. Eq(sum)
    BY <1>5, <1>6
<1>8. \A n \in 0 .. Len(s) : sum[n] = IF n = 0 THEN 0 ELSE sum[n - 1] + s[n].len
    BY <1>7
<1>9. \A n \in 0 .. Len(s) : sum[n] = f[n]
    <2> DEFINE B == {n \in 0 .. Len(s) : sum[n] # f[n]}
    <2> SUFFICES ASSUME B # {} PROVE FALSE
        OBVIOUS
    <2>1. PICK n \in B : \A m \in B : n <= m
        <3>1. B \in SUBSET Nat
            OBVIOUS
        <3> HIDE DEF B
        <3> QED
            BY <3>1, LeastNat
    <2>2. n # 0
        BY <1>4, <1>8, <2>1
    <2>3. n - 1 \in 0 .. Len(s) /\ n - 1 \notin B
        <3>1. n \in 0 .. Len(s)
            BY <2>1
        <3>2. n - 1 \in 0 .. Len(s) /\ ~(n <= n - 1)
            BY <1>1, <2>2, <3>1
        <3> HIDE DEF B
        <3> QED
            BY <2>1, <3>2
    <2> QED
        BY <1>4, <1>8, <2>1, <2>2, <2>3
<1>10. Bytes(s) = sum[Len(s)]
    BY <1>6 DEF Bytes
<1>11. Bytes(s) = f[Len(s)] /\ Bytes(s) \in Nat
    BY <1>1, <1>3, <1>9, <1>10
<1> QED
    BY <1>2, <1>11

\* No line, no bytes.
LEMMA BytesEmpty == Bytes(<<>>) = 0
<1>1. <<>> \in Seq(Piece) /\ Len(<<>>) = 0
    OBVIOUS
<1>2. PICK f \in Sums(<<>>, Len(<<>>)) : Bytes(<<>>) = f[Len(<<>>)]
    BY <1>1, BytesIsSum
<1> QED
    BY <1>1, <1>2 DEF Sums

\* A line more, its length more.
LEMMA BytesAppend ==
    ASSUME NEW s \in Seq(Piece), NEW l \in Piece
    PROVE  Bytes(Append(s, l)) = Bytes(s) + l.len /\ Bytes(s) \in Nat
<1>1. PICK k \in Nat : k = Len(s)
    OBVIOUS
<1>2. PICK t : t = Append(s, l)
    OBVIOUS
<1>3. t \in Seq(Piece) /\ Len(t) = k + 1 /\ t[k + 1] = l /\ \A n \in 1 .. k : s[n] = t[n]
    BY <1>1, <1>2, AppendProperties
<1>4. PICK f \in Sums(s, k) : Bytes(s) = f[k] /\ Bytes(s) \in Nat
    BY <1>1, BytesIsSum
<1>5. PICK g \in Sums(t, k + 1) : Bytes(t) = g[k + 1]
    BY <1>3, BytesIsSum
<1>6. /\ g \in [0 .. (k + 1) -> Nat] /\ g[0] = 0
      /\ \A n \in 1 .. (k + 1) : g[n] = g[n - 1] + t[n].len
    BY <1>5 DEF Sums
<1>7. PICK h : h = [n \in 0 .. k |-> g[n]]
    OBVIOUS
<1>8. h \in Sums(t, k)
    <2>1. h \in [0 .. k -> Nat] /\ h[0] = 0 /\ h[k] = g[k]
        BY <1>6, <1>7
    <2>2. ASSUME NEW n \in 1 .. k PROVE h[n] = h[n - 1] + t[n].len
        <3>1. n \in 0 .. k /\ n - 1 \in 0 .. k /\ n \in 1 .. (k + 1)
            OBVIOUS
        <3> QED
            BY <1>6, <1>7, <3>1
    <2> QED
        BY <2>1, <2>2 DEF Sums
<1>9. f[k] = h[k]
    BY <1>3, <1>4, <1>8, SumsUnique
<1>10. h[k] = g[k] /\ g[k + 1] = g[k] + t[k + 1].len
    <2>1. k \in 0 .. k /\ k + 1 \in 1 .. (k + 1) /\ k + 1 - 1 = k
        OBVIOUS
    <2> QED
        BY <1>6, <1>7, <2>1
<1> QED
    BY <1>2, <1>3, <1>4, <1>5, <1>9, <1>10

\* The bytes of two pieces of output after each other.
LEMMA BytesConcat ==
    ASSUME NEW a \in Seq(Piece), NEW b \in Seq(Piece)
    PROVE  Bytes(a \o b) = Bytes(a) + Bytes(b)
<1> DEFINE B == {k \in 0 .. Len(b) :
                   Bytes(a \o SubSeq(b, 1, k)) # Bytes(a) + Bytes(SubSeq(b, 1, k))}
<1>1. Len(b) \in 0 .. Len(b) /\ SubSeq(b, 1, Len(b)) = b
    BY SubSeqFull
<1>2. SUFFICES ASSUME B # {} PROVE FALSE
    BY <1>1
<1>3. PICK k \in B : \A n \in B : k <= n
    <2>1. B \in SUBSET Nat
        OBVIOUS
    <2> HIDE DEF B
    <2> QED
        BY <1>2, <2>1, LeastNat
<1>4. k \in 0 .. Len(b)
    BY <1>3
<1>5. CASE k = 0
    <2>1. SubSeq(b, 1, 0) = <<>> /\ a \o <<>> = a
        BY SubSeqEmpty, ConcatEmptySeq
    <2>2. Bytes(a) \in Nat
        BY BytesIsSum
    <2>3. Bytes(a \o SubSeq(b, 1, k)) = Bytes(a) + Bytes(SubSeq(b, 1, k))
        <3>1. Bytes(a \o SubSeq(b, 1, k)) = Bytes(a)
            BY <1>5, <2>1, Zenon
        <3>2. Bytes(SubSeq(b, 1, k)) = 0
            BY <1>5, <2>1, BytesEmpty, Zenon
        <3> QED
            BY <2>2, <3>1, <3>2
    <2> QED
        BY <1>3, <2>3
<1>6. CASE k # 0
    <2>1. k - 1 \in 0 .. Len(b) /\ k \in 1 .. Len(b) /\ ~(k <= k - 1)
        BY <1>4, <1>6
    <2>2. k - 1 \notin B
        <3> HIDE DEF B
        <3> QED
            BY <1>3, <2>1
    <2>3. PICK c \in Seq(Piece) : c = SubSeq(b, 1, k - 1)
        <3>1. \A i \in 1 .. (k - 1) : b[i] \in Piece
            BY <2>1, ElementOfSeq
        <3>2. 1 \in Int /\ k - 1 \in Int
            BY <2>1
        <3> QED
            BY <3>1, <3>2, SubSeqProperties
    <2>4. PICK l \in Piece : l = b[k]
        BY <2>1, ElementOfSeq
    <2>5. SubSeq(b, 1, k) = c \o <<l>>
        <3>1. 1 \in 1 .. Len(b)
            BY <2>1
        <3> QED
            BY <2>1, <2>3, <2>4, <3>1, SubSeqRecursiveSecond
    <2>6. Bytes(a \o c) = Bytes(a) + Bytes(c)
        BY <2>1, <2>2, <2>3
    <2>7. <<l>> \in Seq(Piece) /\ a \o c \in Seq(Piece)
        OBVIOUS
    <2>8. a \o (c \o <<l>>) = (a \o c) \o <<l>>
        BY <2>7, ConcatAssociative
    <2>9. (a \o c) \o <<l>> = Append(a \o c, l) /\ c \o <<l>> = Append(c, l)
        BY <2>7, AppendIsConcat
    <2>10. Bytes(Append(a \o c, l)) = Bytes(a \o c) + l.len /\ Bytes(Append(c, l)) = Bytes(c) + l.len
        BY <2>7, BytesAppend
    <2>11. Bytes(a) \in Nat /\ Bytes(c) \in Nat /\ l.len \in Nat
        BY BytesIsSum DEF Piece
    <2>12. Bytes(a \o SubSeq(b, 1, k)) = Bytes(a) + Bytes(SubSeq(b, 1, k))
        <3>1. Bytes(a \o (c \o <<l>>)) = Bytes(a \o c) + l.len
            BY <2>8, <2>9, <2>10
        <3>2. Bytes(c \o <<l>>) = Bytes(c) + l.len
            BY <2>9, <2>10
        <3> QED
            <4>1. Bytes(a \o SubSeq(b, 1, k)) = Bytes(a \o c) + l.len
                BY <2>5, <3>1, Zenon
            <4>2. Bytes(SubSeq(b, 1, k)) = Bytes(c) + l.len
                BY <2>5, <3>2, Zenon
            <4> QED
                BY <2>6, <2>11, <4>1, <4>2
    <2> QED
        BY <1>3, <2>12
<1> QED
    BY <1>5, <1>6

\* One line, and two.
LEMMA BytesOfOne ==
    ASSUME NEW l \in Piece
    PROVE  Bytes(<<l>>) = l.len
<1>1. <<>> \in Seq(Piece) /\ Append(<<>>, l) = <<l>>
    OBVIOUS
<1>2. Bytes(<<l>>) = Bytes(<<>>) + l.len
    BY <1>1, BytesAppend
<1> QED
    BY <1>2, BytesEmpty DEF Piece

\* Lines removed from the front and those that remain.
LEMMA BytesSplit ==
    ASSUME NEW s \in Seq(Piece), NEW n \in 0 .. Len(s)
    PROVE  /\ SubSeq(s, 1, n) \in Seq(Piece) /\ SubSeq(s, n + 1, Len(s)) \in Seq(Piece)
           /\ Bytes(s) = Bytes(SubSeq(s, 1, n)) + Bytes(SubSeq(s, n + 1, Len(s)))
<1>1. Len(s) \in Nat
    OBVIOUS
<1>2. \A i \in 1 .. n : s[i] \in Piece
    BY <1>1, ElementOfSeq
<1>3. \A i \in (n + 1) .. Len(s) : s[i] \in Piece
    BY <1>1, ElementOfSeq
<1>4. 1 \in Int /\ n \in Int /\ n + 1 \in Int /\ Len(s) \in Int
    BY <1>1
<1>5. SubSeq(s, 1, n) \in Seq(Piece) /\ SubSeq(s, n + 1, Len(s)) \in Seq(Piece)
    BY <1>2, <1>3, <1>4, SubSeqProperties
<1>6. SubSeq(s, 1, n) \o SubSeq(s, n + 1, Len(s)) = SubSeq(s, 1, Len(s))
    <2>1. 1 \in 1 .. Len(s) + 1 /\ n \in 1 - 1 .. Len(s) /\ Len(s) \in n .. Len(s)
        BY <1>1
    <2> QED
        BY <2>1, ConcatAdjacentSubSeq
<1> QED
    BY <1>5, <1>6, SubSeqFull, BytesConcat

----------------------------------------------------------------------------
(* Lines, and what one read may hold.                                      *)

\* The sizes are numbers, a read fits into the buffer, and a word counts all output.
LEMMA Sizes ==
    /\ MaxSize \in Nat \ {0} /\ MaxLines \in Nat \ {0} /\ ChunkSize \in Nat \ {0}
    /\ WordSize \in Nat \ {0} /\ MaxOutput \in Nat \ {0}
    /\ ChunkSize < MaxSize /\ MaxSize + MaxOutput < WordSize
    BY BufferAssumption

\* Lines are pieces.
LEMMA LinesArePieces == Seq(Line) \subseteq Seq(Piece)
<1>1. Line \subseteq Piece
    BY Sizes DEF Line, Piece
<1> QED
    BY <1>1, SeqMonotonic

\* The first line and the others.
LEMMA BytesHeadTail ==
    ASSUME NEW s \in Seq(Piece), s # <<>>
    PROVE  Tail(s) \in Seq(Piece) /\ Bytes(s) = s[1].len + Bytes(Tail(s)) /\ s[1] \in Piece
<1>1. Len(s) \in Nat /\ 1 \in 1 .. Len(s) /\ 1 \in 0 .. Len(s)
    OBVIOUS
<1>2. s[1] \in Piece
    BY <1>1, ElementOfSeq
<1>3. SubSeq(s, 1, 1) = <<s[1]>>
    <2>1. SubSeq(s, 1, 1) = SubSeq(s, 1, 0) \o <<s[1]>>
        BY <1>1, SubSeqRecursiveSecond
    <2>2. SubSeq(s, 1, 0) = <<>>
        BY SubSeqEmpty
    <2>3. <<s[1]>> \in Seq(Piece)
        BY <1>2
    <2> QED
        BY <2>1, <2>2, <2>3, ConcatEmptySeq
<1>4. Tail(s) = SubSeq(s, 1 + 1, Len(s))
    BY TailIsSubSeq
<1>5. /\ SubSeq(s, 1 + 1, Len(s)) \in Seq(Piece)
      /\ Bytes(s) = Bytes(SubSeq(s, 1, 1)) + Bytes(SubSeq(s, 1 + 1, Len(s)))
    BY <1>1, BytesSplit
<1>6. Bytes(<<s[1]>>) = s[1].len
    BY <1>2, BytesOfOne
<1>7. Tail(s) \in Seq(Piece) /\ Bytes(s) = Bytes(<<s[1]>>) + Bytes(Tail(s))
    BY <1>3, <1>4, <1>5, Zenon
<1> QED
    BY <1>2, <1>6, <1>7, Zenon

\* One read holds a line or two, none longer than the read.
LEMMA ChunkShape ==
    ASSUME NEW data \in Chunks
    PROVE  /\ data \in Seq(Piece) /\ Len(data) \in {1, 2}
           /\ \A i \in 1 .. Len(data) : data[i].len \in 1 .. ChunkSize /\ data[i].nl \in BOOLEAN
           /\ Len(data) = 2 => data[1].nl
<1>1. CASE data \in {<<[len |-> n, nl |-> e]>> : n \in 1 .. ChunkSize, e \in BOOLEAN}
    <2>1. PICK n \in 1 .. ChunkSize, e \in BOOLEAN : data = <<[len |-> n, nl |-> e]>>
        BY <1>1
    <2>2. PICK l : l = [len |-> n, nl |-> e]
        OBVIOUS
    <2>3. l \in Piece /\ l.len \in 1 .. ChunkSize /\ l.nl \in BOOLEAN
        BY <2>2, Sizes DEF Piece
    <2>4. data = <<l>>
        BY <2>1, <2>2
    <2> QED
        BY <2>3, <2>4
<1>2. CASE data \in {<<[len |-> m, nl |-> TRUE], [len |-> n, nl |-> e]>> :
                      m \in 1 .. ChunkSize, n \in 1 .. ChunkSize, e \in BOOLEAN}
    <2>1. PICK m \in 1 .. ChunkSize, n \in 1 .. ChunkSize, e \in BOOLEAN :
                data = <<[len |-> m, nl |-> TRUE], [len |-> n, nl |-> e]>>
        BY <1>2
    <2>2. PICK k, l : k = [len |-> m, nl |-> TRUE] /\ l = [len |-> n, nl |-> e]
        OBVIOUS
    <2>3. /\ k \in Piece /\ k.len \in 1 .. ChunkSize /\ k.nl
          /\ l \in Piece /\ l.len \in 1 .. ChunkSize /\ l.nl \in BOOLEAN
        BY <2>2, Sizes DEF Piece
    <2>4. data = <<k, l>>
        BY <2>1, <2>2
    <2>5. data \in Seq(Piece) /\ Len(data) = 2 /\ data[1] = k /\ data[2] = l
        BY <2>3, <2>4
    <2>6. k.nl = TRUE
        BY <2>2
    <2>7. \A i \in 1 .. 2 : data[i].len \in 1 .. ChunkSize /\ data[i].nl \in BOOLEAN
        <3>1. \A i \in 1 .. 2 : i = 1 \/ i = 2
            OBVIOUS
        <3> QED
            BY <2>3, <2>5, <2>6, <3>1
    <2> QED
        BY <2>5, <2>6, <2>7
<1> QED
    BY <1>1, <1>2 DEF Chunks

\* A line is no longer than all of them.
LEMMA LineInBytes ==
    ASSUME NEW s \in Seq(Piece), NEW i \in 1 .. Len(s)
    PROVE  s[i].len <= Bytes(s) /\ s[i] \in Piece
<1>1. i \in Nat /\ i >= 1 /\ i <= Len(s) /\ Len(s) \in Nat
    OBVIOUS
<1>2. i \in 0 .. Len(s) /\ i - 1 \in 0 .. Len(s) /\ 1 \in 1 .. Len(s) /\ i \in 1 .. Len(s)
    BY <1>1
<1>3. s[i] \in Piece
    BY <1>2, ElementOfSeq
<1>4. PICK a \in Seq(Piece) : a = SubSeq(s, 1, i - 1)
    BY <1>2, BytesSplit
<1>5. PICK b \in Seq(Piece) : b = SubSeq(s, 1, i)
    BY <1>2, BytesSplit
<1>6. PICK c \in Seq(Piece) : c = SubSeq(s, i + 1, Len(s))
    BY <1>2, BytesSplit
<1>7. b = a \o <<s[i]>>
    BY <1>2, <1>4, <1>5, SubSeqRecursiveSecond
<1>8. Bytes(b) = Bytes(a) + s[i].len
    <2>1. a \o <<s[i]>> = Append(a, s[i])
        BY <1>3, AppendIsConcat
    <2> QED
        BY <1>3, <1>7, <2>1, BytesAppend
<1>9. Bytes(s) = Bytes(b) + Bytes(c)
    BY <1>2, <1>5, <1>6, BytesSplit
<1>10. Bytes(a) \in Nat /\ Bytes(c) \in Nat /\ s[i].len \in Nat
    BY <1>3, BytesIsSum DEF Piece
<1> QED
    BY <1>3, <1>8, <1>9, <1>10

\* Pieces that are not empty and not too long in all are lines.
LEMMA PiecesAreLines ==
    ASSUME NEW s \in Seq(Piece), Bytes(s) <= MaxOutput, \A i \in 1 .. Len(s) : s[i].len >= 1
    PROVE  s \in Seq(Line)
<1>1. ASSUME NEW i \in 1 .. Len(s) PROVE s[i] \in Line
    <2>1. s[i].len <= Bytes(s) /\ s[i] \in Piece /\ s[i].len >= 1
        BY LineInBytes
    <2>2. Bytes(s) \in Nat
        BY BytesIsSum
    <2> QED
        BY <2>1, <2>2, Sizes DEF Piece, Line
<1> QED
    BY <1>1

\* append_to_last: the last line is longer, and ends as the piece does.
LEMMA ExtendKeeps ==
    ASSUME NEW s \in Seq(Piece), s # <<>>, NEW l \in Piece
    PROVE  /\ Extend(s, l) \in Seq(Piece) /\ Len(Extend(s, l)) = Len(s)
           /\ Bytes(Extend(s, l)) = Bytes(s) + l.len
           /\ \A i \in 1 .. Len(s) :
                 /\ Extend(s, l)[i].len >= s[i].len
                 /\ Extend(s, l)[i].nl = IF i = Len(s) THEN l.nl ELSE s[i].nl
<1>1. PICK c \in Seq(Piece), e \in Piece : s = Append(c, e)
    BY SequenceEmptyOrAppend
<1>2. PICK k \in Nat : k = Len(c)
    OBVIOUS
<1>3. Len(s) = k + 1 /\ s[k + 1] = e /\ \A i \in 1 .. k : s[i] = c[i]
    BY <1>1, <1>2, AppendProperties
<1>4. PICK x : x = [len |-> e.len + l.len, nl |-> l.nl]
    OBVIOUS
<1>5. x \in Piece /\ x.len = e.len + l.len /\ e.len \in Nat /\ l.len \in Nat
    BY <1>4 DEF Piece
<1>6. Extend(s, l) = [s EXCEPT ![k + 1] = x]
    BY <1>3, <1>4 DEF Extend
<1>7. k + 1 \in 1 .. Len(s)
    BY <1>3
<1>8. PICK t : t = [s EXCEPT ![k + 1] = x]
    OBVIOUS
<1>9. /\ t \in Seq(Piece) /\ Len(t) = k + 1
      /\ \A i \in 1 .. (k + 1) : t[i] = IF i = k + 1 THEN x ELSE s[i]
    BY <1>3, <1>5, <1>7, <1>8, ExceptSeq
<1>10. PICK u : u = Append(c, x)
    OBVIOUS
<1>11. u \in Seq(Piece) /\ Len(u) = k + 1 /\ u[k + 1] = x /\ \A i \in 1 .. k : u[i] = c[i]
    BY <1>2, <1>5, <1>10, AppendProperties
<1>12. t = u
    <2>1. ASSUME NEW i \in 1 .. (k + 1) PROVE t[i] = u[i]
        <3>1. CASE i = k + 1
            BY <1>9, <1>11, <3>1
        <3>2. CASE i # k + 1
            <4>1. i \in 1 .. k
                BY <3>2
            <4> QED
                BY <1>3, <1>9, <1>11, <3>2, <4>1
        <3> QED
            BY <3>1, <3>2
    <2> QED
        BY <1>9, <1>11, <2>1, SeqEqual
<1>13. Bytes(u) = Bytes(c) + x.len /\ Bytes(s) = Bytes(c) + e.len /\ Bytes(c) \in Nat
    BY <1>1, <1>5, <1>10, BytesAppend
<1>14. Bytes(Extend(s, l)) = Bytes(u)
    BY <1>6, <1>8, <1>12, Zenon
<1>15. Bytes(Extend(s, l)) = Bytes(s) + l.len
    BY <1>5, <1>13, <1>14
<1>16. ASSUME NEW i \in 1 .. (k + 1)
       PROVE  t[i].len >= s[i].len /\ t[i].nl = IF i = k + 1 THEN l.nl ELSE s[i].nl
    <2>1. s[i] \in Piece /\ s[i].len \in Nat
        <3>1. s[i] \in Piece
            BY <1>3, ElementOfSeq
        <3> QED
            BY <3>1 DEF Piece
    <2>2. CASE i = k + 1
        <3>1. t[i] = x /\ s[i] = e
            BY <1>3, <1>9, <2>2
        <3> QED
            BY <1>4, <1>5, <2>2, <3>1
    <2>3. CASE i # k + 1
        <3>1. t[i] = s[i]
            BY <1>9, <2>3
        <3> QED
            BY <2>1, <2>3, <3>1
    <2> QED
        BY <2>2, <2>3
<1>17. Extend(s, l) = t
    BY <1>6, <1>8
<1> QED
    BY <1>3, <1>9, <1>15, <1>16, <1>17

----------------------------------------------------------------------------
(* Trimming.                                                               *)

\* Remainders of what is less than two words.
LEMMA Wraps ==
    ASSUME NEW x \in Nat, x < WordSize + WordSize
    PROVE  x % WordSize = IF x < WordSize THEN x ELSE x - WordSize
    BY Sizes

\* What total_size is worth, for the bytes b of a buffer and the uncounted bytes.
Worth(b, missed) == (b + WordSize - missed) % WordSize

\* The size the loop of append comes to is what the lines that remain are worth: its
\* subtractions keep the error.
LEMMA SizeAfterIs ==
    ASSUME NEW s \in Seq(Piece), Bytes(s) <= MaxOutput, NEW missed \in 0 .. MaxOutput,
           NEW n \in 0 .. Len(s), NEW size, size = Worth(Bytes(s), missed)
    PROVE  SizeAfter(size, s, n) = Worth(Bytes(SubSeq(s, n + 1, Len(s))), missed)
<1>1. PICK a \in Seq(Piece) : a = SubSeq(s, 1, n)
    BY BytesSplit
<1>2. PICK b \in Seq(Piece) : b = SubSeq(s, n + 1, Len(s))
    BY BytesSplit
<1>3. Bytes(s) = Bytes(a) + Bytes(b)
    BY <1>1, <1>2, BytesSplit
<1>4. PICK p \in Nat : p = Bytes(a)
    BY BytesIsSum
<1>5. PICK q \in Nat : q = Bytes(b)
    BY BytesIsSum
<1>6. p + q <= MaxOutput /\ p < WordSize /\ p % WordSize = p
    <2>1. p + q <= MaxOutput
        BY <1>3, <1>4, <1>5
    <2>2. p < WordSize
        BY <2>1, Sizes
    <2>3. p < WordSize + WordSize
        BY <2>2, Sizes
    <2> QED
        BY <2>1, <2>2, <2>3, Wraps
<1>7. PICK x \in Nat : x = p + q + WordSize - missed /\ x < WordSize + WordSize
    BY <1>6, Sizes
<1>8. PICK y \in Nat : y = q + WordSize - missed /\ y < WordSize + WordSize /\ x = y + p
    BY <1>6, <1>7, Sizes
<1>9. size = x % WordSize
    BY <1>3, <1>4, <1>5, <1>7 DEF Worth
<1>10. SizeAfter(size, s, n) = (size + WordSize - p) % WordSize
    BY <1>1, <1>4, <1>6 DEF SizeAfter
<1>11. Worth(Bytes(b), missed) = y % WordSize
    BY <1>5, <1>8 DEF Worth
<1>12. CASE x < WordSize
    <2>1. size = x /\ y < WordSize
        <3>1. x % WordSize = x
            BY <1>7, <1>12, Wraps
        <3>2. y < WordSize
            BY <1>8, <1>12, Sizes
        <3> QED
            BY <1>9, <3>1, <3>2
    <2>2. size + WordSize - p = y + WordSize
        BY <1>8, <2>1, Sizes
    <2>3. y % WordSize = y /\ (y + WordSize) % WordSize = y
        <3>1. PICK z \in Nat : z = y + WordSize
            BY Sizes
        <3>2. z < WordSize + WordSize /\ ~(z < WordSize) /\ z - WordSize = y
            BY <2>1, <3>1, Sizes
        <3>3. z % WordSize = y
            BY <3>2, Wraps
        <3>4. y % WordSize = y
            BY <1>8, <2>1, Wraps
        <3> QED
            BY <3>1, <3>3, <3>4
    <2> QED
        BY <1>2, <1>10, <1>11, <2>2, <2>3
<1>13. CASE ~(x < WordSize)
    <2>1. size = x - WordSize
        BY <1>7, <1>9, <1>13, Wraps
    <2>2. size + WordSize - p = y
        BY <1>7, <1>8, <2>1, Sizes
    <2> QED
        BY <1>2, <1>10, <1>11, <2>2
<1> QED
    BY <1>12, <1>13

\* Trimming keeps a rest of the lines, within their number, and the worth of their
\* size.  Where it takes all of them and ends, nothing was ever uncounted and the last
\* line alone exceeds the size.
LEMMA TrimKeeps ==
    ASSUME NEW s \in Seq(Line), s # <<>>, Bytes(s) <= MaxOutput, NEW missed \in 0 .. MaxOutput,
           NEW size, size = Worth(Bytes(s), missed), Trim(s, size)
    PROVE  /\ \E n \in 0 .. Len(s) :
                 /\ lines' = SubSeq(s, n + 1, Len(s))
                 /\ Len(s) - n <= MaxLines
                 /\ total_size' = Worth(Bytes(SubSeq(s, n + 1, Len(s))), missed)
                 /\ n = Len(s) /\ ~hung' => missed = 0 /\ s[Len(s)].len > MaxSize
           /\ hung' \in BOOLEAN
<1> DEFINE enough == {n \in 0 .. Len(s) : Len(s) - n <= MaxLines /\ SizeAfter(size, s, n) <= MaxSize}
<1>1. s \in Seq(Piece)
    BY LinesArePieces
<1>2. PICK l \in Nat : l = Len(s) /\ l >= 1
    <2>1. Len(s) \in Nat /\ Len(s) >= 1
        OBVIOUS
    <2> QED
        BY <2>1
<1>3. \A n \in 0 .. l : SizeAfter(size, s, n) = Worth(Bytes(SubSeq(s, n + 1, Len(s))), missed)
    BY <1>1, <1>2, SizeAfterIs
<1>4. CASE enough = {}
    <2>1. lines' = SubSeq(s, Len(s) + 1, Len(s)) /\ total_size' = SizeAfter(size, s, Len(s)) /\ hung' = TRUE
        BY <1>4 DEF Trim
    <2>2. l \in 0 .. Len(s) /\ Len(s) - l <= MaxLines
        BY <1>2, Sizes
    <2> QED
        BY <1>2, <1>3, <2>1, <2>2
<1>5. CASE enough # {}
    <2>1. PICK n : n = CHOOSE k \in enough : \A m \in enough : k <= m
        OBVIOUS
    <2>2. n \in enough /\ \A m \in enough : n <= m
        <3>1. enough \in SUBSET Nat
            BY <1>2
        <3>2. \E k \in enough : \A m \in enough : k <= m
            <4> HIDE DEF enough
            <4> QED
                BY <1>5, <3>1, LeastNat
        <3> HIDE DEF enough
        <3> QED
            BY <2>1, <3>2
    <2>3. lines' = SubSeq(s, n + 1, Len(s)) /\ total_size' = SizeAfter(size, s, n) /\ hung' = FALSE
        BY <1>5, <2>1 DEF Trim
    <2>4. n \in 0 .. Len(s) /\ Len(s) - n <= MaxLines /\ SizeAfter(size, s, n) <= MaxSize
        BY <2>2
    <2>5. total_size' = Worth(Bytes(SubSeq(s, n + 1, Len(s))), missed)
        BY <1>2, <1>3, <2>3, <2>4
    <2>6. ASSUME n = Len(s) PROVE missed = 0 /\ s[Len(s)].len > MaxSize
        <3>1. SubSeq(s, n + 1, Len(s)) = <<>>
            BY <1>2, <2>6, SubSeqEmpty
        <3>2. Bytes(SubSeq(s, n + 1, Len(s))) = 0
            BY <3>1, BytesEmpty
        <3>3. (WordSize - missed) % WordSize <= MaxSize
            <4>1. Worth(0, missed) <= MaxSize
                BY <1>2, <1>3, <2>4, <2>6, <3>2
            <4>2. 0 + WordSize - missed = WordSize - missed
                BY Sizes
            <4> QED
                BY <4>1, <4>2 DEF Worth
        <3>4. missed = 0
            <4>1. WordSize - missed \in Nat /\ WordSize - missed < WordSize + WordSize
                BY Sizes
            <4>2. (WordSize - missed) % WordSize =
                        IF WordSize - missed < WordSize THEN WordSize - missed
                        ELSE WordSize - missed - WordSize
                BY <4>1, Wraps
            <4> QED
                BY <3>3, <4>1, <4>2, Sizes
        <3>5. l - 1 \in 0 .. Len(s) /\ Len(s) - (l - 1) <= MaxLines /\ l - 1 + 1 = l /\ ~(n <= l - 1)
            BY <1>2, <2>6, Sizes
        <3>6. l - 1 \notin enough
            <4> HIDE DEF enough
            <4> QED
                BY <2>2, <3>5
        <3>7. ~(SizeAfter(size, s, l - 1) <= MaxSize)
            BY <3>5, <3>6
        <3>8. SizeAfter(size, s, l - 1) = Worth(Bytes(SubSeq(s, l, Len(s))), 0)
            BY <1>2, <1>3, <3>4, <3>5
        <3>9. SubSeq(s, l, Len(s)) = <<s[l]>>
            <4>1. l \in 1 .. Len(s) /\ l \in l .. Len(s) /\ Len(s) \in l .. Len(s)
                BY <1>2
            <4>2. SubSeq(s, l, Len(s)) = SubSeq(s, l, Len(s) - 1) \o <<s[Len(s)]>>
                BY <1>1, <4>1, SubSeqRecursiveSecond
            <4>3. SubSeq(s, l, Len(s) - 1) = <<>>
                BY <1>2, SubSeqEmpty
            <4>4. <<s[l]>> \in Seq(Piece)
                BY <1>1, <4>1, ElementOfSeq
            <4> QED
                BY <1>2, <4>2, <4>3, <4>4, ConcatEmptySeq
        <3>10. s[l] \in Piece /\ s[l].len <= Bytes(s)
            BY <1>1, <1>2, LineInBytes
        <3>11. PICK b \in Nat : b = s[l].len /\ b <= MaxOutput
            <4>1. Bytes(s) \in Nat /\ s[l].len \in Nat
                BY <1>1, <3>10, BytesIsSum DEF Piece
            <4> QED
                BY <3>10, <4>1, Sizes
        <3>12. Bytes(SubSeq(s, l, Len(s))) = b
            BY <3>9, <3>10, <3>11, BytesOfOne
        <3>13. (b + WordSize - 0) % WordSize = b
            <4>1. b + WordSize \in Nat /\ b + WordSize < WordSize + WordSize /\ ~(b + WordSize < WordSize)
                BY <3>11, Sizes
            <4> QED
                BY <3>11, <4>1, Wraps, Sizes
        <3>14. ~(b <= MaxSize)
            BY <3>7, <3>8, <3>12, <3>13 DEF Worth
        <3> QED
            BY <1>2, <3>4, <3>11, <3>14, Sizes
    <2> QED
        BY <2>3, <2>4, <2>5, <2>6
<1> QED
    BY <1>4, <1>5

----------------------------------------------------------------------------
(* The invariant.                                                          *)

\* What append never loses: the buffer holds no more than was written, and no more is
\* uncounted than was written.
Counted == Bytes(lines) <= output /\ uncounted <= output

BInv == BufferTypeOK /\ LinesWhole /\ SizeDrift /\ Counted

\* All lines of s but the last end with a newline.
WholeBut(s) == \A i \in 1 .. Len(s) - 1 : s[i].nl

\* A new buffer is empty.
LEMMA BufferInitHolds == BufferInit => BInv
<1> SUFFICES ASSUME BufferInit PROVE BInv
    OBVIOUS
<1>1. lines \in Seq(Line) /\ Len(lines) = 0 /\ Bytes(lines) = 0
    BY BytesEmpty DEF BufferInit
<1>2. BufferTypeOK
    <2>1. 0 <= MaxLines /\ 0 \in 0 .. WordSize - 1 /\ 0 \in 0 .. MaxOutput
        BY Sizes
    <2> QED
        BY <1>1, <2>1 DEF BufferInit, BufferTypeOK
<1>3. LinesWhole
    BY <1>1 DEF BufferInit, LinesWhole
<1>4. SizeDrift
    <2>1. WordSize \in Nat /\ WordSize < WordSize + WordSize
        BY Sizes
    <2>2. WordSize % WordSize = 0
        BY <2>1, Wraps
    <2> QED
        BY <1>1, <2>1, <2>2 DEF BufferInit, SizeDrift
<1>5. Counted
    BY <1>1 DEF BufferInit, Counted
<1> QED
    BY <1>2, <1>3, <1>4, <1>5 DEF BInv

\* Trimming lines that are whole but for the last one, whose size is worth what it
\* should be and whose last line is about to be right: what it leaves is right.  The
\* last line is never trimmed away, for it is either short or came with an uncounted
\* part.
LEMMA TrimmedKeeps ==
    ASSUME NEW s \in Seq(Line), s # <<>>, WholeBut(s),
           NEW written \in 0 .. MaxOutput, Bytes(s) <= written, output' = written,
           uncounted' \in 0 .. written, incomplete' \in BOOLEAN,
           NEW size, size = Worth(Bytes(s), uncounted'), Trim(s, size),
           incomplete' <=> ~ s[Len(s)].nl,
           uncounted' = 0 => s[Len(s)].len <= MaxSize
    PROVE  BInv'
<1>1. PICK missed : missed = uncounted'
    OBVIOUS
<1>2. missed \in 0 .. written /\ missed \in 0 .. MaxOutput
    BY <1>1, Sizes
<1>3. Bytes(s) \in Nat /\ Bytes(s) <= MaxOutput /\ s \in Seq(Piece)
    <2>1. s \in Seq(Piece)
        BY LinesArePieces
    <2>2. Bytes(s) \in Nat
        BY <2>1, BytesIsSum
    <2> QED
        BY <2>1, <2>2, Sizes
<1>4. size = Worth(Bytes(s), missed)
    BY <1>1
<1>5. PICK n \in 0 .. Len(s) :
            /\ lines' = SubSeq(s, n + 1, Len(s))
            /\ Len(s) - n <= MaxLines
            /\ total_size' = Worth(Bytes(SubSeq(s, n + 1, Len(s))), missed)
            /\ n = Len(s) /\ ~hung' => missed = 0 /\ s[Len(s)].len > MaxSize
    BY <1>2, <1>3, <1>4, TrimKeeps
<1>6. hung' \in BOOLEAN
    BY <1>2, <1>3, <1>4, TrimKeeps
<1>7. PICK l \in Nat : l = Len(s) /\ l >= 1 /\ n \in Nat /\ n <= l
    <2>1. Len(s) \in Nat /\ Len(s) >= 1
        OBVIOUS
    <2> QED
        BY <2>1
<1>8. PICK r : r = SubSeq(s, n + 1, l)
    OBVIOUS
<1>9. r \in Seq(Line) /\ Len(r) = l - n /\ \A i \in 1 .. (l - n) : r[i] = s[n + i]
    <2>1. \A i \in (n + 1) .. l : s[i] \in Line
        BY <1>7, ElementOfSeq
    <2>2. n + 1 \in Int /\ l \in Int
        BY <1>7
    <2>3. /\ SubSeq(s, n + 1, l) \in Seq(Line)
          /\ Len(SubSeq(s, n + 1, l)) = IF n + 1 <= l THEN l - (n + 1) + 1 ELSE 0
          /\ \A i \in 1 .. (l - (n + 1) + 1) : SubSeq(s, n + 1, l)[i] = s[(n + 1) + i - 1]
        BY <2>1, <2>2, SubSeqProperties
    <2> QED
        BY <1>7, <1>8, <2>3
<1>10. Bytes(r) \in Nat /\ Bytes(r) <= Bytes(s)
    <2>1. Bytes(s) = Bytes(SubSeq(s, 1, n)) + Bytes(r)
        BY <1>3, <1>7, <1>8, BytesSplit
    <2>2. r \in Seq(Piece) /\ SubSeq(s, 1, n) \in Seq(Piece)
        BY <1>3, <1>7, <1>8, BytesSplit
    <2>3. Bytes(r) \in Nat /\ Bytes(SubSeq(s, 1, n)) \in Nat
        BY <2>2, BytesIsSum
    <2> QED
        BY <2>1, <2>3
<1>11. lines' = r /\ total_size' = Worth(Bytes(r), missed)
    BY <1>5, <1>7, <1>8
<1>12. SizeDrift'
    BY <1>1, <1>11 DEF SizeDrift, Worth
<1>13. BufferTypeOK'
    <2>1. total_size' \in 0 .. WordSize - 1
        <3>1. PICK x \in Nat : x = Bytes(r) + WordSize - missed
            BY <1>2, <1>10, Sizes
        <3>2. x % WordSize \in 0 .. WordSize - 1
            BY Sizes
        <3> QED
            BY <1>11, <3>1, <3>2 DEF Worth
    <2>2. Len(r) <= MaxLines
        BY <1>5, <1>7, <1>9
    <2> QED
        BY <1>1, <1>2, <1>6, <1>9, <1>11, <2>1, <2>2 DEF BufferTypeOK
<1>14. Counted'
    BY <1>1, <1>2, <1>3, <1>10, <1>11 DEF Counted
<1>15. LinesWhole'
    <2> SUFFICES ASSUME ~hung'
                 PROVE  /\ \A i \in 1 .. Len(r) - 1 : r[i].nl
                        /\ incomplete' <=> (r # <<>> /\ ~Last(r).nl)
        BY <1>11 DEF LinesWhole
    <2>1. n < l
        <3>1. s[l].len \in Nat
            <4>1. s[l] \in Line
                BY <1>7, ElementOfSeq
            <4> QED
                BY <4>1, Sizes DEF Line
        <3> QED
            BY <1>1, <1>5, <1>7, <3>1, Sizes
    <2>2. r # <<>> /\ Len(r) >= 1 /\ Last(r) = s[l]
        <3>1. Len(r) >= 1 /\ l - n \in 1 .. (l - n) /\ n + (l - n) = l
            BY <1>7, <1>9, <2>1
        <3>2. r[l - n] = s[l]
            BY <1>9, <3>1
        <3> QED
            BY <1>9, <3>1, <3>2 DEF Last
    <2>3. ASSUME NEW i \in 1 .. Len(r) - 1 PROVE r[i].nl
        <3>1. i \in 1 .. (l - n) /\ n + i \in 1 .. l - 1
            BY <1>7, <1>9
        <3> QED
            BY <1>7, <1>9, <3>1 DEF WholeBut
    <2> QED
        BY <1>7, <2>2, <2>3
<1> QED
    BY <1>12, <1>13, <1>14, <1>15 DEF BInv

----------------------------------------------------------------------------
(* The steps.                                                              *)

\* What append is given, and what it is worth.
LEMMA ChunkFacts ==
    ASSUME NEW data \in Chunks
    PROVE  /\ data # <<>> /\ data \in Seq(Piece) /\ Len(data) \in {1, 2}
           /\ data[1] \in Piece /\ data[1].len >= 1 /\ Tail(data) \in Seq(Piece)
           /\ Len(Tail(data)) = Len(data) - 1 /\ (Len(data) = 1 => Tail(data) = <<>>)
           /\ \A i \in 1 .. Len(Tail(data)) : Tail(data)[i] = data[i + 1]
           /\ Bytes(data) = data[1].len + Bytes(Tail(data))
           /\ Bytes(data) \in Nat /\ Bytes(Tail(data)) \in Nat /\ data[1].len \in Nat
<1>1. /\ data \in Seq(Piece) /\ Len(data) \in {1, 2}
      /\ \A i \in 1 .. Len(data) : data[i].len \in 1 .. ChunkSize
    BY ChunkShape
<1>2. data # <<>> /\ 1 \in 1 .. Len(data)
    BY <1>1
<1>3. data[1].len \in 1 .. ChunkSize
    BY <1>1, <1>2
<1>4. Tail(data) \in Seq(Piece) /\ Bytes(data) = data[1].len + Bytes(Tail(data)) /\ data[1] \in Piece
    BY <1>1, <1>2, BytesHeadTail
<1>5. Len(Tail(data)) = Len(data) - 1 /\ \A i \in 1 .. Len(Tail(data)) : Tail(data)[i] = data[i + 1]
    BY <1>1, <1>2, HeadTailProperties
<1>6. Bytes(data) \in Nat /\ Bytes(Tail(data)) \in Nat
    BY <1>1, <1>4, BytesIsSum
<1>7. Len(data) = 1 => Tail(data) = <<>>
    <2>1. PICK t : t = Tail(data)
        OBVIOUS
    <2>2. t \in Seq(Piece) /\ Len(t) = Len(data) - 1
        BY <1>4, <1>5, <2>1, Zenon
    <2>3. Len(data) = 1 => t = <<>>
        BY <1>1, <2>2
    <2> QED
        BY <2>1, <2>3
<1> QED
    BY <1>1, <1>2, <1>3, <1>4, <1>5, <1>6, <1>7, Sizes

\* Adding to total_size adds to its worth.
LEMMA WorthAdds ==
    ASSUME NEW b \in Nat, NEW c \in Nat, b + c <= MaxOutput, NEW missed \in 0 .. MaxOutput
    PROVE  (Worth(b, missed) + c) % WordSize = Worth(b + c, missed)
<1>1. PICK x \in Nat : x = b + WordSize - missed /\ x < WordSize + WordSize
    BY Sizes
<1>2. PICK y \in Nat : y = b + c + WordSize - missed /\ y < WordSize + WordSize /\ y = x + c
    BY <1>1, Sizes
<1>3. Worth(b, missed) = x % WordSize /\ Worth(b + c, missed) = y % WordSize
    BY <1>1, <1>2 DEF Worth
<1>4. CASE x < WordSize
    <2>1. x % WordSize = x
        BY <1>1, <1>4, Wraps
    <2> QED
        BY <1>2, <1>3, <2>1
<1>5. CASE ~(x < WordSize)
    <2>1. x % WordSize = x - WordSize
        BY <1>1, <1>5, Wraps
    <2>2. PICK z \in Nat : z = x - WordSize + c /\ z < WordSize /\ z = y - WordSize /\ ~(y < WordSize)
        BY <1>1, <1>2, <1>5, Sizes
    <2>3. z % WordSize = z
        BY <2>2, Sizes, Wraps
    <2>4. y % WordSize = z
        BY <1>2, <2>2, Wraps
    <2> QED
        BY <1>3, <2>1, <2>2, <2>3, <2>4
<1> QED
    BY <1>4, <1>5

\* The invariant in the terms of the steps.
LEMMA BInvFacts ==
    ASSUME BInv, ~hung, NEW data \in Chunks, output + Bytes(data) <= MaxOutput,
           output' = output + Bytes(data)
    PROVE  /\ lines \in Seq(Piece) /\ Bytes(lines) \in Nat /\ uncounted \in Nat /\ output \in Nat
           /\ Bytes(lines) <= output /\ uncounted <= output
           /\ output' \in 0 .. MaxOutput /\ uncounted \in 0 .. MaxOutput
           /\ \A i \in 1 .. Len(lines) : lines[i].len >= 1
           /\ WholeBut(lines)
           /\ incomplete <=> (lines # <<>> /\ ~ lines[Len(lines)].nl)
           /\ total_size = Worth(Bytes(lines), uncounted)
<1>1. lines \in Seq(Line) /\ output \in 0 .. MaxOutput /\ uncounted \in 0 .. MaxOutput
    BY DEF BInv, BufferTypeOK
<1>2. lines \in Seq(Piece)
    BY <1>1, LinesArePieces
<1>3. Bytes(lines) \in Nat /\ Bytes(data) \in Nat
    BY <1>2, BytesIsSum, ChunkFacts
<1>4. \A i \in 1 .. Len(lines) : lines[i].len >= 1
    <2>1. \A i \in 1 .. Len(lines) : lines[i] \in Line
        BY <1>1, ElementOfSeq
    <2> QED
        BY <2>1 DEF Line
<1>5. WholeBut(lines) /\ (incomplete <=> (lines # <<>> /\ ~ lines[Len(lines)].nl))
    BY DEF BInv, LinesWhole, WholeBut, Last
<1>6. total_size = Worth(Bytes(lines), uncounted)
    BY DEF BInv, SizeDrift, Worth
<1>7. Bytes(lines) <= output /\ uncounted <= output
    BY DEF BInv, Counted
<1>8. output' \in 0 .. MaxOutput
    BY <1>1, <1>3, Sizes
<1> QED
    BY <1>1, <1>2, <1>3, <1>4, <1>5, <1>6, <1>7, <1>8

\* A part of a line: the last line grows and is counted, and nothing is trimmed.
LEMMA AppendPartKeeps ==
    ASSUME BInv, ~hung, NEW data \in Chunks, output + Bytes(data) <= MaxOutput,
           output' = output + Bytes(data), AppendPart(data)
    PROVE  BInv'
<1>1. /\ Bytes(lines) \in Nat /\ uncounted \in Nat /\ output \in Nat /\ Bytes(lines) <= output
      /\ uncounted <= output /\ output' \in 0 .. MaxOutput /\ uncounted \in 0 .. MaxOutput
      /\ total_size = Worth(Bytes(lines), uncounted)
    BY BInvFacts
<1>2. /\ lines \in Seq(Piece) /\ WholeBut(lines)
      /\ \A i \in 1 .. Len(lines) : lines[i].len >= 1
    BY BInvFacts
<1>3. lines # <<>> /\ incomplete /\ ~ data[1].nl /\ Len(data) = 1
    BY DEF AppendPart
<1>4. PICK c \in Nat : c = data[1].len /\ Bytes(data) = c
    <2>1. Tail(data) = <<>> /\ Bytes(data) = data[1].len + Bytes(Tail(data)) /\ data[1].len \in Nat
        BY <1>3, ChunkFacts
    <2>2. Bytes(Tail(data)) = 0
        BY <2>1, BytesEmpty
    <2> QED
        BY <2>1, <2>2
<1>5. PICK s : s = Extend(lines, data[1])
    OBVIOUS
<1>6. data[1] \in Piece
    BY ChunkFacts
<1>7. s \in Seq(Piece) /\ Len(s) = Len(lines) /\ Bytes(s) = Bytes(lines) + c
    <2>1. /\ Extend(lines, data[1]) \in Seq(Piece) /\ Len(Extend(lines, data[1])) = Len(lines)
          /\ Bytes(Extend(lines, data[1])) = Bytes(lines) + data[1].len
        BY <1>2, <1>3, <1>6, ExtendKeeps
    <2> QED
        BY <1>4, <1>5, <2>1, Zenon
<1>8. \A i \in 1 .. Len(lines) :
            s[i].len >= lines[i].len /\ s[i].nl = IF i = Len(lines) THEN data[1].nl ELSE lines[i].nl
    BY <1>2, <1>3, <1>5, <1>6, ExtendKeeps
<1>9. PICK l \in Nat : l = Len(lines) /\ l >= 1
    <2>1. Len(lines) \in Nat /\ Len(lines) >= 1
        BY <1>2, <1>3
    <2> QED
        BY <2>1
<1>10. \A i \in 1 .. Len(s) : s[i].len >= 1
    <2> SUFFICES ASSUME NEW i \in 1 .. l PROVE s[i].len >= 1
        BY <1>7, <1>9
    <2>1. lines[i] \in Piece /\ s[i] \in Piece /\ lines[i].len >= 1 /\ s[i].len >= lines[i].len
        BY <1>2, <1>7, <1>8, <1>9, ElementOfSeq
    <2>2. lines[i].len \in Nat /\ s[i].len \in Nat
        BY <2>1 DEF Piece
    <2> QED
        BY <2>1, <2>2
<1>11. Bytes(s) <= output' /\ Bytes(s) <= MaxOutput /\ Bytes(s) \in Nat /\ uncounted <= output'
    <2>1. output' = output + c
        BY <1>4
    <2>2. PICK b \in Nat : b = Bytes(lines)
        BY <1>1
    <2>3. PICK o \in Nat : o = output /\ o + c \in 0 .. MaxOutput /\ b <= o /\ uncounted <= o
        BY <1>1, <2>1, <2>2
    <2>4. b + c <= o + c /\ b + c <= MaxOutput /\ b + c \in Nat /\ uncounted <= o + c
        BY <1>1, <2>3, Sizes
    <2> QED
        BY <1>7, <2>1, <2>2, <2>3, <2>4
<1>12. s \in Seq(Line)
    BY <1>7, <1>10, <1>11, PiecesAreLines
<1>13. lines' = s /\ total_size' = (total_size + c) % WordSize
    BY <1>4, <1>5 DEF AppendPart
<1>14. total_size' = Worth(Bytes(s), uncounted)
    <2>1. (Worth(Bytes(lines), uncounted) + c) % WordSize = Worth(Bytes(lines) + c, uncounted)
        BY <1>1, <1>7, <1>11, WorthAdds
    <2> QED
        BY <1>1, <1>7, <1>13, <2>1
<1>15. SizeDrift'
    BY <1>13, <1>14 DEF SizeDrift, Worth, AppendPart
<1>16. BufferTypeOK'
    <2>1. total_size' \in 0 .. WordSize - 1
        <3>1. PICK x \in Nat : x = Bytes(s) + WordSize - uncounted
            BY <1>1, <1>11, Sizes
        <3>2. x % WordSize \in 0 .. WordSize - 1
            BY Sizes
        <3> QED
            BY <1>14, <3>1, <3>2 DEF Worth
    <2>2. Len(s) <= MaxLines /\ incomplete \in BOOLEAN /\ hung \in BOOLEAN
        BY <1>7 DEF BInv, BufferTypeOK
    <2> QED
        BY <1>1, <1>12, <1>13, <2>1, <2>2 DEF BufferTypeOK, AppendPart
<1>17. Counted'
    BY <1>11, <1>13 DEF Counted, AppendPart
<1>18. LinesWhole'
    <2>1. \A i \in 1 .. l - 1 : s[i].nl
        <3> SUFFICES ASSUME NEW i \in 1 .. l - 1 PROVE s[i].nl
            OBVIOUS
        <3>1. i \in 1 .. l /\ i # l /\ lines[i].nl
            BY <1>2, <1>9 DEF WholeBut
        <3> QED
            BY <1>8, <1>9, <3>1
    <2>2. l \in 1 .. l
        BY <1>9
    <2>3. s # <<>> /\ Last(s) = s[l] /\ s[l].nl = data[1].nl
        BY <1>7, <1>8, <1>9, <2>2 DEF Last
    <2> QED
        BY <1>3, <1>7, <1>9, <1>13, <2>1, <2>3 DEF LinesWhole, AppendPart
<1> QED
    BY <1>15, <1>16, <1>17, <1>18 DEF BInv

\* Lines put after each other.
LEMMA JoinKeeps ==
    ASSUME NEW a \in Seq(Piece), NEW b \in Seq(Piece), a # <<>> \/ b # <<>>,
           Bytes(a) + Bytes(b) <= MaxOutput,
           \A i \in 1 .. Len(a) : a[i].len >= 1, \A i \in 1 .. Len(b) : b[i].len >= 1,
           WholeBut(a), WholeBut(b), (a # <<>> /\ b # <<>>) => a[Len(a)].nl
    PROVE  /\ a \o b \in Seq(Line) /\ a \o b # <<>> /\ WholeBut(a \o b)
           /\ Bytes(a \o b) = Bytes(a) + Bytes(b)
           /\ (a \o b)[Len(a \o b)] = IF b = <<>> THEN a[Len(a)] ELSE b[Len(b)]
<1>1. PICK k \in Nat : k = Len(a)
    OBVIOUS
<1>2. PICK l \in Nat : l = Len(b)
    OBVIOUS
<1>3. PICK s : s = a \o b
    OBVIOUS
<1>4. /\ s \in Seq(Piece) /\ Len(s) = k + l
      /\ \A i \in 1 .. (k + l) : s[i] = IF i <= k THEN a[i] ELSE b[i - k]
    BY <1>1, <1>2, <1>3, ConcatProperties
<1>5. Bytes(s) = Bytes(a) + Bytes(b)
    BY <1>3, BytesConcat
<1>6. ASSUME NEW i \in 1 .. (k + l)
      PROVE  \/ i \in 1 .. k /\ s[i] = a[i]
             \/ ~(i <= k) /\ i - k \in 1 .. l /\ s[i] = b[i - k]
    <2>1. i <= k \/ i - k \in 1 .. l
        OBVIOUS
    <2> QED
        BY <1>4, <2>1
<1>7. \A i \in 1 .. Len(s) : s[i].len >= 1
    BY <1>1, <1>2, <1>4, <1>6
<1>8. s \in Seq(Line)
    BY <1>4, <1>5, <1>7, PiecesAreLines
<1>9. k = 0 <=> a = <<>>
    BY <1>1
<1>10. l = 0 <=> b = <<>>
    BY <1>2
<1>11. k + l >= 1 /\ s # <<>>
    BY <1>4, <1>9, <1>10
<1>12. WholeBut(s)
    <2> SUFFICES ASSUME NEW i \in 1 .. (k + l) - 1 PROVE s[i].nl
        BY <1>4 DEF WholeBut
    <2>1. i \in 1 .. (k + l)
        OBVIOUS
    <2>2. CASE i \in 1 .. k /\ s[i] = a[i]
        <3>1. CASE i = k
            <4>1. l # 0 /\ k # 0
                BY <2>2, <3>1
            <4> QED
                BY <1>1, <1>9, <1>10, <2>2, <3>1, <4>1
        <3>2. CASE i # k
            <4>1. i \in 1 .. k - 1
                BY <2>2, <3>2
            <4> QED
                BY <1>1, <2>2, <4>1 DEF WholeBut
        <3> QED
            BY <3>1, <3>2
    <2>3. CASE ~(i <= k) /\ i - k \in 1 .. l /\ s[i] = b[i - k]
        <3>1. i - k \in 1 .. l - 1
            BY <2>3
        <3> QED
            BY <1>2, <2>3, <3>1 DEF WholeBut
    <2> QED
        BY <1>6, <2>1, <2>2, <2>3
<1>13. s[k + l] = IF b = <<>> THEN a[Len(a)] ELSE b[Len(b)]
    <2>1. k + l \in 1 .. (k + l)
        BY <1>11
    <2>2. CASE b = <<>>
        <3>1. l = 0 /\ k + l <= k /\ k + l = k
            BY <1>10, <2>2
        <3> QED
            BY <1>1, <1>4, <2>1, <2>2, <3>1
    <2>3. CASE b # <<>>
        <3>1. ~(k + l <= k) /\ (k + l) - k = l
            BY <1>10, <2>3
        <3> QED
            BY <1>2, <1>4, <2>1, <2>3, <3>1
    <2> QED
        BY <2>2, <2>3
<1> QED
    BY <1>3, <1>4, <1>5, <1>8, <1>11, <1>12, <1>13

\* What was read is whole but for its last line, and so is the rest of it.
LEMMA ChunkWhole ==
    ASSUME NEW data \in Chunks
    PROVE  /\ WholeBut(data) /\ WholeBut(Tail(data))
           /\ \A i \in 1 .. Len(data) : data[i].len >= 1
           /\ \A i \in 1 .. Len(Tail(data)) : Tail(data)[i].len >= 1
           /\ data[Len(data)].len <= MaxSize /\ data[1].nl \in BOOLEAN /\ data[Len(data)].nl \in BOOLEAN
<1>1. /\ Len(data) \in {1, 2} /\ (Len(data) = 2 => data[1].nl)
      /\ \A i \in 1 .. Len(data) : data[i].len \in 1 .. ChunkSize /\ data[i].nl \in BOOLEAN
    BY ChunkShape
<1>2. Len(Tail(data)) = Len(data) - 1 /\ \A i \in 1 .. Len(Tail(data)) : Tail(data)[i] = data[i + 1]
    BY ChunkFacts
<1>3. WholeBut(data)
    BY <1>1 DEF WholeBut
<1>4. WholeBut(Tail(data))
    BY <1>1, <1>2 DEF WholeBut
<1>5. \A i \in 1 .. Len(Tail(data)) : Tail(data)[i].len >= 1
    <2> SUFFICES ASSUME NEW i \in 1 .. Len(Tail(data)) PROVE Tail(data)[i].len >= 1
        OBVIOUS
    <2>1. i + 1 \in 1 .. Len(data) /\ Tail(data)[i] = data[i + 1]
        BY <1>1, <1>2
    <2> QED
        BY <1>1, <2>1
<1>6. 1 \in 1 .. Len(data) /\ Len(data) \in 1 .. Len(data)
    BY <1>1
<1>7. data[Len(data)].len <= MaxSize
    BY <1>1, <1>6, Sizes
<1> QED
    BY <1>1, <1>3, <1>4, <1>5, <1>6, <1>7

\* append that completes the last line.
LEMMA AppendEndKeeps ==
    ASSUME BInv, ~hung, NEW data \in Chunks, output + Bytes(data) <= MaxOutput,
           output' = output + Bytes(data), AppendEnd(data)
    PROVE  BInv'
<1>1. /\ Bytes(lines) \in Nat /\ uncounted \in Nat /\ output \in Nat /\ Bytes(lines) <= output
      /\ uncounted <= output /\ output' \in 0 .. MaxOutput /\ uncounted \in 0 .. MaxOutput
      /\ total_size = Worth(Bytes(lines), uncounted)
    BY BInvFacts
<1>2. /\ lines \in Seq(Piece) /\ WholeBut(lines)
      /\ \A i \in 1 .. Len(lines) : lines[i].len >= 1
    BY BInvFacts
<1>3. /\ lines # <<>> /\ data[1].nl /\ uncounted' = uncounted + data[1].len
      /\ incomplete' = (Len(data) > 1 /\ ~Last(data).nl)
      /\ Trim(Extend(lines, data[1]) \o Tail(data), (total_size + Bytes(Tail(data))) % WordSize)
    BY DEF AppendEnd
<1>4. /\ data # <<>> /\ data[1] \in Piece /\ data[1].len >= 1 /\ Tail(data) \in Seq(Piece)
      /\ Len(Tail(data)) = Len(data) - 1 /\ (Len(data) = 1 => Tail(data) = <<>>)
      /\ \A i \in 1 .. Len(Tail(data)) : Tail(data)[i] = data[i + 1]
    BY ChunkFacts
<1>5. PICK c \in Nat : c = data[1].len /\ c >= 1
    BY ChunkFacts
<1>6. PICK t \in Seq(Piece) : /\ t = Tail(data) /\ Len(t) = Len(data) - 1 /\ (Len(data) = 1 => t = <<>>)
                              /\ \A i \in 1 .. Len(t) : t[i] = data[i + 1]
    BY <1>4, Zenon
<1>7. PICK d \in Nat : d = Bytes(t) /\ Bytes(data) = c + d
    BY <1>5, <1>6, ChunkFacts
<1>8. PICK e : e = Extend(lines, data[1])
    OBVIOUS
<1>9. e \in Seq(Piece) /\ Len(e) = Len(lines) /\ Bytes(e) = Bytes(lines) + c
    <2>1. /\ Extend(lines, data[1]) \in Seq(Piece) /\ Len(Extend(lines, data[1])) = Len(lines)
          /\ Bytes(Extend(lines, data[1])) = Bytes(lines) + data[1].len
        BY <1>2, <1>3, <1>4, ExtendKeeps
    <2> QED
        BY <1>5, <1>8, <2>1, Zenon
<1>10. \A i \in 1 .. Len(lines) :
            e[i].len >= lines[i].len /\ e[i].nl = IF i = Len(lines) THEN data[1].nl ELSE lines[i].nl
    BY ZenonT(30), <1>2, <1>3, <1>4, <1>8, ExtendKeeps
<1>11. PICK l \in Nat : l = Len(lines) /\ l >= 1
    <2>1. Len(lines) \in Nat /\ Len(lines) >= 1
        BY <1>2, <1>3
    <2> QED
        BY <2>1
<1>12. \A i \in 1 .. Len(e) : e[i].len >= 1
    <2> SUFFICES ASSUME NEW i \in 1 .. l PROVE e[i].len >= 1
        BY <1>9, <1>11
    <2>1. lines[i] \in Piece /\ e[i] \in Piece /\ lines[i].len >= 1 /\ e[i].len >= lines[i].len
        BY <1>2, <1>9, <1>10, <1>11, ElementOfSeq
    <2>2. lines[i].len \in Nat /\ e[i].len \in Nat
        BY <2>1 DEF Piece
    <2> QED
        BY <2>1, <2>2
<1>13. WholeBut(e) /\ e # <<>> /\ e[Len(e)].nl = data[1].nl
    <2>1. \A i \in 1 .. l - 1 : e[i].nl
        <3> SUFFICES ASSUME NEW i \in 1 .. l - 1 PROVE e[i].nl
            OBVIOUS
        <3>1. i \in 1 .. l /\ i # l /\ lines[i].nl
            BY <1>2, <1>11 DEF WholeBut
        <3> QED
            BY <1>10, <1>11, <3>1
    <2>2. l \in 1 .. l
        BY <1>11
    <2>3. e # <<>> /\ e[l].nl = data[1].nl
        BY <1>9, <1>10, <1>11, <2>2
    <2> QED
        BY <1>9, <1>11, <2>1, <2>3 DEF WholeBut
<1>14. PICK b \in Nat, m \in Nat, o \in Nat :
            /\ b = Bytes(lines) /\ m = uncounted /\ o = output /\ b <= o /\ m <= o
            /\ output' = o + c + d /\ o + c + d <= MaxOutput
    <2>1. output' = output + c + d
        BY <1>1, <1>7
    <2> QED
        BY <1>1, <2>1, Sizes
<1>15. Bytes(e) + Bytes(t) = b + c + d /\ Bytes(e) + Bytes(t) <= MaxOutput
    <2>1. Bytes(e) = b + c /\ Bytes(t) = d
        BY <1>7, <1>9, <1>14
    <2> QED
        BY <1>14, <2>1, Sizes
<1>16. PICK s : s = e \o t
    OBVIOUS
<1>17. WholeBut(t) /\ \A i \in 1 .. Len(t) : t[i].len >= 1
    BY <1>6, ChunkWhole
<1>18. /\ s \in Seq(Line) /\ s # <<>> /\ WholeBut(s) /\ Bytes(s) = b + c + d
       /\ s[Len(s)] = IF t = <<>> THEN e[Len(e)] ELSE t[Len(t)]
    BY <1>3, <1>9, <1>12, <1>13, <1>15, <1>16, <1>17, JoinKeeps
<1>19. PICK size : size = (total_size + d) % WordSize
    OBVIOUS
<1>20. Trim(s, size)
    BY <1>3, <1>6, <1>7, <1>8, <1>16, <1>19, Zenon
<1>21. uncounted' = m + c /\ m + c \in 1 .. o + c + d
    <2>1. uncounted' = m + c
        BY <1>3, <1>5, <1>14
    <2>2. m + c \in 1 .. o + c + d
        BY SMTT(30), <1>5, <1>14
    <2> QED
        BY <2>1, <2>2
<1>22. size = Worth(b + c + d, m + c)
    <2>1. (Worth(b, m) + d) % WordSize = Worth(b + d, m)
        <3>1. b + d <= MaxOutput /\ m \in 0 .. MaxOutput
            BY <1>14, Sizes
        <3> QED
            BY <3>1, WorthAdds
    <2>2. Worth(b + d, m) = Worth(b + c + d, m + c)
        <3>1. b + d + WordSize - m = b + c + d + WordSize - (m + c)
            BY Sizes
        <3> QED
            BY <3>1 DEF Worth
    <2> QED
        BY <1>1, <1>14, <1>19, <2>1, <2>2
<1>23. incomplete' \in BOOLEAN /\ (incomplete' <=> ~ s[Len(s)].nl)
    <2>1. Len(data) \in {1, 2}
        BY ChunkFacts
    <2>2. CASE Len(data) = 1
        <3>1. t = <<>> /\ incomplete' = FALSE
            <4>1. ~(Len(data) > 1)
                BY <2>2
            <4>2. incomplete' = FALSE
                BY <1>3, <4>1
            <4> QED
                BY <1>6, <2>2, <4>2, Zenon
        <3> QED
            BY <1>3, <1>13, <1>18, <3>1
    <2>3. CASE Len(data) = 2
        <3>1. Len(t) = 1 /\ t # <<>> /\ t[1] = data[2]
            <4>1. Len(t) = 1 /\ 1 \in 1 .. Len(t)
                BY SMTT(30), <1>6, <2>3
            <4>2. t[1] = data[1 + 1]
                BY <1>6, <4>1, Zenon
            <4> QED
                BY <4>1, <4>2
        <3>2. incomplete' = ~ data[2].nl
            BY <1>3, <2>3 DEF Last
        <3> QED
            BY <1>18, <3>1, <3>2
    <2> QED
        BY <2>1, <2>2, <2>3
<1>24. PICK w \in 0 .. MaxOutput : w = o + c + d /\ output' = w /\ Bytes(s) <= w /\ uncounted' \in 0 .. w
                                  /\ uncounted' # 0
    <2>1. o + c + d \in 0 .. MaxOutput /\ m + c # 0 /\ m + c \in 0 .. o + c + d
        BY <1>14, <1>21, Sizes
    <2>2. Bytes(s) <= o + c + d
        BY <1>14, <1>18
    <2> QED
        BY <1>14, <1>21, <2>1, <2>2
<1>25. size = Worth(Bytes(s), uncounted')
    BY <1>18, <1>21, <1>22
<1> QED
    BY <1>18, <1>20, <1>23, <1>24, <1>25, TrimmedKeeps

\* append after a complete line.
LEMMA AppendLinesKeeps ==
    ASSUME BInv, ~hung, NEW data \in Chunks, output + Bytes(data) <= MaxOutput,
           output' = output + Bytes(data), AppendLines(data)
    PROVE  BInv'
<1>1. /\ Bytes(lines) \in Nat /\ uncounted \in Nat /\ output \in Nat /\ Bytes(lines) <= output
      /\ uncounted <= output /\ output' \in 0 .. MaxOutput /\ uncounted \in 0 .. MaxOutput
      /\ total_size = Worth(Bytes(lines), uncounted)
    BY BInvFacts
<1>2. /\ lines \in Seq(Piece) /\ WholeBut(lines)
      /\ \A i \in 1 .. Len(lines) : lines[i].len >= 1
      /\ incomplete <=> (lines # <<>> /\ ~ lines[Len(lines)].nl)
    BY BInvFacts
<1>3. /\ ~incomplete \/ lines = <<>>
      /\ incomplete' = (incomplete \/ ~Last(data).nl)
      /\ Trim(lines \o data, (total_size + Bytes(data)) % WordSize) /\ uncounted' = uncounted
    BY DEF AppendLines
<1>4. ~incomplete /\ (lines # <<>> => lines[Len(lines)].nl)
    BY <1>2, <1>3
<1>5. data # <<>> /\ data \in Seq(Piece) /\ WholeBut(data)
      /\ \A i \in 1 .. Len(data) : data[i].len >= 1
    BY ChunkFacts, ChunkWhole
<1>6. PICK d \in Nat : d = Bytes(data)
    BY ChunkFacts
<1>7. PICK b \in Nat, m \in Nat, o \in Nat :
            /\ b = Bytes(lines) /\ m = uncounted /\ o = output /\ b <= o /\ m <= o
            /\ output' = o + d /\ o + d <= MaxOutput
    <2>1. output' = output + d
        BY <1>6
    <2> QED
        BY <1>1, <2>1, Sizes
<1>8. PICK s : s = lines \o data
    OBVIOUS
<1>9. Bytes(lines) + Bytes(data) = b + d /\ Bytes(lines) + Bytes(data) <= MaxOutput
    BY <1>6, <1>7, Sizes
<1>10. /\ s \in Seq(Line) /\ s # <<>> /\ WholeBut(s) /\ Bytes(s) = b + d
       /\ s[Len(s)] = data[Len(data)]
    BY <1>2, <1>4, <1>5, <1>8, <1>9, JoinKeeps
<1>11. PICK size : size = (total_size + d) % WordSize
    OBVIOUS
<1>12. Trim(s, size)
    BY <1>3, <1>6, <1>8, <1>11, Zenon
<1>13. size = Worth(b + d, m)
    <2>1. b + d <= MaxOutput /\ m \in 0 .. MaxOutput
        BY <1>7, Sizes
    <2> QED
        BY <1>1, <1>7, <1>11, <2>1, WorthAdds
<1>14. incomplete' \in BOOLEAN /\ (incomplete' <=> ~ s[Len(s)].nl)
    <2>1. incomplete' = ~ data[Len(data)].nl
        BY <1>3, <1>4, ChunkWhole DEF Last
    <2> QED
        BY <1>10, <2>1
<1>15. PICK w \in 0 .. MaxOutput : w = o + d /\ output' = w /\ Bytes(s) <= w /\ uncounted' \in 0 .. w
    BY <1>3, <1>7, <1>10, Sizes
<1>16. size = Worth(Bytes(s), uncounted')
    BY <1>3, <1>7, <1>10, <1>13
<1>17. s[Len(s)].len <= MaxSize
    BY <1>10, ChunkWhole
<1> QED
    BY <1>10, <1>12, <1>14, <1>15, <1>16, <1>17, TrimmedKeeps

\* Every append keeps the invariant.
LEMMA BufferNextKeeps == BInv /\ [BufferNext]_bufferVars => BInv'
<1> SUFFICES ASSUME BInv, [BufferNext]_bufferVars PROVE BInv'
    OBVIOUS
<1>1. ASSUME NEW data \in Chunks, AppendChunk(data) PROVE BInv'
    BY <1>1, AppendPartKeeps, AppendEndKeeps, AppendLinesKeeps DEF AppendChunk
<1>2. CASE UNCHANGED bufferVars
    BY <1>2 DEF BInv, bufferVars, BufferTypeOK, LinesWhole, SizeDrift, Counted, Bytes
<1> QED
    BY <1>1, <1>2 DEF BufferNext

\* The invariant holds in every state.
LEMMA BInvHolds == BufferSpec => []BInv
    BY BufferInitHolds, BufferNextKeeps, PTL DEF BufferSpec

\* The buffer holds lines, no more of them than MAX_BUFFER_LINES, and counts within a
\* word: for any sizes, and output in pieces of any shape.
THEOREM BufferTypeCorrect == BufferSpec => []BufferTypeOK
<1>1. BInv => BufferTypeOK
    BY DEF BInv
<1> QED
    BY <1>1, BInvHolds, PTL

\* last_line_incomplete tells the truth of the last line, and all others are whole,
\* however output is cut and trimmed.
THEOREM LinesWholeHolds == BufferSpec => []LinesWhole
<1>1. BInv => LinesWhole
    BY DEF BInv
<1> QED
    BY <1>1, BInvHolds, PTL

\* total_size is off by the bytes that ever completed a line, for good: what makes the
\* trimming loop run on an empty buffer in the end.
THEOREM SizeDriftHolds == BufferSpec => []SizeDrift
<1>1. BInv => SizeDrift
    BY DEF BInv
<1> QED
    BY <1>1, BInvHolds, PTL

=============================================================================
