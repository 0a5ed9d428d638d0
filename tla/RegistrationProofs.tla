------------------------- MODULE RegistrationProofs -------------------------
(***************************************************************************)
(* Proofs about Registration for any set of rendezvous servers, whatever   *)
(* ids they refuse and however many datagrams are in flight.               *)
(***************************************************************************)
EXTENDS Registration, FiniteSetTheorems, TLAPS

\* What is in flight can be counted.
Finite == \A h \in Hosts : IsFiniteSet(net[h])

\* The server has this machine under some id.
Holds(h) == held[h] # {}

\* Good news never outruns the fact: an answer that reports a registration,
\* or a task that has received one, means that the server holds this machine.
NewsTrue ==
    \A h \in Hosts :
        /\ Answer("known") \in net[h] => Holds(h)
        /\ Answer("OK") \in net[h] => Holds(h)
        /\ pc[h] \in {"ok_host", "ok_solved"} => Holds(h)

IInv == TypeOK /\ Finite /\ NewsTrue /\ RegisteredSound

Kinds == {"known", "request_pk", "OK", "UUID_MISMATCH"}

(* An answer is never taken for a request, nor for an answer of another    *)
(* kind.                                                                   *)
LEMMA AnswerFacts ==
    /\ \A k \in Kinds : Answer(k) \in Answers /\ Answer(k) \notin Requests
    /\ \A k, l \in Kinds : Answer(k) = Answer(l) => k = l
  <1>1. \A k : Answer(k).kind = k /\ Answer(k).id = 0
    BY DEF Answer
  <1>2. \A m \in Requests : m.id # 0
    BY BoundAssumption DEF Requests, Ids
  <1> QED BY <1>1, <1>2 DEF Kinds, Answers

(* What the server says is one of the four answers; it says "known" or     *)
(* "OK" only of a machine it holds, from this answer on at the latest.     *)
LEMMA ServerFacts ==
    ASSUME TypeOK, NEW h \in Hosts, NEW m \in Requests, Process(h, m)
    PROVE  /\ ServerAnswer(h, m) \in Kinds
           /\ held' \in [Hosts -> SUBSET Ids]
           /\ \A g \in Hosts : held[g] \subseteq held'[g]
           /\ ServerAnswer(h, m) \in {"known", "OK"} => held'[h] # {}
  <1>1. m.id \in Ids
    BY DEF Requests
  <1>2. held' = [held EXCEPT ![h] = IF ServerAnswer(h, m) = "OK" THEN @ \cup {m.id} ELSE @]
    BY DEF Process
  <1>3. ServerAnswer(h, m) \in Kinds
    BY DEF ServerAnswer, Kinds
  <1>4. ServerAnswer(h, m) = "known" => held[h] # {}
    BY DEF ServerAnswer
  <1> QED BY <1>1, <1>2, <1>3, <1>4 DEF TypeOK

(* The datagrams of one server after one is taken out, or replaced, or one *)
(* is added below the bound.                                               *)
LEMMA FlightFacts ==
    ASSUME NEW S, IsFiniteSet(S), Cardinality(S) <= MaxFlight, NEW m \in S, NEW a
    PROVE  /\ IsFiniteSet(S \ {m}) /\ Cardinality(S \ {m}) <= MaxFlight
           /\ IsFiniteSet((S \ {m}) \cup {a}) /\ Cardinality((S \ {m}) \cup {a}) <= MaxFlight
  <1>1. Cardinality(S) \in Nat
    BY FS_CardinalityType
  <1>2. IsFiniteSet(S \ {m}) /\ Cardinality(S \ {m}) = Cardinality(S) - 1
    BY FS_RemoveElement
  <1> DEFINE T == S \ {m}
  <1>3. IsFiniteSet(T) /\ Cardinality(T) = Cardinality(S) - 1
    BY <1>2
  <1> HIDE DEF T
  <1>4. /\ IsFiniteSet(T \cup {a})
        /\ Cardinality(T \cup {a}) = IF a \in T THEN Cardinality(T) ELSE Cardinality(T) + 1
    BY <1>3, FS_AddElement
  <1>5. Cardinality(T) <= MaxFlight /\ Cardinality(T \cup {a}) <= MaxFlight
    BY <1>1, <1>3, <1>4, BoundAssumption
  <1> QED BY <1>3, <1>4, <1>5 DEF T

(* A step that takes datagrams from one server's flight, and may put an    *)
(* answer in, keeps the flights in order.                                  *)
FlightOK(S) ==
    S \in SUBSET (Requests \cup Answers) /\ IsFiniteSet(S) /\ Cardinality(S) <= MaxFlight

\* Receiving takes one answer from what is in flight.
LEMMA ReceiveFacts ==
    ASSUME IInv, NEW h \in Hosts, NEW k \in Kinds, Receive(h, k)
    PROVE  /\ pc[h] = "select" /\ Answer(k) \in net[h]
           /\ net' \in [Hosts -> SUBSET (Requests \cup Answers)]
           /\ \A g \in Hosts : net'[g] \subseteq net[g] /\ FlightOK(net'[g])
  <1>1. net' = [net EXCEPT ![h] = @ \ {Answer(k)}] /\ pc[h] = "select" /\ Answer(k) \in net[h]
    BY DEF Receive
  <1>2. IsFiniteSet(net[h] \ {Answer(k)}) /\ Cardinality(net[h] \ {Answer(k)}) <= MaxFlight
    BY <1>1, FlightFacts DEF IInv, TypeOK, Finite
  <1> QED BY <1>1, <1>2 DEF IInv, TypeOK, Finite, FlightOK

\* The invariant holds at first.
LEMMA InitInv == Init => IInv
  <1> SUFFICES ASSUME Init PROVE IInv
    OBVIOUS
  <1> USE DEF Init
  <1>1. \A h \in Hosts : net[h] = {} /\ IsFiniteSet(net[h]) /\ Cardinality(net[h]) = 0
    BY FS_EmptySet
  <1>2. TypeOK
    <2>1. id \in Ids /\ rounds \in 0 .. MaxRounds
      BY BoundAssumption DEF Ids
    <2>2. held \in [Hosts -> SUBSET Ids]
      BY <2>1
    <2>3. net \in [Hosts -> SUBSET (Requests \cup Answers)]
      OBVIOUS
    <2>4. \A h \in Hosts : Cardinality(net[h]) <= MaxFlight
      BY <1>1, BoundAssumption
    <2> QED BY <2>1, <2>2, <2>3, <2>4 DEF TypeOK
  <1> QED BY <1>1, <1>2 DEF IInv, Finite, NewsTrue, RegisteredSound

\* Every step keeps the invariant.
LEMMA NextInv == IInv /\ [Next]_vars => IInv'
  <1> SUFFICES ASSUME IInv, [Next]_vars PROVE IInv'
    OBVIOUS
  <1> USE DEF IInv, config
  <1>1. ASSUME NEW h \in Hosts, Tick(h) \/ CheckKeys(h) PROVE IInv'
    BY <1>1 DEF Tick, CheckKeys, TypeOK, Finite, NewsTrue, Holds, RegisteredSound
  <1>2. ASSUME NEW h \in Hosts, Send(h) PROVE IInv'
    <2>1. /\ pc[h] \in {"RegisterPeer", "RegisterPk"} /\ pc' = [pc EXCEPT ![h] = "select"]
          /\ net' = [net EXCEPT ![h] = IF Cardinality(@) < MaxFlight
                                       THEN @ \cup {Request(h)} ELSE @]
          /\ UNCHANGED <<config, SOLVING_PK_MISMATCH, RENDEZVOUS_REGISTERED, held, rounds>>
      BY <1>2 DEF Send
    <2>2. Request(h) \in Requests
      BY <2>1 DEF TypeOK, Request, Requests
    <2>3. \A g \in Hosts : FlightOK(net'[g]) /\ net'[g] \subseteq net[g] \cup {Request(h)}
      <3>1. /\ IsFiniteSet(net[h]) /\ Cardinality(net[h]) \in Nat
            /\ IsFiniteSet(net[h] \cup {Request(h)})
            /\ Cardinality(net[h] \cup {Request(h)}) \in {Cardinality(net[h]), Cardinality(net[h]) + 1}
        BY FS_AddElement, FS_CardinalityType DEF Finite
      <3>2. Cardinality(net[h]) < MaxFlight => Cardinality(net[h] \cup {Request(h)}) <= MaxFlight
        BY <3>1, BoundAssumption
      <3> QED BY <2>1, <2>2, <3>1, <3>2 DEF FlightOK, TypeOK, Finite
    <2>4. TypeOK' /\ Finite'
      BY <2>1, <2>3 DEF TypeOK, Finite, FlightOK
    <2>5. NewsTrue'
      BY <2>1, <2>2, <2>3, AnswerFacts DEF NewsTrue, Holds, Kinds, TypeOK
    <2> QED BY <2>1, <2>4, <2>5 DEF RegisteredSound
  <1>3. ASSUME NEW h \in Hosts, Lose(h) PROVE IInv'
    <2>1. PICK m \in net[h] \cap Requests : net' = [net EXCEPT ![h] = @ \ {m}]
      BY <1>3 DEF Lose
    <2>2. UNCHANGED <<config, SOLVING_PK_MISMATCH, RENDEZVOUS_REGISTERED, pc, held, rounds>>
      BY <1>3 DEF Lose
    <2>3. IsFiniteSet(net[h] \ {m}) /\ Cardinality(net[h] \ {m}) <= MaxFlight
      BY FlightFacts DEF TypeOK, Finite
    <2> QED BY <2>1, <2>2, <2>3 DEF TypeOK, Finite, NewsTrue, Holds, RegisteredSound
  <1>4. ASSUME NEW h \in Hosts, NEW m \in net[h] \cap Requests, Process(h, m),
               \/ net' = [net EXCEPT ![h] = (@ \ {m}) \cup {Answer(ServerAnswer(h, m))}]
               \/ net' = [net EXCEPT ![h] = @ \ {m}]
        PROVE  IInv'
    <2> DEFINE a == Answer(ServerAnswer(h, m))
    <2>1. /\ ServerAnswer(h, m) \in Kinds
          /\ held' \in [Hosts -> SUBSET Ids]
          /\ \A g \in Hosts : held[g] \subseteq held'[g]
          /\ ServerAnswer(h, m) \in {"known", "OK"} => held'[h] # {}
      BY <1>4, ServerFacts
    <2>2. UNCHANGED <<config, SOLVING_PK_MISMATCH, RENDEZVOUS_REGISTERED, pc, rounds>>
      BY <1>4 DEF Process
    <2>3. a \in Answers
      BY <2>1, AnswerFacts
    <2>4. /\ IsFiniteSet(net[h] \ {m}) /\ Cardinality(net[h] \ {m}) <= MaxFlight
          /\ IsFiniteSet((net[h] \ {m}) \cup {a}) /\ Cardinality((net[h] \ {m}) \cup {a}) <= MaxFlight
      BY FlightFacts DEF TypeOK, Finite
    <2>5. \A g \in Hosts : net'[g] \subseteq net[g] \cup (IF g = h THEN {a} ELSE {})
      BY <1>4 DEF TypeOK
    <2>6. TypeOK' /\ Finite'
      <3> HIDE DEF a
      <3> SUFFICES net' \in [Hosts -> SUBSET (Requests \cup Answers)]
                   /\ \A g \in Hosts : IsFiniteSet(net'[g]) /\ Cardinality(net'[g]) <= MaxFlight
        BY <2>1, <2>2 DEF TypeOK, Finite
      <3>1. CASE net' = [net EXCEPT ![h] = (@ \ {m}) \cup {a}]
        BY <2>3, <2>4, <3>1 DEF TypeOK, Finite
      <3>2. CASE net' = [net EXCEPT ![h] = @ \ {m}]
        BY <2>4, <3>2 DEF TypeOK, Finite
      <3> QED BY <1>4, <3>1, <3>2 DEF a
    <2>7. NewsTrue'
      <3>1. \A k \in {"known", "OK"} : Answer(k) = a => held'[h] # {}
        BY <2>1, AnswerFacts DEF Kinds
      <3> QED BY <2>1, <2>2, <2>5, <3>1 DEF NewsTrue, Holds
    <2>8. RegisteredSound'
      BY <2>1, <2>2 DEF RegisteredSound
    <2> QED BY <2>6, <2>7, <2>8
  <1>5. ASSUME NEW h \in Hosts, PeerKnown(h) PROVE IInv'
    BY <1>5, ReceiveFacts DEF PeerKnown, Kinds, TypeOK, Finite, FlightOK, NewsTrue, Holds,
       RegisteredSound
  <1>6. ASSUME NEW h \in Hosts, RequestPk(h) PROVE IInv'
    BY <1>6, ReceiveFacts DEF RequestPk, Kinds, TypeOK, Finite, FlightOK, NewsTrue, Holds,
       RegisteredSound
  <1>7. ASSUME NEW h \in Hosts, PkOk(h) PROVE IInv'
    BY <1>7, ReceiveFacts DEF PkOk, Kinds, TypeOK, Finite, FlightOK, NewsTrue, Holds,
       RegisteredSound
  <1>8. ASSUME NEW h \in Hosts, PkOkHost(h) \/ PkOkSolved(h) PROVE IInv'
    BY <1>8 DEF PkOkHost, PkOkSolved, TypeOK, Finite, NewsTrue, Holds, RegisteredSound
  <1>9. ASSUME NEW h \in Hosts, UuidMismatchSolves(h) PROVE IInv'
    <2>1. id' \in Ids
      BY <1>9, BoundAssumption DEF UuidMismatchSolves, TypeOK, Ids
    <2> QED BY <1>9, <2>1, ReceiveFacts DEF UuidMismatchSolves, Kinds, TypeOK, Finite, FlightOK,
            NewsTrue, Holds, RegisteredSound
  <1>10. ASSUME NEW h \in Hosts, UuidMismatchIgnored(h) PROVE IInv'
    BY <1>10, ReceiveFacts DEF UuidMismatchIgnored, Kinds, TypeOK, Finite, FlightOK,
       NewsTrue, Holds, RegisteredSound
  <1>11. ASSUME NewRound PROVE IInv'
    <2>1. /\ held' \in [Hosts -> SUBSET Ids]
          /\ \A h \in Hosts : held[h] \subseteq held'[h]
      BY <1>11 DEF NewRound, TypeOK
    <2>2. \A h \in Hosts : net'[h] = {} /\ IsFiniteSet(net'[h]) /\ Cardinality(net'[h]) <= MaxFlight
      BY <1>11, FS_EmptySet, BoundAssumption DEF NewRound
    <2>3. rounds' \in 0 .. MaxRounds
      BY <1>11, BoundAssumption DEF NewRound, TypeOK
    <2> QED BY <1>11, <2>1, <2>2, <2>3 DEF NewRound, TypeOK, Finite, NewsTrue, Holds,
            RegisteredSound
  <1>12. CASE UNCHANGED vars
    BY <1>12 DEF vars, TypeOK, Finite, NewsTrue, Holds, RegisteredSound
  <1>13. ASSUME NEW h \in Hosts, NEW k \in {"RegisterPeer", "RegisterPk"}, Serve(h, k) PROVE IInv'
    <2>1. PICK m \in net[h] \cap [kind : {k}, id : Ids] :
              /\ net' = [net EXCEPT ![h] = (@ \ {m}) \cup {Answer(ServerAnswer(h, m))}]
              /\ Process(h, m)
      BY <1>13 DEF Serve
    <2>2. m \in net[h] \cap Requests
      BY DEF Requests
    <2> QED BY <1>4, <2>1, <2>2
  <1>14. ASSUME NEW h \in Hosts, ServeUnheard(h) PROVE IInv'
    BY <1>4, <1>14 DEF ServeUnheard
  <1> QED BY <1>1, <1>2, <1>3, <1>5, <1>6, <1>7, <1>8, <1>9, <1>10, <1>11, <1>12, <1>13, <1>14
          DEF Next, Continue, handle_resp, RegisterPeerResponse, RegisterPkResponse

(* Every state has its type and the bound on datagrams holds, whatever the *)
(* number of servers.                                                      *)
THEOREM TypeCorrect == Spec => []TypeOK
  BY InitInv, NextInv, PTL DEF Spec, IInv

(* is_rendezvous_registered is never true without a server that holds this *)
(* machine: neither a late or repeated answer, nor a refusal that is dealt *)
(* with at the same time, nor the answer that asks for the key sets it.    *)
THEOREM RegisteredSoundHolds == Spec => []RegisteredSound
  BY InitInv, NextInv, PTL DEF Spec, IInv
=============================================================================
