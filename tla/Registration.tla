---------------------------- MODULE Registration ----------------------------
(***************************************************************************)
(* How the host registers its id and its public key with its rendezvous    *)
(* servers over UDP (src/src/rendezvous_mediator.rs, with the key and id   *)
(* part of libs/hbb_common/src/config.rs).  Every server has a task of its *)
(* own; the tasks share the persisted id, the "key confirmed" flags and    *)
(* SOLVING_PK_MISMATCH, the name of the server whose refusal of the id is  *)
(* being dealt with.  Answers carry no id: an answer to an old request     *)
(* looks like an answer to the latest one.                                 *)
(*                                                                         *)
(* Requests and answers may be lost, delayed and reordered; a request may  *)
(* be repeated.  When a request times out or the registration interval has *)
(* passed is left open: a tick may register at any time.  The server is    *)
(* not in the repository and is modelled from the answers the code         *)
(* handles: it refuses an id that belongs to another machine.              *)
(***************************************************************************)
EXTENDS Naturals, FiniteSets

CONSTANTS
    Hosts,          \* the rendezvous servers of the round
    MaxId,          \* bound: ids 1 .. MaxId, each generated after the previous
    Taken,          \* per server: the ids other machines hold
    MaxFlight,      \* bound: messages in flight per server
    MaxRounds,      \* bound: rounds of start_all
    NoHost          \* SOLVING_PK_MISMATCH is ""

Ids == 1 .. MaxId

ASSUME BoundAssumption == MaxId \in Nat \ {0} /\ MaxFlight \in Nat /\ MaxRounds \in Nat
ASSUME HostAssumption == NoHost \notin Hosts
\* An id drawn from a thousand million is free at last.
ASSUME TakenAssumption == Taken \in [Hosts -> SUBSET (1 .. MaxId - 1)]

VARIABLES
    id,                     \* Config.id
    key_confirmed,          \* Config.key_confirmed
    keys_confirmed,         \* Config.keys_confirmed: the servers mapped to true
    SOLVING_PK_MISMATCH,
    RENDEZVOUS_REGISTERED,
    pc,                     \* per task: where it is between two awaits or locks
    net,                    \* per server: datagrams in flight, both ways
    held,                   \* per server: the ids it holds for this machine
    rounds

config == <<id, key_confirmed, keys_confirmed>>
vars == <<config, SOLVING_PK_MISMATCH, RENDEZVOUS_REGISTERED, pc, net, held, rounds>>

Requests == [kind : {"RegisterPeer", "RegisterPk"}, id : Ids]
Answer(k) == [kind |-> k, id |-> 0]
Answers == {Answer(k) : k \in {"known", "request_pk", "OK", "UUID_MISMATCH"}}

\* The configuration is persisted: a key may be confirmed by an earlier run, and
\* the server may have forgotten it, or given the id to another machine, since.
Init ==
    /\ id = 1
    /\ held \in [Hosts -> {{}, {1}}]
    /\ \A h \in Hosts : held[h] \cap Taken[h] = {}
    /\ key_confirmed \in BOOLEAN
    /\ keys_confirmed \in IF key_confirmed THEN SUBSET Hosts ELSE {{}}
    /\ SOLVING_PK_MISMATCH = NoHost
    /\ RENDEZVOUS_REGISTERED = FALSE
    /\ pc = [h \in Hosts |-> "select"]
    /\ net = [h \in Hosts |-> {}]
    /\ rounds = 0

-----------------------------------------------------------------------------
(* register_peer and register_pk *)

\* The timer says that it is time to register; nothing is sent while another
\* server's refusal is being dealt with.
Tick(h) ==
    /\ pc[h] = "select"
    /\ SOLVING_PK_MISMATCH \in {NoHost, h}
    /\ pc' = [pc EXCEPT ![h] = "keys"]
    /\ UNCHANGED <<config, SOLVING_PK_MISMATCH, RENDEZVOUS_REGISTERED, net, held, rounds>>

\* A key that is not confirmed, in general or by this server, is sent again.
CheckKeys(h) ==
    /\ pc[h] = "keys"
    /\ pc' = [pc EXCEPT ![h] = IF key_confirmed /\ h \in keys_confirmed
                               THEN "RegisterPeer" ELSE "RegisterPk"]
    /\ UNCHANGED <<config, SOLVING_PK_MISMATCH, RENDEZVOUS_REGISTERED, net, held, rounds>>

\* Either message carries the id as it is when the message is built.
Request(h) == [kind |-> pc[h], id |-> id]

\* Bound: what exceeds MaxFlight is lost at once.
Send(h) ==
    /\ pc[h] \in {"RegisterPeer", "RegisterPk"}
    /\ net' = [net EXCEPT ![h] = IF Cardinality(@) < MaxFlight
                                 THEN @ \cup {Request(h)} ELSE @]
    /\ pc' = [pc EXCEPT ![h] = "select"]
    /\ UNCHANGED <<config, SOLVING_PK_MISMATCH, RENDEZVOUS_REGISTERED, held, rounds>>

\* A request is lost on its way.
Lose(h) ==
    /\ \E m \in net[h] \cap Requests : net' = [net EXCEPT ![h] = @ \ {m}]
    /\ UNCHANGED <<config, SOLVING_PK_MISMATCH, RENDEZVOUS_REGISTERED, pc, held, rounds>>

-----------------------------------------------------------------------------
(* The server (external) *)

ServerAnswer(h, m) ==
    IF m.kind = "RegisterPeer"
    THEN IF m.id \in held[h] THEN "known" ELSE "request_pk"
    ELSE IF m.id \in Taken[h] THEN "UUID_MISMATCH" ELSE "OK"

\* The server deals with one request; its answer arrives or is lost.
Process(h, m) ==
    /\ held' = [held EXCEPT ![h] = IF ServerAnswer(h, m) = "OK" THEN @ \cup {m.id} ELSE @]
    /\ UNCHANGED <<config, SOLVING_PK_MISMATCH, RENDEZVOUS_REGISTERED, pc, rounds>>

Serve(h, k) ==
    \E m \in net[h] \cap [kind : {k}, id : Ids] :
        /\ net' = [net EXCEPT ![h] = (@ \ {m}) \cup {Answer(ServerAnswer(h, m))}]
        /\ Process(h, m)

ServeUnheard(h) ==
    \E m \in net[h] \cap Requests :
        /\ net' = [net EXCEPT ![h] = @ \ {m}]
        /\ Process(h, m)

-----------------------------------------------------------------------------
(* handle_resp *)

Receive(h, k) ==
    /\ pc[h] = "select"
    /\ Answer(k) \in net[h]
    /\ net' = [net EXCEPT ![h] = @ \ {Answer(k)}]

PeerKnown(h) ==
    /\ Receive(h, "known")
    /\ RENDEZVOUS_REGISTERED' = TRUE
    /\ UNCHANGED <<config, SOLVING_PK_MISMATCH, pc, held, rounds>>

RequestPkMarks(h) ==
    /\ Receive(h, "request_pk")
    /\ pc' = [pc EXCEPT ![h] = "RegisterPk"]
    /\ RENDEZVOUS_REGISTERED' = TRUE
    /\ UNCHANGED <<config, SOLVING_PK_MISMATCH, held, rounds>>

RequestPk(h) ==
    /\ Receive(h, "request_pk")
    /\ pc' = [pc EXCEPT ![h] = "RegisterPk"]
    /\ UNCHANGED <<config, SOLVING_PK_MISMATCH, RENDEZVOUS_REGISTERED, held, rounds>>

\* OK takes three locks one after the other: key_confirmed, keys_confirmed and
\* SOLVING_PK_MISMATCH.  Other tasks run in between.
PkOk(h) ==
    /\ Receive(h, "OK")
    /\ key_confirmed' = TRUE
    /\ pc' = [pc EXCEPT ![h] = "ok_host"]
    /\ UNCHANGED <<id, keys_confirmed, SOLVING_PK_MISMATCH, RENDEZVOUS_REGISTERED, held, rounds>>

PkOkHost(h) ==
    /\ pc[h] = "ok_host"
    /\ keys_confirmed' = keys_confirmed \cup {h}
    /\ pc' = [pc EXCEPT ![h] = "ok_solved"]
    /\ UNCHANGED <<id, key_confirmed, SOLVING_PK_MISMATCH, RENDEZVOUS_REGISTERED, net, held, rounds>>

PkOkKeepsSolving(h) ==
    /\ pc[h] = "ok_solved"
    /\ RENDEZVOUS_REGISTERED' = TRUE
    /\ pc' = [pc EXCEPT ![h] = "select"]
    /\ UNCHANGED <<config, SOLVING_PK_MISMATCH, net, held, rounds>>

PkOkSolved(h) ==
    /\ pc[h] = "ok_solved"
    /\ SOLVING_PK_MISMATCH' = NoHost
    /\ RENDEZVOUS_REGISTERED' = TRUE
    /\ pc' = [pc EXCEPT ![h] = "select"]
    /\ UNCHANGED <<config, net, held, rounds>>

UuidMismatchSameId(h) ==
    /\ Receive(h, "UUID_MISMATCH")
    /\ SOLVING_PK_MISMATCH \in {NoHost, h}
    /\ id < MaxId
    /\ key_confirmed' = FALSE
    /\ keys_confirmed' = IF key_confirmed THEN {} ELSE keys_confirmed
    /\ SOLVING_PK_MISMATCH' = h
    /\ pc' = [pc EXCEPT ![h] = "RegisterPk"]
    /\ UNCHANGED <<id, RENDEZVOUS_REGISTERED, held, rounds>>

UuidMismatchEmptyId(h) ==
    /\ Receive(h, "UUID_MISMATCH")
    /\ SOLVING_PK_MISMATCH \in {NoHost, h}
    /\ id' = 0
    /\ key_confirmed' = FALSE
    /\ keys_confirmed' = IF key_confirmed THEN {} ELSE keys_confirmed
    /\ SOLVING_PK_MISMATCH' = h
    /\ pc' = [pc EXCEPT ![h] = "RegisterPk"]
    /\ UNCHANGED <<RENDEZVOUS_REGISTERED, held, rounds>>

\* handle_uuid_mismatch, under the lock of SOLVING_PK_MISMATCH: a new id, and
\* the key confirmed by nobody.  set_key_confirmed(false) clears the servers'
\* flags only when key_confirmed was set.  Bound: the id is less than MaxId.
UuidMismatchSolves(h) ==
    /\ Receive(h, "UUID_MISMATCH")
    /\ SOLVING_PK_MISMATCH \in {NoHost, h}
    /\ id < MaxId
    /\ id' = id + 1
    /\ key_confirmed' = FALSE
    /\ keys_confirmed' = IF key_confirmed THEN {} ELSE keys_confirmed
    /\ SOLVING_PK_MISMATCH' = h
    /\ pc' = [pc EXCEPT ![h] = "RegisterPk"]
    /\ UNCHANGED <<RENDEZVOUS_REGISTERED, held, rounds>>

\* Another server's refusal is being dealt with; or, beyond the bound, the
\* answer is lost.
UuidMismatchIgnored(h) ==
    /\ Receive(h, "UUID_MISMATCH")
    /\ SOLVING_PK_MISMATCH \notin {NoHost, h} \/ (id = MaxId)
    /\ UNCHANGED <<config, SOLVING_PK_MISMATCH, RENDEZVOUS_REGISTERED, pc, held, rounds>>

RegisterPeerResponse(h) == PeerKnown(h) \/ RequestPk(h)
RegisterPkResponse(h) == PkOk(h) \/ UuidMismatchSolves(h) \/ UuidMismatchIgnored(h)

handle_resp(h) == RegisterPeerResponse(h) \/ RegisterPkResponse(h)

-----------------------------------------------------------------------------
(* start_all *)

\* Every task has ended and the next round begins with new sockets.  A request
\* that was in flight may still reach its server, its answer reaches nobody.
NewRound ==
    /\ rounds < MaxRounds
    /\ \A h \in Hosts : pc[h] = "select"
    /\ \E late \in SUBSET Hosts :
           held' = [h \in Hosts |-> held[h] \cup
                      {i \in Ids \ Taken[h] :
                          h \in late /\ [kind |-> "RegisterPk", id |-> i] \in net[h]}]
    /\ net' = [h \in Hosts |-> {}]
    /\ SOLVING_PK_MISMATCH' = NoHost
    /\ RENDEZVOUS_REGISTERED' = FALSE
    /\ rounds' = rounds + 1
    /\ UNCHANGED <<config, pc>>

Continue(h) == CheckKeys(h) \/ Send(h) \/ PkOkHost(h) \/ PkOkSolved(h)

Next ==
    \/ \E h \in Hosts : Tick(h) \/ Continue(h) \/ Lose(h) \/ ServeUnheard(h) \/ handle_resp(h)
    \/ \E h \in Hosts, k \in {"RegisterPeer", "RegisterPk"} : Serve(h, k)
    \/ NewRound

(***************************************************************************)
(* A task that is past an await goes on.  The tick and the socket are two  *)
(* branches of one select!, which picks at random among the ready ones:    *)
(* each is taken when it is ready again and again.  Of the network it is   *)
(* assumed that a kind of request which is sent again and again is         *)
(* answered again and again, however many are lost in between, and that an *)
(* answer on its way is not overtaken for ever by answers of the other     *)
(* kind: a socket delivers its datagrams in the order of their arrival.    *)
(***************************************************************************)
Fairness ==
    \A h \in Hosts :
        /\ WF_vars(Continue(h))
        /\ SF_vars(Tick(h))
        /\ \A k \in {"RegisterPeer", "RegisterPk"} : SF_vars(Serve(h, k))
        /\ SF_vars(RegisterPeerResponse(h)) /\ SF_vars(RegisterPkResponse(h))

Spec == Init /\ [][Next]_vars /\ Fairness

-----------------------------------------------------------------------------
(* Properties *)

\* The types; messages in flight stay within the bound.
TypeOK ==
    /\ id \in Ids
    /\ key_confirmed \in BOOLEAN
    /\ keys_confirmed \in SUBSET Hosts
    /\ SOLVING_PK_MISMATCH \in Hosts \cup {NoHost}
    /\ RENDEZVOUS_REGISTERED \in BOOLEAN
    /\ pc \in [Hosts -> {"select", "keys", "RegisterPeer", "RegisterPk", "ok_host", "ok_solved"}]
    /\ net \in [Hosts -> SUBSET (Requests \cup Answers)]
    /\ \A h \in Hosts : Cardinality(net[h]) <= MaxFlight
    /\ held \in [Hosts -> SUBSET Ids]
    /\ rounds \in 0 .. MaxRounds

\* is_rendezvous_registered "Returns true after this host has received a
\* successful registration response from at least one rendezvous server"
\* (rendezvous_mediator.rs:45): some server does hold this machine, whatever the
\* configuration says of its keys.
RegisteredSound == RENDEZVOUS_REGISTERED => \E h \in Hosts : held[h] # {}

\* Whatever refusals, lost and late answers there were, the host comes to be
\* registered for good, with all its servers and under one id, and no refusal is
\* left unsettled: the flag that silences the other servers' tasks is released.
Settled ==
    /\ \A h \in Hosts : id \in held[h] /\ h \in keys_confirmed
    /\ key_confirmed
    /\ RENDEZVOUS_REGISTERED
    /\ SOLVING_PK_MISMATCH = NoHost
Settles == <>[]Settled

=============================================================================
