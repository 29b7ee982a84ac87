------------------------- MODULE ServiceConnections -------------------------
(***************************************************************************)
(* How the services of one AS400 object (core/AS400.js) get and share      *)
(* their host connections.                                                 *)
(*                                                                         *)
(* connectService() keeps one connection per service in a map.  Who uses a *)
(* service makes sure first that its session is started: seed exchange,    *)
(* server start and, but for files, an exchange of attributes.  The four   *)
(* kinds of service remember that in four ways:                            *)
(*   Cached   commands, data queues: a state object that holds the         *)
(*            connection, looked at before the map;                        *)
(*   Plain    database: DbConnection.connect() and the cancel channel go   *)
(*            through the whole handshake every time;                      *)
(*   Files    a flag among the server attributes of the AS400 object;      *)
(*   Records  a connection of its own that the map does not know.          *)
(*                                                                         *)
(* A connection is used through sendAndReceive() alone, one exchange at a  *)
(* time in order of the calls (module HostConnection): queue[c].           *)
(***************************************************************************)
EXTENDS Naturals, Sequences, SequencesExt

CONSTANTS Callers, Cached, Plain, Files, Records,
          MaxConns          \* how many connections are ever dialled

Services == Cached \cup Plain \cup Files \cup Records
Conns == 1 .. MaxConns
None == 0                   \* no connection

ASSUME KindsAssumption ==
  /\ Cached \cap (Plain \cup Files \cup Records) = {}
  /\ Plain \cap (Files \cup Records) = {}
  /\ Files \cap Records = {}
ASSUME MaxConnsAssumption == MaxConns \in Nat

NoService == "no service"
Nobody == "nobody"

ASSUME NamesAssumption == NoService \notin Services /\ Nobody \notin Callers

VARIABLES
  pc,          \* where a caller is
  service,     \* the service it last asked for
  conn,        \* the connection it was given
  life,        \* "unused", "dialling", "open", "down" (by the peer), "closed"
  owner,       \* the service a connection was dialled for
  connections, \* AS400#connections
  flags,       \* the services with AS400#serverAttributes
  state,       \* the connection in the state object of a service
  queue,       \* the exchanges of a connection
  seed,        \* host: whose seeds the session holds
  session,     \* host: how far the session got
  overlap,     \* services of which two dials were under way at once
  crossed      \* connections on which two handshakes were under way at once

callerVars == <<pc, service, conn>>
connVars == <<life, owner>>
systemVars == <<connections, flags, state>>
hostVars == <<seed, session>>
historyVars == <<overlap, crossed>>
vars == <<callerVars, connVars, systemVars, queue, hostVars, historyVars>>

Exchanges == {"seed", "start", "attributes", "request"}

(* A caller is in the queue of its connection while it has an exchange.     *)
TypeOK ==
  /\ pc \in [Callers -> {"idle", "dialling", "found"} \cup Exchanges]
  /\ service \in [Callers -> Services \cup {NoService}]
  /\ conn \in [Callers -> Conns \cup {None}]
  /\ life \in [Conns -> {"unused", "dialling", "open", "down", "closed"}]
  /\ owner \in [Conns -> Services \cup {NoService}]
  /\ connections \in [Services -> Conns \cup {None}]
  /\ flags \subseteq Services
  /\ state \in [Services -> Conns \cup {None}]
  /\ queue \in [Conns -> Seq(Callers)]
  /\ seed \in [Conns -> Callers \cup {Nobody}]
  /\ session \in [Conns -> {"new", "started", "answered"}]
  /\ overlap \subseteq Services
  /\ crossed \subseteq Conns
  /\ \A p \in Callers, c \in Conns :
       p \in ToSet(queue[c]) <=> conn[p] = c /\ pc[p] \in Exchanges

Init ==
  /\ pc = [p \in Callers |-> "idle"]
  /\ service = [p \in Callers |-> NoService]
  /\ conn = [p \in Callers |-> None]
  /\ life = [c \in Conns |-> "unused"]
  /\ owner = [c \in Conns |-> NoService]
  /\ connections = [s \in Services |-> None]
  /\ flags = {}
  /\ state = [s \in Services |-> None]
  /\ queue = [c \in Conns |-> <<>>]
  /\ seed = [c \in Conns |-> Nobody]
  /\ session = [c \in Conns |-> "new"]
  /\ overlap = {}
  /\ crossed = {}

-----------------------------------------------------------------------------
Connected(c) == c # None /\ life[c] = "open"

(* The cached state object answers, without a look at the map.              *)
StateAnswers(s) == s \in Cached /\ Connected(state[s])

Goto(p, where) == pc' = [pc EXCEPT ![p] = where]

Ends(p) ==
  /\ Goto(p, "idle")
  /\ service' = [service EXCEPT ![p] = NoService]
  /\ conn' = [conn EXCEPT ![p] = None]

(* A call of sendAndReceive(): behind those that are waiting already.       *)
Enqueue(p, c, what) ==
  /\ Goto(p, what)
  /\ queue' = [queue EXCEPT ![c] = Append(@, p)]

(* The reply of p's exchange is here and it makes the next one: by then     *)
(* the gate is open for those behind it.                                    *)
NextExchange(p, c, what) ==
  /\ Goto(p, what)
  /\ queue' = [queue EXCEPT ![c] = Append(Tail(@), p)]

Leave(c) == queue' = [queue EXCEPT ![c] = Tail(@)]

HasReply(p, what) ==
  /\ pc[p] = what
  /\ life[conn[p]] = "open"
  /\ Head(queue[conn[p]]) = p

-----------------------------------------------------------------------------
Asks(p, s) ==
  /\ pc[p] = "idle"
  /\ service' = [service EXCEPT ![p] = s]

UseState(p, s) ==
  /\ Asks(p, s)
  /\ StateAnswers(s)
  /\ conn' = [conn EXCEPT ![p] = state[s]]
  /\ Enqueue(p, state[s], "request")
  /\ UNCHANGED <<connVars, systemVars, hostVars, historyVars>>

(* connectService() returns the connection in the map.                      *)
Lookup(p, s) ==
  /\ Asks(p, s)
  /\ s \notin Records
  /\ ~StateAnswers(s)
  /\ Connected(connections[s])
  /\ conn' = [conn EXCEPT ![p] = connections[s]]
  /\ Goto(p, "found")
  /\ UNCHANGED <<connVars, systemVars, queue, hostVars, historyVars>>

DialsOf(s) == {p \in Callers : pc[p] = "dialling" /\ service[p] = s}

(* There is none, or it is for records: the port is resolved and a new      *)
(* connection dialled.                                                      *)
Dial(p, s) ==
  /\ Asks(p, s)
  /\ ~StateAnswers(s)
  /\ s \in Records \/ ~Connected(connections[s])
  /\ \E c \in Conns :
       /\ life[c] = "unused"
       /\ \A d \in Conns : d < c => life[d] # "unused"
       /\ life' = [life EXCEPT ![c] = "dialling"]
       /\ owner' = [owner EXCEPT ![c] = s]
       /\ conn' = [conn EXCEPT ![p] = c]
  /\ Goto(p, "dialling")
  /\ overlap' = IF DialsOf(s) = {} THEN overlap ELSE overlap \cup {s}
  /\ UNCHANGED <<systemVars, queue, hostVars, crossed>>

Dialled(p) ==
  /\ pc[p] = "dialling"
  /\ life' = [life EXCEPT ![conn[p]] = "open"]
  /\ connections' = IF service[p] \in Records THEN connections
                    ELSE [connections EXCEPT ![service[p]] = conn[p]]
  /\ Goto(p, "found")
  /\ UNCHANGED <<service, conn, owner, flags, state, queue, hostVars,
                 historyVars>>

DialFails(p) ==
  /\ pc[p] = "dialling"
  /\ life' = [life EXCEPT ![conn[p]] = "down"]
  /\ Ends(p)
  /\ UNCHANGED <<owner, systemVars, queue, hostVars,
                 historyVars>>

-----------------------------------------------------------------------------
Shaking(c) == {p \in Callers : conn[p] = c /\ pc[p] \in {"seed", "start"}}

(* Mutant: the seeds of an earlier handshake are used again.                *)
StartHandshakeReusingSeed(p) ==
  /\ pc[p] = "found"
  /\ service[p] \in Cached \cup Plain \cup (Files \ flags)
  /\ Enqueue(p, conn[p], IF seed[conn[p]] = Nobody THEN "seed" ELSE "start")
  /\ crossed' = IF Shaking(conn[p]) = {} THEN crossed
                ELSE crossed \cup {conn[p]}
  /\ UNCHANGED <<service, conn, connVars, systemVars, hostVars,
                 overlap>>

StartHandshake(p) ==
  /\ pc[p] = "found"
  /\ service[p] \in Cached \cup Plain \cup (Files \ flags)
  /\ Enqueue(p, conn[p], "seed")
  /\ crossed' = IF Shaking(conn[p]) = {} THEN crossed
                ELSE crossed \cup {conn[p]}
  /\ UNCHANGED <<service, conn, connVars, systemVars, hostVars,
                 overlap>>

(* Mutant: a connection that the map had is taken for started.              *)
TrustMap(p) ==
  /\ pc[p] = "found"
  /\ service[p] \in Cached \cup (Files \cap flags)
  /\ Enqueue(p, conn[p], "request")
  /\ UNCHANGED <<service, conn, connVars, systemVars, hostVars,
                 historyVars>>

(* The attributes of the file service are there: its session is taken for   *)
(* started.                                                                 *)
TrustFlag(p) ==
  /\ pc[p] = "found"
  /\ service[p] \in Files \cap flags
  /\ Enqueue(p, conn[p], "request")
  /\ UNCHANGED <<service, conn, connVars, systemVars, hostVars,
                 historyVars>>

(* The DDM handshake sends its first request and reads the reply from an    *)
(* object without read(): a TypeError, unless send() finds the connection   *)
(* down.  The connection stays as it is.                                    *)
RecordsHandshake(p) ==
  /\ pc[p] = "found"
  /\ service[p] \in Records
  /\ Ends(p)
  /\ UNCHANGED <<connVars, systemVars, queue, hostVars,
                 historyVars>>

(* The host takes the seeds of p and replies with its own.                  *)
SeedReply(p) ==
  /\ HasReply(p, "seed")
  /\ service[p] \notin Files
  /\ seed' = [seed EXCEPT ![conn[p]] = p]
  /\ NextExchange(p, conn[p], "start")
  /\ UNCHANGED <<service, conn, connVars, systemVars, session,
                 historyVars>>

(* The file service then builds its server start without the bytes that     *)
(* authenticate it: a TypeError in ServerStart.buildRequest().              *)
FilesSeedReply(p) ==
  /\ HasReply(p, "seed")
  /\ service[p] \in Files
  /\ seed' = [seed EXCEPT ![conn[p]] = p]
  /\ Leave(conn[p])
  /\ Ends(p)
  /\ UNCHANGED <<connVars, systemVars, session, historyVars>>

Reached(c, stage) ==
  session' = [session EXCEPT ![c] = IF @ = "answered" THEN "answered" ELSE stage]

(* The password was encrypted with the seeds of one exchange: the host      *)
(* accepts it when they are still the last ones, and is done with them.     *)
StartReply(p) ==
  /\ HasReply(p, "start")
  /\ seed[conn[p]] = p
  /\ seed' = [seed EXCEPT ![conn[p]] = Nobody]
  /\ Reached(conn[p], "started")
  /\ NextExchange(p, conn[p], "attributes")
  /\ UNCHANGED <<service, conn, connVars, systemVars, historyVars>>

StartRejected(p) ==
  /\ HasReply(p, "start")
  /\ seed[conn[p]] # p
  /\ Leave(conn[p])
  /\ Ends(p)
  /\ UNCHANGED <<connVars, systemVars, hostVars, historyVars>>

(* The attributes arrive; commands and data queues keep their state object. *)
(* A return code in this reply is not looked at.                            *)
AttributesReply(p) ==
  /\ HasReply(p, "attributes")
  /\ Reached(conn[p], "answered")
  /\ state' = IF service[p] \in Cached
              THEN [state EXCEPT ![service[p]] = conn[p]] ELSE state
  /\ NextExchange(p, conn[p], "request")
  /\ UNCHANGED <<service, conn, connVars, connections, flags, seed,
                 historyVars>>

RequestReply(p) ==
  /\ HasReply(p, "request")
  /\ Leave(conn[p])
  /\ Ends(p)
  /\ UNCHANGED <<connVars, systemVars, hostVars, historyVars>>

(* The host may refuse any other exchange with a return code.               *)
Refused(p) ==
  /\ \E what \in Exchanges \ {"attributes"} : HasReply(p, what)
  /\ Leave(conn[p])
  /\ Ends(p)
  /\ UNCHANGED <<connVars, systemVars, hostVars, historyVars>>

(* Mutant: the gate of a failed exchange stays shut.                        *)
ExchangeFailsShut(p) ==
  /\ pc[p] \in Exchanges
  /\ life[conn[p]] \in {"down", "closed"}
  /\ Head(queue[conn[p]]) = p
  /\ Ends(p)
  /\ UNCHANGED <<connVars, systemVars, queue, hostVars, historyVars>>

(* An exchange fails because its connection is gone.  A reader whose socket *)
(* was closed on this side may also wait forever (see HostConnection).      *)
ExchangeFails(p) ==
  /\ pc[p] \in Exchanges
  /\ life[conn[p]] \in {"down", "closed"}
  /\ Head(queue[conn[p]]) = p
  /\ Leave(conn[p])
  /\ Ends(p)
  /\ UNCHANGED <<connVars, systemVars, hostVars, historyVars>>

-----------------------------------------------------------------------------
(* The host or the network ends a connection.                               *)
Drop(c) ==
  /\ life[c] = "open"
  /\ life' = [life EXCEPT ![c] = "down"]
  /\ UNCHANGED <<callerVars, owner, systemVars, queue, hostVars, historyVars>>

Shut(cs) ==
  life' = [c \in Conns |-> IF c \in cs /\ life[c] = "open" THEN "closed"
                           ELSE life[c]]

(* Mutant: the connection is forgotten and not closed.                      *)
DisconnectServiceUnclosed(s) ==
  /\ connections[s] # None
  /\ connections' = [connections EXCEPT ![s] = None]
  /\ UNCHANGED <<callerVars, connVars, flags, state, queue, hostVars,
                 historyVars>>

DisconnectService(s) ==
  /\ connections[s] # None
  /\ Shut({connections[s]})
  /\ connections' = [connections EXCEPT ![s] = None]
  /\ UNCHANGED <<callerVars, owner, flags, state, queue, hostVars,
                 historyVars>>

Close ==
  /\ Shut({connections[s] : s \in Services})
  /\ connections' = [s \in Services |-> None]
  /\ flags' = {}
  /\ UNCHANGED <<callerVars, owner, state, queue, hostVars, historyVars>>

(* The application may store attributes of its own for a service.  Only the *)
(* file service reads them.                                                 *)
SetServerAttributes(s) ==
  /\ s \in Files
  /\ flags' = flags \cup {s}
  /\ UNCHANGED <<callerVars, connVars, connections, state, queue, hostVars,
                 historyVars>>

-----------------------------------------------------------------------------
Handshake(p) ==
  \/ StartHandshake(p) \/ TrustFlag(p) \/ RecordsHandshake(p)
  \/ SeedReply(p) \/ FilesSeedReply(p)
  \/ StartReply(p) \/ StartRejected(p)
  \/ AttributesReply(p)

Next ==
  \/ \E p \in Callers, s \in Services : UseState(p, s) \/ Lookup(p, s) \/ Dial(p, s)
  \/ \E p \in Callers :
       \/ Dialled(p) \/ DialFails(p)
       \/ Handshake(p)
       \/ RequestReply(p) \/ Refused(p) \/ ExchangeFails(p)
  \/ \E c \in Conns : Drop(c)
  \/ \E s \in Services : DisconnectService(s) \/ SetServerAttributes(s)
  \/ Close

Spec == Init /\ [][Next]_vars

(* A dial ends (connect() has a timer), promises continue, the host answers *)
(* and a read on a connection the peer ended fails.                         *)
Settling(p) ==
  \/ Dialled(p) \/ DialFails(p)
  \/ Handshake(p)
  \/ RequestReply(p) \/ Refused(p)
  \/ (ExchangeFails(p) /\ life[conn[p]] = "down")

FairSpec == Spec /\ \A p \in Callers : WF_vars(Settling(p))

-----------------------------------------------------------------------------
(* An open connection that the map of the AS400 object does not hold is one *)
(* that close() will never close.  But for records, that takes two dials    *)
(* for one service at the same time: lost updates of the map aside, every   *)
(* connection stays reachable, whatever drops, disconnects and close()      *)
(* happen around the dials (AS400.js connectService, 293-326).              *)
TrackedUnlessOverlapped ==
  \A c \in Conns :
    /\ life[c] = "open"
    /\ owner[c] \notin Records \cup overlap
    => connections[owner[c]] = c

(* The state object of commands and data queues only ever names a           *)
(* connection on which the host answered the whole handshake.               *)
StateIsReady ==
  \A s \in Services : state[s] # None => session[state[s]] = "answered"

(* Outside the file service no request is sent before the host answered the *)
(* whole handshake, however callers share connections and whatever drops.   *)
NoEarlyRequest ==
  \A p \in Callers :
    pc[p] = "request" /\ service[p] \notin Files => session[conn[p]] = "answered"

(* The host sees a password made with outdated seeds only when two          *)
(* handshakes ran on one connection at the same time.                       *)
StaleOnlyWhenCrossed ==
  \A p \in Callers :
    pc[p] = "start" /\ seed[conn[p]] # p => conn[p] \in crossed

(* Every call ends, unless its connection was closed on this side.          *)
CallsSettle ==
  \A p \in Callers :
    pc[p] # "idle" ~> (pc[p] = "idle" \/ life[conn[p]] = "closed")
=============================================================================
