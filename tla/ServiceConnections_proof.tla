---------------------- MODULE ServiceConnections_proof ----------------------
(***************************************************************************)
(* Proofs about ServiceConnections, for any callers, any services of the   *)
(* four kinds and any number of connections.                               *)
(***************************************************************************)
EXTENDS ServiceConnections, Integers, SequencesExt, SequenceTheorems, TLAPS

-----------------------------------------------------------------------------
(* Lists without duplicates, and the sets of their elements.                *)

(* The elements of a list, by their index.                                  *)
LEMMA InToSet ==
  ASSUME NEW S, NEW s \in Seq(S), NEW e
  PROVE  e \in ToSet(s) <=> \E i \in 1..Len(s) : s[i] = e
BY DEF ToSet

(* A list with a new element at its end.                                    *)
LEMMA PushInjective ==
  ASSUME NEW S, NEW s \in Seq(S), NEW e \in S, IsInjective(s), e \notin ToSet(s)
  PROVE  /\ Append(s, e) \in Seq(S)
         /\ IsInjective(Append(s, e))
         /\ ToSet(Append(s, e)) = ToSet(s) \cup {e}
<1> DEFINE t == Append(s, e)
<1>1. /\ t \in Seq(S) /\ Len(s) \in Nat /\ Len(t) = Len(s) + 1 /\ t[Len(s) + 1] = e
      /\ \A i \in 1..Len(s) : t[i] = s[i]
  BY AppendProperties, LenProperties
<1>2. \A i \in 1..Len(s) : s[i] # e
  BY InToSet
<1> HIDE DEF t
<1>3. IsInjective(t)
  BY <1>1, <1>2 DEF IsInjective
<1>4. \A i \in 1..Len(t) : i \in 1..Len(s) \/ i = Len(s) + 1
  BY <1>1
<1>5. 1..Len(s) \subseteq 1..Len(t) /\ Len(s) + 1 \in 1..Len(t)
  BY <1>1
<1>6. \A d : d \in ToSet(t) <=> \E i \in 1..Len(t) : t[i] = d
  BY <1>1, InToSet
<1>7. \A d : d \in ToSet(s) <=> \E i \in 1..Len(s) : s[i] = d
  BY InToSet
<1>8. \A d : d \in ToSet(t) <=> d \in ToSet(s) \/ d = e
  BY <1>1, <1>4, <1>5, <1>6, <1>7
<1> QED BY <1>1, <1>3, <1>8 DEF t

(* What is left when the first element is taken.                            *)
LEMMA TailInjective ==
  ASSUME NEW S, NEW s \in Seq(S), s # <<>>, IsInjective(s)
  PROVE  /\ Tail(s) \in Seq(S)
         /\ Head(s) \in ToSet(s)
         /\ IsInjective(Tail(s))
         /\ ToSet(Tail(s)) = ToSet(s) \ {Head(s)}
<1> DEFINE t == Tail(s)
<1>1. /\ Len(s) \in Nat \ {0} /\ t \in Seq(S) /\ Head(s) = s[1] /\ Len(t) = Len(s) - 1
      /\ \A j \in 1..(Len(s) - 1) : t[j] = s[j + 1]
  BY HeadTailProperties, EmptySeq, LenProperties
<1>2. \A j, k \in 1..Len(s) : s[j] = s[k] => j = k
  BY DEF IsInjective
<1> HIDE DEF t
<1>3. IsInjective(t)
  BY <1>1, <1>2 DEF IsInjective
<1>4. \A k \in 1..Len(t) : k + 1 \in 1..Len(s) /\ t[k] = s[k + 1] /\ s[k + 1] # s[1]
  BY <1>1, <1>2
<1>5. \A j \in 1..Len(s) : s[j] # s[1] => j - 1 \in 1..Len(t) /\ t[j - 1] = s[j]
  BY <1>1
<1>6. /\ \A e : e \in ToSet(t) <=> \E k \in 1..Len(t) : t[k] = e
      /\ \A e : e \in ToSet(s) <=> \E k \in 1..Len(s) : s[k] = e
  BY <1>1, InToSet
<1>7. \A e \in ToSet(t) : e \in ToSet(s) /\ e # s[1]
  BY <1>4, <1>6
<1>8. \A e \in ToSet(s) : e # s[1] => e \in ToSet(t)
  BY <1>5, <1>6
<1>9. s[1] \in ToSet(s)
  BY <1>1, <1>6
<1> QED BY <1>1, <1>3, <1>7, <1>8, <1>9 DEF t

-----------------------------------------------------------------------------
(* The types of everything but the queues.                                  *)
Types ==
  /\ pc \in [Callers -> {"idle", "dialling", "found"} \cup Exchanges]
  /\ service \in [Callers -> Services \cup {NoService}]
  /\ conn \in [Callers -> Conns \cup {None}]
  /\ life \in [Conns -> {"unused", "dialling", "open", "down", "closed"}]
  /\ owner \in [Conns -> Services \cup {NoService}]
  /\ connections \in [Services -> Conns \cup {None}]
  /\ flags \subseteq Services
  /\ state \in [Services -> Conns \cup {None}]
  /\ seed \in [Conns -> Callers \cup {Nobody}]
  /\ session \in [Conns -> {"new", "started", "answered"}]
  /\ overlap \subseteq Services
  /\ crossed \subseteq Conns

(* A caller has a service and a connection exactly while it has a call.     *)
Engaged ==
  \A p \in Callers :
    IF pc[p] = "idle" THEN service[p] = NoService /\ conn[p] = None
    ELSE service[p] \in Services /\ conn[p] \in Conns

TypesInv == Types /\ Engaged

(* The queues, as TypeOK has them, without duplicates.                      *)
QueuesInv ==
  /\ queue \in [Conns -> Seq(Callers)]
  /\ \A c \in Conns : IsInjective(queue[c])
  /\ \A p \in Callers, c \in Conns :
       p \in ToSet(queue[c]) <=> conn[p] = c /\ pc[p] \in Exchanges

(* The session never falls back, and a caller that waits for the attributes *)
(* or for the reply to a request got there through the exchanges before.    *)
SessionInv ==
  /\ StateIsReady
  /\ NoEarlyRequest

(* Which connection belongs to whom.  A dial of a service that had no rival *)
(* found no open connection, and finds none when it ends.                   *)
OwnersInv ==
  /\ \A p \in Callers : pc[p] = "dialling" =>
       /\ life[conn[p]] = "dialling"
       /\ owner[conn[p]] = service[p]
       /\ \A q \in Callers : q # p /\ conn[q] = conn[p] => pc[q] = "idle"
  /\ \A s \in Services : connections[s] # None =>
       /\ owner[connections[s]] = s
       /\ life[connections[s]] \notin {"unused", "dialling"}
  /\ \A c \in Conns : life[c] # "unused" => owner[c] \in Services
  /\ \A p \in Callers : pc[p] # "idle" => life[conn[p]] # "unused"

NoRivals ==
  \A p \in Callers :
    pc[p] = "dialling" /\ service[p] \notin Records \cup overlap =>
      /\ \A q \in Callers : pc[q] = "dialling" /\ service[q] = service[p] => q = p
      /\ \A c \in Conns : owner[c] = service[p] => life[c] # "open"

TrackedInv == OwnersInv /\ NoRivals /\ TrackedUnlessOverlapped

-----------------------------------------------------------------------------
LEMMA InitTypes == Init => TypesInv
  BY NamesAssumption DEF Init, TypesInv, Types, Engaged, None, Conns

(* Every step, one per action, keeps the types.                             *)
LEMMA NextTypes == TypesInv /\ [Next]_vars => TypesInv'
<1> SUFFICES ASSUME TypesInv, [Next]_vars PROVE TypesInv'
  OBVIOUS
<1> USE NamesAssumption DEF TypesInv, Types, Engaged, Goto, None, Exchanges
<1>0. \A c \in Conns : c # None /\ c \in Nat
  BY MaxConnsAssumption DEF Conns
<1>1. ASSUME NEW p \in Callers, NEW s \in Services, UseState(p, s) PROVE TypesInv'
  <2>1. state[s] \in Conns
    BY <1>1 DEF UseState, StateAnswers, Connected
  <2> QED BY <1>1, <2>1 DEF UseState, Asks, Enqueue, connVars, systemVars,
                            hostVars, historyVars
<1>2. ASSUME NEW p \in Callers, NEW s \in Services, Lookup(p, s) PROVE TypesInv'
  <2>1. connections[s] \in Conns
    BY <1>2 DEF Lookup, Connected
  <2> QED BY <1>2, <2>1 DEF Lookup, Asks, connVars, systemVars, hostVars,
                            historyVars
<1>3. ASSUME NEW p \in Callers, NEW s \in Services, Dial(p, s) PROVE TypesInv'
  BY <1>3 DEF Dial, Asks, systemVars, hostVars
<1>4. ASSUME NEW p \in Callers, Dialled(p) PROVE TypesInv'
  BY <1>4 DEF Dialled, hostVars, historyVars
<1>5. ASSUME NEW p \in Callers, DialFails(p) PROVE TypesInv'
  BY <1>5 DEF DialFails, Ends, systemVars, hostVars, historyVars
<1>6. ASSUME NEW p \in Callers, Handshake(p) PROVE TypesInv'
  <2>1. CASE StartHandshake(p)
    BY <2>1 DEF StartHandshake, Enqueue, connVars, systemVars, hostVars
  <2>2. CASE TrustFlag(p)
    BY <2>2 DEF TrustFlag, Enqueue, connVars, systemVars, hostVars, historyVars
  <2>3. CASE RecordsHandshake(p)
    BY <2>3 DEF RecordsHandshake, Ends, connVars, systemVars, hostVars,
                historyVars
  <2>4. CASE SeedReply(p)
    BY <2>4 DEF SeedReply, HasReply, NextExchange, connVars, systemVars,
                historyVars
  <2>5. CASE FilesSeedReply(p)
    BY <2>5 DEF FilesSeedReply, Ends, connVars, systemVars, historyVars
  <2>6. CASE StartReply(p)
    BY <2>6 DEF StartReply, HasReply, NextExchange, Reached, connVars,
                systemVars, historyVars
  <2>7. CASE StartRejected(p)
    BY <2>7 DEF StartRejected, Ends, connVars, systemVars, hostVars,
                historyVars
  <2>8. CASE AttributesReply(p)
    BY <2>8 DEF AttributesReply, HasReply, NextExchange, Reached, connVars,
                historyVars
  <2> QED BY <1>6, <2>1, <2>2, <2>3, <2>4, <2>5, <2>6, <2>7, <2>8 DEF Handshake
<1>7. ASSUME NEW p \in Callers, RequestReply(p) \/ Refused(p) \/ ExchangeFails(p)
      PROVE  TypesInv'
  BY <1>7 DEF RequestReply, Refused, ExchangeFails, Ends, connVars, systemVars,
              hostVars, historyVars
<1>8. ASSUME NEW c \in Conns, Drop(c) PROVE TypesInv'
  BY <1>8 DEF Drop, callerVars, systemVars, hostVars, historyVars
<1>9. ASSUME NEW s \in Services, DisconnectService(s) PROVE TypesInv'
  BY <1>9 DEF DisconnectService, Shut, callerVars, hostVars, historyVars
<1>10. ASSUME NEW s \in Services, SetServerAttributes(s) PROVE TypesInv'
  BY <1>10 DEF SetServerAttributes, callerVars, connVars, hostVars, historyVars
<1>11. CASE Close
  BY <1>11 DEF Close, Shut, callerVars, hostVars, historyVars
<1>12. CASE UNCHANGED vars
  BY <1>12 DEF vars, callerVars, connVars, systemVars, hostVars, historyVars
<1> QED BY <1>1, <1>2, <1>3, <1>4, <1>5, <1>6, <1>7, <1>8, <1>9, <1>10, <1>11,
           <1>12 DEF Next

LEMMA TypesAlways == Spec => []TypesInv
<1> QED BY InitTypes, NextTypes, PTL DEF Spec

-----------------------------------------------------------------------------
(* A caller that is in no queue joins the one of its connection.            *)
LEMMA QueueJoined ==
  ASSUME TypesInv, TypesInv', QueuesInv, NEW p \in Callers, NEW c \in Conns,
         pc[p] \notin Exchanges, pc'[p] \in Exchanges, conn'[p] = c,
         \A q \in Callers \ {p} : pc'[q] = pc[q] /\ conn'[q] = conn[q],
         queue' = [queue EXCEPT ![c] = Append(@, p)]
  PROVE  QueuesInv'
<1>1. queue[c] \in Seq(Callers) /\ IsInjective(queue[c]) /\ p \notin ToSet(queue[c])
  BY DEF QueuesInv
<1>2. /\ Append(queue[c], p) \in Seq(Callers)
      /\ IsInjective(Append(queue[c], p))
      /\ ToSet(Append(queue[c], p)) = ToSet(queue[c]) \cup {p}
  BY <1>1, PushInjective
<1>3. queue'[c] = Append(queue[c], p) /\ \A d \in Conns \ {c} : queue'[d] = queue[d]
  BY DEF QueuesInv
<1>4. queue' \in [Conns -> Seq(Callers)]
  BY <1>2 DEF QueuesInv
<1>5. \A d \in Conns : IsInjective(queue'[d])
  BY <1>2, <1>3 DEF QueuesInv
<1>6. \A q \in Callers, d \in Conns :
        q \in ToSet(queue'[d]) <=> conn'[q] = d /\ pc'[q] \in Exchanges
  BY <1>2, <1>3 DEF QueuesInv
<1> QED BY <1>4, <1>5, <1>6 DEF QueuesInv

(* The first of a queue goes behind the others.                             *)
LEMMA QueueRotated ==
  ASSUME TypesInv, TypesInv', QueuesInv, NEW p \in Callers, NEW c \in Conns,
         pc[p] \in Exchanges, conn[p] = c, Head(queue[c]) = p,
         pc'[p] \in Exchanges, conn' = conn,
         \A q \in Callers \ {p} : pc'[q] = pc[q],
         queue' = [queue EXCEPT ![c] = Append(Tail(@), p)]
  PROVE  QueuesInv'
<1> DEFINE t == Tail(queue[c])
<1>1. queue[c] \in Seq(Callers) /\ IsInjective(queue[c]) /\ p \in ToSet(queue[c])
  BY DEF QueuesInv
<1>2. queue[c] # <<>>
  BY <1>1 DEF ToSet
<1>3. t \in Seq(Callers) /\ IsInjective(t) /\ ToSet(t) = ToSet(queue[c]) \ {p}
  BY <1>1, <1>2, TailInjective
<1>4. p \notin ToSet(t)
  BY <1>3
<1> HIDE DEF t
<1>5. /\ Append(t, p) \in Seq(Callers)
      /\ IsInjective(Append(t, p))
      /\ ToSet(Append(t, p)) = ToSet(t) \cup {p}
  BY <1>3, <1>4, PushInjective
<1>6. queue'[c] = Append(t, p) /\ \A d \in Conns \ {c} : queue'[d] = queue[d]
  BY DEF QueuesInv, t
<1>7. queue' = [queue EXCEPT ![c] = Append(t, p)]
  BY DEF t
<1>8. queue' \in [Conns -> Seq(Callers)]
  BY <1>5, <1>7 DEF QueuesInv
<1>9. \A d \in Conns : IsInjective(queue'[d])
  BY <1>5, <1>6 DEF QueuesInv
<1>10. \A d \in Conns : ToSet(queue'[d]) = ToSet(queue[d])
  <2>1. queue'[c] = Append(t, p)
    BY <1>6
  <2>2. ToSet(queue'[c]) = (ToSet(queue[c]) \ {p}) \cup {p}
    BY <1>3, <1>5, <2>1
  <2>3. p \in ToSet(queue[c])
    BY <1>1
  <2>4. ToSet(queue'[c]) = ToSet(queue[c])
    BY <2>2, <2>3
  <2> QED BY <1>6, <2>4
<1>11. \A q \in Callers, d \in Conns :
         q \in ToSet(queue'[d]) <=> conn'[q] = d /\ pc'[q] \in Exchanges
  BY <1>10 DEF QueuesInv
<1> QED BY <1>8, <1>9, <1>11 DEF QueuesInv

(* The first of a queue leaves it.                                          *)
LEMMA QueueLeft ==
  ASSUME TypesInv, TypesInv', QueuesInv, NEW p \in Callers, NEW c \in Conns,
         pc[p] \in Exchanges, conn[p] = c, Head(queue[c]) = p,
         pc'[p] \notin Exchanges,
         \A q \in Callers \ {p} : pc'[q] = pc[q] /\ conn'[q] = conn[q],
         queue' = [queue EXCEPT ![c] = Tail(@)]
  PROVE  QueuesInv'
<1>1. queue[c] \in Seq(Callers) /\ IsInjective(queue[c]) /\ p \in ToSet(queue[c])
  BY DEF QueuesInv
<1>2. queue[c] # <<>>
  BY <1>1 DEF ToSet
<1>3. /\ Tail(queue[c]) \in Seq(Callers)
      /\ IsInjective(Tail(queue[c]))
      /\ ToSet(Tail(queue[c])) = ToSet(queue[c]) \ {p}
  BY <1>1, <1>2, TailInjective
<1>4. queue'[c] = Tail(queue[c]) /\ \A d \in Conns \ {c} : queue'[d] = queue[d]
  BY DEF QueuesInv
<1>5. queue' \in [Conns -> Seq(Callers)]
  BY <1>3 DEF QueuesInv
<1>6. \A d \in Conns : IsInjective(queue'[d])
  BY <1>3, <1>4 DEF QueuesInv
<1>7. \A q \in Callers, d \in Conns :
        q \in ToSet(queue'[d]) <=> conn'[q] = d /\ pc'[q] \in Exchanges
  BY <1>1, <1>3, <1>4 DEF QueuesInv
<1> QED BY <1>5, <1>6, <1>7 DEF QueuesInv

(* Nobody joins or leaves a queue.                                          *)
LEMMA QueueKept ==
  ASSUME QueuesInv, queue' = queue,
         \A q \in Callers :
            \/ pc'[q] \notin Exchanges /\ pc[q] \notin Exchanges
            \/ pc'[q] = pc[q] /\ conn'[q] = conn[q]
  PROVE  QueuesInv'
  BY DEF QueuesInv

LEMMA InitQueues == Init => QueuesInv
<1> SUFFICES ASSUME Init PROVE QueuesInv
  OBVIOUS
<1>1. <<>> \in Seq(Callers) /\ ToSet(<<>>) = {} /\ IsInjective(<<>>)
  BY EmptySeq DEF ToSet, IsInjective
<1> QED BY <1>1 DEF Init, QueuesInv, Exchanges

LEMMA NextQueues == TypesInv /\ TypesInv' /\ QueuesInv /\ [Next]_vars => QueuesInv'
<1> SUFFICES ASSUME TypesInv, TypesInv', QueuesInv, [Next]_vars PROVE QueuesInv'
  OBVIOUS
<1>0. Types /\ Types' /\ Engaged
  BY DEF TypesInv
<1>a. Exchanges = {"seed", "start", "attributes", "request"}
  BY DEF Exchanges
<1>1. ASSUME NEW p \in Callers, NEW s \in Services, UseState(p, s) PROVE QueuesInv'
  <2>1. state[s] \in Conns
    BY <1>0, <1>1 DEF UseState, StateAnswers, Connected, Types
  <2> QED BY <1>0, <1>a, <1>1, <2>1, QueueJoined
          DEF UseState, Asks, Enqueue, Goto, Types
<1>2. ASSUME NEW p \in Callers, NEW s \in Services, Lookup(p, s) \/ Dial(p, s)
      PROVE  QueuesInv'
  BY <1>0, <1>a, <1>2, QueueKept DEF Lookup, Dial, Asks, Goto, Types
<1>3. ASSUME NEW p \in Callers,
             Dialled(p) \/ DialFails(p) \/ RecordsHandshake(p)
      PROVE  QueuesInv'
  BY <1>0, <1>a, <1>3, QueueKept DEF Dialled, DialFails, RecordsHandshake, Ends,
     Goto, Types
<1>4. ASSUME NEW p \in Callers, StartHandshake(p) \/ TrustFlag(p)
      PROVE  QueuesInv'
  <2>1. conn[p] \in Conns
    BY <1>0, <1>4 DEF StartHandshake, TrustFlag, Engaged
  <2> QED BY <1>0, <1>a, <1>4, <2>1, QueueJoined
          DEF StartHandshake, TrustFlag, Enqueue, Goto, Types
<1>5. ASSUME NEW p \in Callers, SeedReply(p) \/ StartReply(p) \/ AttributesReply(p)
      PROVE  QueuesInv'
  <2>1. conn[p] \in Conns
    BY <1>0, <1>5 DEF SeedReply, StartReply, AttributesReply, HasReply, Engaged
  <2> QED BY <1>0, <1>a, <1>5, <2>1, QueueRotated
          DEF SeedReply, StartReply, AttributesReply, HasReply, NextExchange,
              Goto, Types
<1>6. ASSUME NEW p \in Callers,
             \/ FilesSeedReply(p) \/ StartRejected(p) \/ RequestReply(p)
             \/ Refused(p) \/ ExchangeFails(p)
      PROVE  QueuesInv'
  <2>1. /\ pc[p] \in Exchanges /\ Head(queue[conn[p]]) = p
        /\ Leave(conn[p]) /\ Ends(p)
    BY <1>a, <1>6 DEF FilesSeedReply, StartRejected, RequestReply, Refused,
                     ExchangeFails, HasReply
  <2>2. conn[p] \in Conns
    BY <1>0, <1>a, <2>1 DEF Engaged
  <2> QED BY <1>0, <1>a, <2>1, <2>2, QueueLeft DEF Leave, Ends, Goto, Types
<1>7. ASSUME \/ \E c \in Conns : Drop(c)
             \/ \E s \in Services : DisconnectService(s) \/ SetServerAttributes(s)
             \/ Close
             \/ UNCHANGED vars
      PROVE  QueuesInv'
  BY <1>7, QueueKept DEF Drop, DisconnectService, SetServerAttributes, Close,
     vars, callerVars
<1> QED BY <1>1, <1>2, <1>3, <1>4, <1>5, <1>6, <1>7 DEF Next, Handshake

(* A caller is in the queue of its connection, once, while it has an        *)
(* exchange, and every variable keeps its type.                             *)
THEOREM TypeCorrect == Spec => []TypeOK
<1>1. TypesInv /\ QueuesInv => TypeOK
  BY DEF TypesInv, Types, QueuesInv, TypeOK
<1> QED BY <1>1, InitQueues, NextQueues, TypesAlways, PTL DEF Spec

-----------------------------------------------------------------------------
LEMMA InitSession == Init => SessionInv
  BY DEF Init, SessionInv, StateIsReady, NoEarlyRequest

(* A step that leaves the state objects alone, lets no session fall back    *)
(* and sends no new request outside the file service.                       *)
LEMMA QuietSession ==
  ASSUME TypesInv, SessionInv, state' = state, Types',
         \A c \in Conns : session[c] = "answered" => session'[c] = "answered",
         \A p \in Callers : pc'[p] = "request" =>
            \/ service'[p] \in Files
            \/ pc[p] = "request" /\ service'[p] = service[p] /\ conn'[p] = conn[p]
  PROVE  SessionInv'
<1>1. StateIsReady'
  BY DEF SessionInv, StateIsReady, TypesInv, Types
<1>2. NoEarlyRequest'
  BY DEF SessionInv, NoEarlyRequest, TypesInv, Types, Engaged
<1> QED BY <1>1, <1>2 DEF SessionInv

LEMMA NextSession == TypesInv /\ TypesInv' /\ SessionInv /\ [Next]_vars => SessionInv'
<1> SUFFICES ASSUME TypesInv, TypesInv', SessionInv, [Next]_vars PROVE SessionInv'
  OBVIOUS
<1> USE DEF Exchanges
<1>0. Types /\ Types' /\ Engaged
  BY DEF TypesInv
<1>1. ASSUME NEW p \in Callers, NEW s \in Services, UseState(p, s) PROVE SessionInv'
  <2>1. state' = state /\ session' = session /\ state[s] # None
    BY <1>1 DEF UseState, StateAnswers, Connected, systemVars, hostVars
  <2>2. StateIsReady'
    BY <2>1 DEF SessionInv, StateIsReady
  <2>3. session[state[s]] = "answered"
    BY <2>1 DEF SessionInv, StateIsReady
  <2>4. conn'[p] = state[s] /\ \A q \in Callers \ {p} :
           pc'[q] = pc[q] /\ conn'[q] = conn[q] /\ service'[q] = service[q]
    BY <1>0, <1>1 DEF UseState, Asks, Enqueue, Goto, Types
  <2> QED BY <2>1, <2>2, <2>3, <2>4 DEF SessionInv, NoEarlyRequest
<1>2. ASSUME NEW p \in Callers, NEW s \in Services, Lookup(p, s) \/ Dial(p, s)
      PROVE  SessionInv'
  BY <1>0, <1>2, QuietSession DEF Lookup, Dial, Asks, Goto, systemVars, hostVars,
     Types
<1>3. ASSUME NEW p \in Callers, Dialled(p) PROVE SessionInv'
  BY <1>0, <1>3, QuietSession DEF Dialled, Goto, hostVars, Types
<1>4. ASSUME NEW p \in Callers,
             \/ DialFails(p) \/ RecordsHandshake(p) \/ FilesSeedReply(p)
             \/ StartRejected(p) \/ RequestReply(p) \/ Refused(p)
             \/ ExchangeFails(p)
      PROVE  SessionInv'
  <2>1. Ends(p) /\ session' = session /\ state' = state
    BY <1>4 DEF DialFails, RecordsHandshake, FilesSeedReply, StartRejected,
                RequestReply, Refused, ExchangeFails, systemVars, hostVars
  <2> QED BY <1>0, <2>1, QuietSession DEF Ends, Goto, Types
<1>5. ASSUME NEW p \in Callers, StartHandshake(p) PROVE SessionInv'
  BY <1>0, <1>5, QuietSession DEF StartHandshake, Enqueue, Goto, systemVars,
     hostVars, Types
<1>6. ASSUME NEW p \in Callers, TrustFlag(p) PROVE SessionInv'
  BY <1>0, <1>6, QuietSession DEF TrustFlag, Enqueue, Goto, systemVars, hostVars,
     Types
<1>7. ASSUME NEW p \in Callers, SeedReply(p) PROVE SessionInv'
  BY <1>0, <1>7, QuietSession DEF SeedReply, NextExchange, Goto, systemVars, Types
<1>8. ASSUME NEW p \in Callers, StartReply(p) PROVE SessionInv'
  <2>1. \A c \in Conns : session[c] = "answered" => session'[c] = "answered"
    BY <1>0, <1>8 DEF StartReply, Reached, Types
  <2> QED BY <1>0, <1>8, <2>1, QuietSession DEF StartReply, NextExchange, Goto,
             systemVars, Types
<1>9. ASSUME NEW p \in Callers, AttributesReply(p) PROVE SessionInv'
  <2>1. conn[p] \in Conns
    BY <1>0, <1>9 DEF AttributesReply, HasReply, Engaged
  <2>2. /\ session'[conn[p]] = "answered"
        /\ \A c \in Conns : session[c] = "answered" => session'[c] = "answered"
    BY <1>0, <1>9, <2>1 DEF AttributesReply, Reached, Types
  <2>3. \A s \in Services : state'[s] = state[s] \/ state'[s] = conn[p]
    BY <1>0, <1>9 DEF AttributesReply, Types
  <2>4. StateIsReady'
    BY <1>0, <2>2, <2>3 DEF SessionInv, StateIsReady, Types
  <2>5. NoEarlyRequest'
    <3>1. conn' = conn /\ service' = service
      BY <1>9 DEF AttributesReply
    <3>2. \A q \in Callers : q # p => pc'[q] = pc[q]
      BY <1>0, <1>9 DEF AttributesReply, NextExchange, Goto, Types
    <3> QED BY <1>0, <2>2, <3>1, <3>2 DEF SessionInv, NoEarlyRequest, Types, Engaged
  <2> QED BY <2>4, <2>5 DEF SessionInv
<1>10. ASSUME \/ \E c \in Conns : Drop(c)
              \/ \E s \in Services : DisconnectService(s) \/ SetServerAttributes(s)
              \/ Close
       PROVE  SessionInv'
  <2>1. UNCHANGED <<pc, service, conn, state, session>>
    BY <1>10 DEF Drop, DisconnectService, SetServerAttributes, Close, callerVars,
       systemVars, hostVars
  <2> QED BY <2>1 DEF SessionInv, StateIsReady, NoEarlyRequest
<1>11. CASE UNCHANGED vars
  BY <1>11 DEF vars, callerVars, systemVars, hostVars, SessionInv, StateIsReady,
     NoEarlyRequest
<1>12. ASSUME NEW p \in Callers, Handshake(p) PROVE SessionInv'
  BY <1>12, <1>5, <1>6, <1>7, <1>8, <1>9, <1>4 DEF Handshake
<1> QED BY <1>1, <1>2, <1>3, <1>4, <1>10, <1>11, <1>12 DEF Next

(* The state object of commands and data queues names a connection whose    *)
(* handshake is complete, however many callers start it at once.            *)
THEOREM StateObjectsReady == Spec => []StateIsReady
<1>1. SessionInv => StateIsReady
  BY DEF SessionInv
<1> QED BY <1>1, InitSession, NextSession, TypesAlways, PTL DEF Spec

(* Outside the file service, no request before the handshake is complete.   *)
THEOREM RequestsAfterHandshake == Spec => []NoEarlyRequest
<1>1. SessionInv => NoEarlyRequest
  BY DEF SessionInv
<1> QED BY <1>1, InitSession, NextSession, TypesAlways, PTL DEF Spec

-----------------------------------------------------------------------------
(* Seeds.  Two callers between seed and server start on one connection are  *)
(* a crossed handshake; without one, the host still has the seeds of the    *)
(* caller that is about to use them.                                        *)
Shakes(p) == pc[p] \in {"seed", "start"}

OneShakes ==
  \A p, q \in Callers :
    Shakes(p) /\ Shakes(q) /\ conn[p] = conn[q] /\ p # q => conn[p] \in crossed

SeedsInv == OneShakes /\ StaleOnlyWhenCrossed

LEMMA InitSeeds == Init => SeedsInv
  BY DEF Init, SeedsInv, OneShakes, StaleOnlyWhenCrossed, Shakes

(* Steps in which no caller begins a handshake or goes on in one, and no    *)
(* seed changes: callers may only leave.                                    *)
LEMMA QuietSeeds ==
  ASSUME SeedsInv, seed' = seed, crossed' = crossed,
         \A p \in Callers : pc'[p] \in {"seed", "start"} =>
            pc'[p] = pc[p] /\ conn'[p] = conn[p]
  PROVE  SeedsInv'
  BY DEF SeedsInv, OneShakes, StaleOnlyWhenCrossed, Shakes

(* A reply to p that changes the seed of its connection: every other caller *)
(* there that is in its handshake crossed that of p.                        *)
LEMMA ReplySeeds ==
  ASSUME TypesInv, SeedsInv, NEW p \in Callers, Shakes(p), crossed' = crossed,
         \A c \in Conns : c # conn[p] => seed'[c] = seed[c],
         \A q \in Callers : q # p => pc'[q] = pc[q] /\ conn'[q] = conn[q],
         \/ pc'[p] = "start" /\ conn'[p] = conn[p] /\ seed'[conn[p]] = p
         \/ pc'[p] \notin {"seed", "start"}
  PROVE  SeedsInv'
<1>1. OneShakes'
  BY DEF SeedsInv, OneShakes, Shakes
<1>2. ASSUME NEW q \in Callers, pc'[q] = "start", seed'[conn'[q]] # q
      PROVE  conn'[q] \in crossed'
  <2>1. CASE q = p
    BY <1>2, <2>1
  <2>2. CASE q # p /\ conn[q] = conn[p]
    BY <1>2, <2>2 DEF SeedsInv, OneShakes, Shakes
  <2>3. CASE q # p /\ conn[q] # conn[p]
    <3>1. conn[q] \in Conns
      BY <1>2, <2>3 DEF TypesInv, Engaged
    <3> QED BY <1>2, <2>3, <3>1 DEF SeedsInv, StaleOnlyWhenCrossed
  <2> QED BY <2>1, <2>2, <2>3
<1> QED BY <1>1, <1>2 DEF SeedsInv, StaleOnlyWhenCrossed

LEMMA NextSeeds == TypesInv /\ SeedsInv /\ [Next]_vars => SeedsInv'
<1> SUFFICES ASSUME TypesInv, SeedsInv, [Next]_vars PROVE SeedsInv'
  OBVIOUS
<1>0. Types /\ Engaged
  BY DEF TypesInv
<1>1. ASSUME NEW p \in Callers, NEW s \in Services,
             UseState(p, s) \/ Lookup(p, s) \/ Dial(p, s)
      PROVE  SeedsInv'
  BY <1>0, <1>1, QuietSeeds DEF UseState, Lookup, Dial, Asks, Enqueue, Goto,
     hostVars, historyVars, Types
<1>2. ASSUME NEW p \in Callers,
             Dialled(p) \/ TrustFlag(p) \/ AttributesReply(p)
      PROVE  SeedsInv'
  BY <1>0, <1>2, QuietSeeds DEF Dialled, TrustFlag, AttributesReply, Enqueue,
     NextExchange, Goto, hostVars, historyVars, Types
<1>3. ASSUME NEW p \in Callers,
             \/ DialFails(p) \/ RecordsHandshake(p) \/ StartRejected(p)
             \/ RequestReply(p) \/ Refused(p) \/ ExchangeFails(p)
      PROVE  SeedsInv'
  <2>1. Ends(p) /\ seed' = seed /\ crossed' = crossed
    BY <1>3 DEF DialFails, RecordsHandshake, StartRejected, RequestReply, Refused,
                ExchangeFails, hostVars, historyVars
  <2> QED BY <1>0, <2>1, QuietSeeds DEF Ends, Goto, Types
<1>4. ASSUME NEW p \in Callers, StartHandshake(p) PROVE SeedsInv'
  <2>1. /\ conn' = conn /\ seed' = seed /\ pc'[p] = "seed" /\ crossed \subseteq crossed'
        /\ \A q \in Callers : q # p => pc'[q] = pc[q]
    BY <1>0, <1>4 DEF StartHandshake, Enqueue, Goto, hostVars, Types
  <2>2. ASSUME NEW q \in Callers, Shakes(q), conn[q] = conn[p]
        PROVE  conn[p] \in crossed'
    BY <1>4, <2>2 DEF StartHandshake, Shaking, Shakes
  <2>3. OneShakes'
    BY <2>1, <2>2 DEF SeedsInv, OneShakes, Shakes
  <2> QED BY <2>1, <2>3 DEF SeedsInv, StaleOnlyWhenCrossed
<1>5. ASSUME NEW p \in Callers, SeedReply(p) PROVE SeedsInv'
  <2>1. conn[p] \in Conns /\ Shakes(p)
    BY <1>0, <1>5 DEF SeedReply, HasReply, Engaged, Shakes
  <2> QED BY <1>0, <1>5, <2>1, ReplySeeds DEF SeedReply, NextExchange, Goto,
             historyVars, Types
<1>6. ASSUME NEW p \in Callers, FilesSeedReply(p) PROVE SeedsInv'
  <2>1. Shakes(p)
    BY <1>6 DEF FilesSeedReply, HasReply, Shakes
  <2> QED BY <1>0, <1>6, <2>1, ReplySeeds DEF FilesSeedReply, Ends, Goto,
             historyVars, Types
<1>7. ASSUME NEW p \in Callers, StartReply(p) PROVE SeedsInv'
  <2>1. Shakes(p)
    BY <1>7 DEF StartReply, HasReply, Shakes
  <2> QED BY <1>0, <1>7, <2>1, ReplySeeds DEF StartReply, NextExchange, Goto,
             historyVars, Types
<1>8. ASSUME \/ \E c \in Conns : Drop(c)
             \/ \E s \in Services : DisconnectService(s) \/ SetServerAttributes(s)
             \/ Close
      PROVE  SeedsInv'
  <2>1. UNCHANGED <<pc, conn, seed, crossed>>
    BY <1>8 DEF Drop, DisconnectService, SetServerAttributes, Close, callerVars,
       hostVars, historyVars
  <2> QED BY <2>1, QuietSeeds
<1>9. CASE UNCHANGED vars
  BY <1>9, QuietSeeds DEF vars, callerVars, hostVars, historyVars
<1>10. ASSUME NEW p \in Callers, Handshake(p) PROVE SeedsInv'
  BY <1>10, <1>2, <1>3, <1>4, <1>5, <1>6, <1>7 DEF Handshake
<1> QED BY <1>1, <1>2, <1>3, <1>8, <1>9, <1>10 DEF Next

(* A server start with outdated seeds takes two handshakes on one           *)
(* connection, whatever else fails, drops or is closed around them.         *)
THEOREM SeedsAreFresh == Spec => []StaleOnlyWhenCrossed
<1>1. SeedsInv => StaleOnlyWhenCrossed
  BY DEF SeedsInv
<1> QED BY <1>1, InitSeeds, NextSeeds, TypesAlways, PTL DEF Spec

-----------------------------------------------------------------------------
LEMMA InitTracked == Init => TrackedInv
  BY DEF Init, TrackedInv, OwnersInv, NoRivals, TrackedUnlessOverlapped, Conns

(* No dial starts or ends, no connection is opened and the map does not     *)
(* change, but for entries of connections that are open no longer.          *)
LEMMA QuietTracked ==
  ASSUME TypesInv, TypesInv', TrackedInv, owner' = owner, overlap' = overlap,
         \A p \in Callers : pc[p] = "dialling" <=> pc'[p] = "dialling",
         \A p \in Callers : pc'[p] # "idle" =>
            \/ service'[p] = service[p] /\ conn'[p] = conn[p] /\ pc[p] # "idle"
            \/ conn'[p] \in Conns /\ life[conn'[p]] = "open",
         \A c \in Conns : life'[c] # life[c] =>
            life[c] = "open" /\ life'[c] \in {"down", "closed"},
         \A s \in Services :
            \/ connections'[s] = connections[s]
            \/ connections'[s] = None /\ (connections[s] # None =>
                                             life'[connections[s]] # "open"),
         \A p \in Callers : pc[p] = "dialling" =>
            service'[p] = service[p] /\ conn'[p] = conn[p]
  PROVE  TrackedInv'
<1> USE DEF TypesInv, Types
<1>1. \A p \in Callers : pc[p] # "idle" => conn[p] \in Conns
  BY DEF Engaged
<1>2. OwnersInv'
  <2>1. ASSUME NEW p \in Callers, pc'[p] = "dialling"
        PROVE  /\ life'[conn'[p]] = "dialling"
               /\ owner'[conn'[p]] = service'[p]
               /\ \A q \in Callers : q # p /\ conn'[q] = conn'[p] => pc'[q] = "idle"
    <3>1. pc[p] = "dialling" /\ conn'[p] = conn[p] /\ service'[p] = service[p]
          /\ conn[p] \in Conns
      BY <1>1, <2>1
    <3>2. life[conn[p]] = "dialling" /\ owner[conn[p]] = service[p]
      BY <3>1 DEF TrackedInv, OwnersInv
    <3>3. life'[conn[p]] = "dialling"
      BY <3>1, <3>2
    <3>4. ASSUME NEW q \in Callers, q # p, conn'[q] = conn'[p] PROVE pc'[q] = "idle"
      <4> SUFFICES ASSUME pc'[q] # "idle" PROVE FALSE
        OBVIOUS
      <4>1. life[conn'[q]] # "open"
        BY <3>1, <3>2, <3>4
      <4>2. conn[q] = conn[p] /\ pc[q] # "idle"
        BY <3>1, <3>4, <4>1
      <4> QED BY <3>1, <3>4, <4>2 DEF TrackedInv, OwnersInv
    <3> QED BY <3>1, <3>2, <3>3, <3>4
  <2>2. ASSUME NEW s \in Services, connections'[s] # None
        PROVE  /\ owner'[connections'[s]] = s
               /\ life'[connections'[s]] \notin {"unused", "dialling"}
    <3>1. connections'[s] = connections[s] /\ connections[s] \in Conns
      BY <2>2
    <3> QED BY <2>2, <3>1 DEF TrackedInv, OwnersInv
  <2>3. \A c \in Conns : life'[c] # "unused" => owner'[c] \in Services
    BY DEF TrackedInv, OwnersInv
  <2>4. ASSUME NEW p \in Callers, pc'[p] # "idle" PROVE life'[conn'[p]] # "unused"
    <3>1. conn'[p] \in Conns /\ life[conn'[p]] # "unused"
      BY <1>1, <2>4 DEF TrackedInv, OwnersInv
    <3> QED BY <3>1
  <2> QED BY <2>1, <2>2, <2>3, <2>4 DEF OwnersInv
<1>3. NoRivals'
  BY DEF TrackedInv, NoRivals
<1>4. TrackedUnlessOverlapped'
  BY DEF TrackedInv, OwnersInv, TrackedUnlessOverlapped, None, Conns
<1> QED BY <1>2, <1>3, <1>4 DEF TrackedInv

LEMMA DialTracked ==
  ASSUME TypesInv, TypesInv', TrackedInv, NEW p \in Callers, NEW s \in Services,
         Dial(p, s)
  PROVE  TrackedInv'
<1> USE DEF TypesInv, Types
<1>1. PICK c \in Conns :
        /\ life[c] = "unused"
        /\ life' = [life EXCEPT ![c] = "dialling"]
        /\ owner' = [owner EXCEPT ![c] = s]
        /\ conn' = [conn EXCEPT ![p] = c]
  BY DEF Dial
<1>2. /\ pc[p] = "idle" /\ pc' = [pc EXCEPT ![p] = "dialling"]
      /\ service' = [service EXCEPT ![p] = s]
      /\ connections' = connections
      /\ overlap' = IF DialsOf(s) = {} THEN overlap ELSE overlap \cup {s}
      /\ s \in Records \/ ~Connected(connections[s])
  BY DEF Dial, Asks, Goto, systemVars
<1>3. \A q \in Callers : pc[q] # "idle" => conn[q] # c /\ conn[q] \in Conns
  BY <1>1 DEF TrackedInv, OwnersInv, Engaged
<1>4. \A t \in Services : connections[t] # c
  BY <1>1 DEF TrackedInv, OwnersInv, None, Conns
<1>5. OwnersInv'
  BY <1>1, <1>2, <1>3, <1>4 DEF TrackedInv, OwnersInv
<1>6. s \notin Records \cup overlap =>
         \A d \in Conns : owner[d] = s => life[d] # "open"
  BY <1>2 DEF TrackedInv, TrackedUnlessOverlapped, Connected, None, Conns
<1>7. \A q \in Callers : pc[q] = "dialling" /\ service[q] = s => s \in overlap'
  BY <1>2 DEF DialsOf
<1>8. overlap \subseteq overlap'
  BY <1>2
<1>9. NoRivals'
  <2> SUFFICES ASSUME NEW q \in Callers, pc'[q] = "dialling",
                      service'[q] \notin Records \cup overlap'
               PROVE  /\ \A r \in Callers :
                           pc'[r] = "dialling" /\ service'[r] = service'[q] => r = q
                      /\ \A d \in Conns : owner'[d] = service'[q] => life'[d] # "open"
    BY DEF NoRivals
  <2>1. CASE q = p
    BY <1>1, <1>2, <1>6, <1>7, <1>8, <2>1
  <2>2. CASE q # p
    BY <1>1, <1>2, <1>7, <1>8, <2>2 DEF TrackedInv, NoRivals
  <2> QED BY <2>1, <2>2
<1>10. TrackedUnlessOverlapped'
  BY <1>1, <1>2, <1>8 DEF TrackedInv, TrackedUnlessOverlapped
<1> QED BY <1>5, <1>9, <1>10 DEF TrackedInv

LEMMA DialledTracked ==
  ASSUME TypesInv, TypesInv', TrackedInv, NEW p \in Callers, Dialled(p)
  PROVE  TrackedInv'
<1> USE DEF TypesInv, Types
<1> DEFINE c == conn[p]
           s == service[p]
<1>1. /\ pc[p] = "dialling" /\ c \in Conns /\ s \in Services
      /\ owner[c] = s /\ life[c] = "dialling"
      /\ \A q \in Callers : q # p /\ conn[q] = c => pc[q] = "idle"
  BY DEF Dialled, TrackedInv, OwnersInv, Engaged
<1>2. /\ life' = [life EXCEPT ![c] = "open"]
      /\ connections' = IF s \in Records THEN connections
                        ELSE [connections EXCEPT ![s] = c]
      /\ pc' = [pc EXCEPT ![p] = "found"]
      /\ UNCHANGED <<service, conn, owner, overlap>>
  BY DEF Dialled, Goto, historyVars
<1> HIDE DEF c, s
<1>3. \A t \in Services : connections[t] # c
  BY <1>1 DEF TrackedInv, OwnersInv, None, Conns
<1>4. OwnersInv'
  <2>1. \A q \in Callers : pc'[q] = "dialling" =>
          /\ life'[conn'[q]] = "dialling"
          /\ owner'[conn'[q]] = service'[q]
          /\ \A r \in Callers : r # q /\ conn'[r] = conn'[q] => pc'[r] = "idle"
    BY <1>1, <1>2 DEF TrackedInv, OwnersInv, Engaged, c
  <2>2. \A t \in Services : connections'[t] # None =>
          /\ owner'[connections'[t]] = t
          /\ life'[connections'[t]] \notin {"unused", "dialling"}
    BY <1>1, <1>2, <1>3 DEF TrackedInv, OwnersInv
  <2> QED BY <1>1, <1>2, <2>1, <2>2 DEF TrackedInv, OwnersInv, Engaged
<1>5. s \notin Records \cup overlap =>
        /\ \A q \in Callers : pc[q] = "dialling" /\ service[q] = s => q = p
        /\ \A d \in Conns : owner[d] = s => life[d] # "open"
  BY <1>1 DEF TrackedInv, NoRivals, s
<1>6. NoRivals'
  BY <1>1, <1>2, <1>5 DEF TrackedInv, NoRivals
<1>7. TrackedUnlessOverlapped'
  BY <1>1, <1>2, <1>5 DEF TrackedInv, TrackedUnlessOverlapped, OwnersInv
<1> QED BY <1>4, <1>6, <1>7 DEF TrackedInv

LEMMA NextTracked == TypesInv /\ TypesInv' /\ TrackedInv /\ [Next]_vars => TrackedInv'
<1> SUFFICES ASSUME TypesInv, TypesInv', TrackedInv, [Next]_vars PROVE TrackedInv'
  OBVIOUS
<1> USE DEF Exchanges
<1>0. Types /\ Types' /\ Engaged
  BY DEF TypesInv
<1>1. ASSUME NEW p \in Callers, NEW s \in Services, UseState(p, s) \/ Lookup(p, s)
      PROVE  TrackedInv'
  <2>1. PICK c \in Conns : life[c] = "open" /\ conn' = [conn EXCEPT ![p] = c]
    BY <1>0, <1>1 DEF UseState, Lookup, StateAnswers, Connected, Types
  <2>2. /\ service' = [service EXCEPT ![p] = s]
        /\ pc[p] = "idle"
        /\ pc' = [pc EXCEPT ![p] = "request"] \/ pc' = [pc EXCEPT ![p] = "found"]
        /\ UNCHANGED <<owner, life, connections, overlap>>
    BY <1>1 DEF UseState, Lookup, Asks, Enqueue, Goto, connVars, systemVars,
                historyVars
  <2>3. \A q \in Callers : q # p => /\ pc'[q] = pc[q] /\ conn'[q] = conn[q]
                                    /\ service'[q] = service[q]
    BY <1>0, <2>1, <2>2 DEF Types
  <2>4. pc'[p] \in {"request", "found"} /\ conn'[p] = c
    BY <1>0, <2>1, <2>2 DEF Types
  <2>5. \A q \in Callers : pc[q] = "dialling" <=> pc'[q] = "dialling"
    BY <2>2, <2>3, <2>4
  <2>6. \A q \in Callers : pc'[q] # "idle" =>
            \/ service'[q] = service[q] /\ conn'[q] = conn[q] /\ pc[q] # "idle"
            \/ conn'[q] \in Conns /\ life[conn'[q]] = "open"
    BY <2>1, <2>3, <2>4
  <2>7. \A q \in Callers : pc[q] = "dialling" =>
            service'[q] = service[q] /\ conn'[q] = conn[q]
    BY <2>2, <2>3
  <2> QED BY <2>2, <2>5, <2>6, <2>7, QuietTracked
<1>2. ASSUME NEW p \in Callers, NEW s \in Services, Dial(p, s) PROVE TrackedInv'
  BY <1>2, DialTracked
<1>3. ASSUME NEW p \in Callers, Dialled(p) PROVE TrackedInv'
  BY <1>3, DialledTracked
<1>4. ASSUME NEW p \in Callers, DialFails(p) PROVE TrackedInv'
  <2> DEFINE c == conn[p]
  <2>1. /\ pc[p] = "dialling" /\ c \in Conns /\ life[c] = "dialling"
        /\ \A q \in Callers : q # p /\ conn[q] = c => pc[q] = "idle"
        /\ life' = [life EXCEPT ![c] = "down"]
        /\ pc' = [pc EXCEPT ![p] = "idle"]
        /\ service' = [service EXCEPT ![p] = NoService]
        /\ conn' = [conn EXCEPT ![p] = None]
        /\ UNCHANGED <<owner, connections, overlap>>
    BY <1>0, <1>4 DEF DialFails, Ends, Goto, systemVars, historyVars, TrackedInv,
                      OwnersInv, Engaged
  <2> HIDE DEF c
  <2>2. OwnersInv'
    BY <1>0, <2>1 DEF TrackedInv, OwnersInv, Types, Engaged
  <2>3. NoRivals'
    BY <1>0, <2>1 DEF TrackedInv, NoRivals, Types
  <2>4. TrackedUnlessOverlapped'
    BY <1>0, <2>1 DEF TrackedInv, TrackedUnlessOverlapped, Types
  <2> QED BY <2>2, <2>3, <2>4 DEF TrackedInv
<1>5. ASSUME NEW p \in Callers,
             Handshake(p) \/ RequestReply(p) \/ Refused(p) \/ ExchangeFails(p)
      PROVE  TrackedInv'
  <2>1. /\ pc[p] \in {"found"} \cup Exchanges
        /\ UNCHANGED <<owner, life, connections, overlap>>
    BY <1>5 DEF Handshake, StartHandshake, TrustFlag, RecordsHandshake, SeedReply,
       FilesSeedReply, StartReply, StartRejected, AttributesReply, RequestReply,
       Refused, ExchangeFails, HasReply, connVars, systemVars, historyVars
  <2>2. \/ /\ UNCHANGED <<service, conn>>
           /\ \E where \in Exchanges : pc' = [pc EXCEPT ![p] = where]
        \/ /\ service' = [service EXCEPT ![p] = NoService]
           /\ conn' = [conn EXCEPT ![p] = None]
           /\ pc' = [pc EXCEPT ![p] = "idle"]
    BY <1>5 DEF Handshake, StartHandshake, TrustFlag, RecordsHandshake, SeedReply,
       FilesSeedReply, StartReply, StartRejected, AttributesReply, RequestReply,
       Refused, ExchangeFails, Enqueue, NextExchange, Ends, Goto
  <2>3. \A q \in Callers : q # p => /\ pc'[q] = pc[q] /\ conn'[q] = conn[q]
                                    /\ service'[q] = service[q]
    BY <1>0, <2>2 DEF Types
  <2>4. /\ pc'[p] \in Exchanges \cup {"idle"}
        /\ pc'[p] # "idle" => service'[p] = service[p] /\ conn'[p] = conn[p]
    BY <1>0, <2>2 DEF Types
  <2>5. \A q \in Callers : pc[q] = "dialling" <=> pc'[q] = "dialling"
    BY <2>1, <2>3, <2>4
  <2>6. \A q \in Callers : pc'[q] # "idle" =>
           service'[q] = service[q] /\ conn'[q] = conn[q] /\ pc[q] # "idle"
    BY <2>1, <2>3, <2>4
  <2>7. \A q \in Callers : pc[q] = "dialling" =>
            service'[q] = service[q] /\ conn'[q] = conn[q]
    BY <2>1, <2>3
  <2> QED BY <2>1, <2>5, <2>6, <2>7, QuietTracked
<1>6. ASSUME UNCHANGED <<pc, service, conn, owner, overlap>>,
             \A c \in Conns : life'[c] # life[c] =>
                life[c] = "open" /\ life'[c] \in {"down", "closed"},
             \A s \in Services :
                \/ connections'[s] = connections[s]
                \/ connections'[s] = None /\ (connections[s] # None =>
                                                 life'[connections[s]] # "open")
      PROVE  TrackedInv'
  BY <1>6, QuietTracked
<1>7. ASSUME NEW c \in Conns, Drop(c) PROVE TrackedInv'
  <2>1. \A d \in Conns : life'[d] # life[d] => life[d] = "open" /\ life'[d] = "down"
    BY <1>0, <1>7 DEF Drop, Types
  <2> QED BY <1>6, <1>7, <2>1 DEF Drop, callerVars, systemVars, historyVars
<1>8. ASSUME Close \/ \E s \in Services : DisconnectService(s) PROVE TrackedInv'
  <2>1. UNCHANGED <<pc, service, conn, owner, overlap>>
    BY <1>8 DEF Close, DisconnectService, callerVars, historyVars
  <2>2. PICK cs : Shut(cs) /\ \A s \in Services :
          connections'[s] = connections[s] \/ (connections'[s] = None /\ connections[s] \in cs)
    <3>1. CASE Close
      BY <1>0, <3>1 DEF Close, Types
    <3>2. CASE \E s \in Services : DisconnectService(s)
      BY <1>0, <3>2 DEF DisconnectService, Types
    <3> QED BY <1>8, <3>1, <3>2
  <2>3. /\ \A c \in Conns : life'[c] # life[c] => life[c] = "open" /\ life'[c] = "closed"
        /\ \A c \in cs \cap Conns : life'[c] # "open"
    BY <1>0, <2>2 DEF Shut, Types
  <2>4. \A s \in Services : connections[s] # None => connections[s] \in Conns
    BY <1>0 DEF Types
  <2> QED BY <1>6, <2>1, <2>2, <2>3, <2>4
<1>9. ASSUME UNCHANGED vars \/ \E s \in Services : SetServerAttributes(s)
      PROVE  TrackedInv'
  <2>1. UNCHANGED <<pc, service, conn, owner, life, connections, overlap>>
    BY <1>9 DEF vars, SetServerAttributes, callerVars, connVars, systemVars,
                historyVars
  <2> QED BY <2>1 DEF TrackedInv, OwnersInv, NoRivals, TrackedUnlessOverlapped
<1> QED BY <1>1, <1>2, <1>3, <1>4, <1>5, <1>7, <1>8, <1>9 DEF Next

(* A connection escapes the map, and with it close(), only where two dials  *)
(* of one service overlapped.                                               *)
THEOREM LeaksNeedOverlap == Spec => []TrackedUnlessOverlapped
<1>1. TrackedInv => TrackedUnlessOverlapped
  BY DEF TrackedInv
<1> QED BY <1>1, InitTracked, NextTracked, TypesAlways, PTL DEF Spec
=============================================================================
