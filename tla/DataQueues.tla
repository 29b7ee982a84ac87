----------------------------- MODULE DataQueues -----------------------------
(***************************************************************************)
(* objects/data-queue.js: DataQueue and KeyedDataQueue objects of several   *)
(* AS400 objects, all on one data queue of the host.                        *)
(*                                                                         *)
(* Every call is one exchange on the data queue connection of its AS400     *)
(* object, which the state object under DQ_STATE holds, and sendAndReceive()*)
(* serves one exchange at a time in the order of the calls (module          *)
(* HostConnection).  Reads with a wait are answered when an entry arrives,  *)
(* and all that time the calls behind them wait.                            *)
(*                                                                         *)
(* The data of an entry is the call that wrote it.  How ensureDQConnection()*)
(* gets a connection is module ServiceConnections; here it ends with a      *)
(* connection of the AS400 object, shared or new, or with an error.         *)
(***************************************************************************)
EXTENDS Integers, Sequences, SequencesExt

CONSTANTS Calls,      \* invocations of the methods: numbers, as the calls of one
                      \* AS400 object are made in ascending order
          SystemOf,   \* the AS400 object of each call
          Requests,   \* what each call may ask for
          Ready,      \* the AS400 object that is connected already, or None
          Keys,       \* the keys of a keyed queue
          MaxConns    \* how many connections are ever dialled

Systems == {SystemOf[c] : c \in Calls}
Conns == 1 .. MaxConns
None == 0             \* no connection, no entry
Searches == {"EQ", "NE", "LT", "LE", "GT", "GE"}
Waits == {"no", "seconds", "forever"}
AnyKey == -1          \* clear() without a key
Orders == {"FIFO", "LIFO", "KEYED"}

AllRequests ==
  [op : {"write"}, keyed : {FALSE}] \cup
  [op : {"write"}, keyed : {TRUE}, key : Keys] \cup
  [op : {"read"}, keyed : {FALSE}, wait : Waits, peek : BOOLEAN] \cup
  [op : {"read"}, keyed : {TRUE}, wait : Waits, peek : BOOLEAN, key : Keys, search : Searches] \cup
  [op : {"clear"}, keyed : {FALSE}] \cup
  [op : {"clear"}, keyed : {TRUE}, key : Keys \cup {AnyKey}] \cup
  [op : {"create"}, keyed : {FALSE}, order : {"FIFO", "LIFO"}] \cup
  [op : {"create"}, keyed : {TRUE}] \cup
  [op : {"delete", "attributes"}, keyed : BOOLEAN]

NoRequest == [op |-> "none"]
Outcomes == {"none", "ok", "entry", "no data", "error"} \cup Orders

ASSUME DataQueueAssumption ==
  /\ Requests \in [Calls -> SUBSET AllRequests]
  /\ Keys \subseteq Nat
  /\ MaxConns \in Nat \ {0}
  /\ Ready \in Systems \cup {None}
  /\ Calls \subseteq Nat \ {None}
  /\ DOMAIN SystemOf = Calls
  /\ None \notin Systems

VARIABLES
  order,     \* host: the order of the queue, "none" when there is no queue
  entries,   \* host: the writes whose entries are in the queue
  orphans,   \* host: requests at work whose connection is gone
  owner,     \* the AS400 object a connection belongs to, None before it is dialled
  up,        \* the connections that are connected
  silent,    \* connections that ended without telling the reader
  state,     \* the connection in the state object of an AS400 object
  line,      \* the calls inside sendAndReceive() of a connection; the first has the lock
  pc,        \* where a call is
  request,   \* what it asks for
  conn,      \* the connection it uses
  reply,     \* what the host answered: an outcome, or the order
  got,       \* the entry the host answered a read with
  late,      \* history: calls that had to wait for a connection first
  cleared    \* history: writes whose entries were cleared or deleted

hostVars == <<order, entries, orphans>>
connVars == <<owner, up, silent, state, line>>
callVars == <<pc, request, conn, reply, got>>
historyVars == <<late, cleared>>
vars == <<hostVars, connVars, callVars, historyVars>>

TypeOK ==
  /\ order \in Orders \cup {"none"}
  /\ entries \in Seq(Calls)
  /\ orphans \subseteq Calls
  /\ owner \in [Conns -> Systems \cup {None}]
  /\ up \subseteq Conns
  /\ silent \subseteq Conns \ up
  /\ state \in [Systems -> Conns \cup {None}]
  /\ line \in [Conns -> Seq(Calls)]
  /\ pc \in [Calls -> {"new", "connecting", "queued", "answered", "returned", "failed"}]
  /\ request \in [Calls -> AllRequests \cup {NoRequest}]
  /\ conn \in [Calls -> Conns \cup {None}]
  /\ reply \in [Calls -> Outcomes]
  /\ got \in [Calls -> Calls \cup {None}]
  /\ late \subseteq Calls
  /\ cleared \subseteq Calls
  /\ \A c \in Calls : pc[c] \in {"queued", "answered"} <=>
       \E k \in up \cup silent :
         c \in ToSet(line[k]) /\ conn[c] = k /\ owner[k] = SystemOf[c]

Init ==
  /\ order \in Orders \cup {"none"}
  /\ entries = <<>>
  /\ orphans = {}
  /\ owner = [k \in Conns |-> IF k = 1 THEN Ready ELSE None]
  /\ up = {k \in Conns : owner[k] # None}
  /\ state = [s \in Systems |-> IF s = Ready THEN 1 ELSE None]
  /\ silent = {}
  /\ line = [k \in Conns |-> <<>>]
  /\ pc = [c \in Calls |-> "new"]
  /\ request = [c \in Calls |-> NoRequest]
  /\ conn = [c \in Calls |-> None]
  /\ reply = [c \in Calls |-> "none"]
  /\ got = [c \in Calls |-> None]
  /\ late = {}
  /\ cleared = {}

-----------------------------------------------------------------------------
(* The client: from the call to the lock of the connection.                 *)

Keyed(c) == request[c].keyed
Is(c, op) == request[c].op = op
IsRead(c) == Is(c, "read")
Takes(c) == IsRead(c) /\ ~request[c].peek

Enqueue(c, k) ==
  /\ pc' = [pc EXCEPT ![c] = "queued"]
  /\ conn' = [conn EXCEPT ![c] = k]
  /\ line' = [line EXCEPT ![k] = Append(@, c)]

(* The connection of the state object is used while it is connected.  Calls *)
(* with an unknown search type or without a key length throw before this.   *)
Call(c) ==
  /\ pc[c] = "new"
  /\ \A d \in Calls : SystemOf[d] = SystemOf[c] /\ d < c => pc[d] # "new"
  /\ \E r \in Requests[c] : request' = [request EXCEPT ![c] = r]
  /\ IF state[SystemOf[c]] \in up
       THEN Enqueue(c, state[SystemOf[c]]) /\ UNCHANGED late
       ELSE /\ pc' = [pc EXCEPT ![c] = "connecting"]
            /\ late' = late \cup {c}
            /\ UNCHANGED <<conn, line>>
  /\ UNCHANGED <<hostVars, owner, up, silent, state, reply, got, cleared>>

(* The handshake ended, on a connection another call dialled or on a new    *)
(* one; the state object is replaced either way.                            *)
EnsureDQConnection(c) ==
  /\ pc[c] = "connecting"
  /\ \E k \in Conns :
       /\ \/ k \in up /\ owner[k] = SystemOf[c] /\ UNCHANGED <<owner, up>>
          \/ /\ owner[k] = None /\ \A l \in Conns : l < k => owner[l] # None
             /\ owner' = [owner EXCEPT ![k] = SystemOf[c]]
             /\ up' = up \cup {k}
       /\ state' = [state EXCEPT ![SystemOf[c]] = k]
       /\ Enqueue(c, k)
  /\ UNCHANGED <<hostVars, silent, request, reply, got, historyVars>>

ConnectFails(c) ==
  /\ pc[c] = "connecting"
  /\ pc' = [pc EXCEPT ![c] = "failed"]
  /\ UNCHANGED <<hostVars, connVars, request, conn, reply, got, historyVars>>

(* Mutant: only the call that has the lock learns of it.                    *)
DropHead(k) ==
  /\ k \in up
  /\ up' = up \ {k}
  /\ line' = [line EXCEPT ![k] = <<>>]
  /\ pc' = [c \in Calls |-> IF line[k] # <<>> /\ c = Head(line[k]) THEN "failed" ELSE pc[c]]
  /\ UNCHANGED <<hostVars, owner, silent, state, request, conn, reply, got, historyVars>>

(* The host works at the request of the call that has the lock, and goes on *)
(* until it notices that the connection is gone.                            *)
Orphaned(k) == {c \in ToSet(line[k]) : c = Head(line[k]) /\ pc[c] = "queued"}

(* The connection is lost: the call with the lock fails in receive(), those *)
(* behind it in send().  Without a call it makes no difference who ended it.*)
Drop(k) ==
  /\ k \in up
  /\ up' = up \ {k}
  /\ line' = [line EXCEPT ![k] = <<>>]
  /\ pc' = [c \in Calls |-> IF c \in ToSet(line[k]) THEN "failed" ELSE pc[c]]
  /\ orphans' = orphans \cup Orphaned(k)
  /\ UNCHANGED <<order, entries, owner, silent, state, request, conn, reply, got, historyVars>>

(* disconnectService() or close() destroys the socket under a call.  No     *)
(* listener of the reader hears of it (module HostConnection): it waits for *)
(* ever, and those behind it with it.                                       *)
DisconnectService(k) ==
  /\ k \in up
  /\ line[k] # <<>>
  /\ up' = up \ {k}
  /\ silent' = silent \cup {k}
  /\ orphans' = orphans \cup Orphaned(k)
  /\ UNCHANGED <<order, entries, owner, state, line, callVars, historyVars>>

(* The reply arrives, the lock passes on, and the promise is settled: null  *)
(* for 0xF006, an AS400Error for any other code.  Entries have bytes here:  *)
(* one of no bytes is consumed and returned as null (`if (!entry) return    *)
(* null`), which its reader cannot tell from an empty queue.                *)
Returns(c) ==
  /\ pc[c] = "answered"
  /\ conn[c] \in up
  /\ pc' = [pc EXCEPT ![c] = "returned"]
  /\ line' = [line EXCEPT ![conn[c]] = Tail(@)]
  /\ UNCHANGED <<hostVars, owner, up, silent, state, request, conn, reply, got, historyVars>>

-----------------------------------------------------------------------------
(* The host: how it answers the request each method builds.                 *)

Answer(c, with) == reply' = [reply EXCEPT ![c] = with] /\ UNCHANGED got
AnswerEntry(c, e) == /\ reply' = [reply EXCEPT ![c] = "entry"]
                     /\ got' = [got EXCEPT ![c] = e]

Fits(c) == order # "none" /\ (Keyed(c) <=> order = "KEYED")

Write(c) ==
  /\ Is(c, "write") /\ ~Keyed(c) /\ Fits(c)
  /\ entries' = Append(entries, c)
  /\ Answer(c, "ok")
  /\ UNCHANGED <<order, cleared>>

KeyedWrite(c) ==
  /\ Is(c, "write") /\ Keyed(c) /\ Fits(c)
  /\ entries' = Append(entries, c)
  /\ Answer(c, "ok")
  /\ UNCHANGED <<order, cleared>>

Satisfies(key, search, wanted) ==
  \/ search = "EQ" /\ key = wanted
  \/ search = "NE" /\ key # wanted
  \/ search = "LT" /\ key < wanted
  \/ search = "LE" /\ key <= wanted
  \/ search = "GT" /\ key > wanted
  \/ search = "GE" /\ key >= wanted

(* Without a key: the oldest entry of a FIFO queue, the newest of a LIFO one*)
Found(c) ==
  IF order = "LIFO" THEN {Len(entries)} \ {0} ELSE {1} \cap DOMAIN entries

(* With a key: the oldest entry of some key that satisfies the search.      *)
KeyOf(i) == request[entries[i]].key

KeyedFound(c) ==
  {i \in DOMAIN entries :
     /\ Satisfies(KeyOf(i), request[c].search, request[c].key)
     /\ \A j \in 1 .. (i - 1) : KeyOf(j) # KeyOf(i)}

Matches(c) == IF Keyed(c) THEN KeyedFound(c) ELSE Found(c)

(* Mutant: the peek flag is set the wrong way round.                        *)
ReadPeeking(c) ==
  /\ IsRead(c) /\ Fits(c)
  /\ \E i \in Matches(c) :
       /\ AnswerEntry(c, entries[i])
       /\ entries' = IF request[c].peek THEN RemoveAt(entries, i) ELSE entries
  /\ UNCHANGED <<order, cleared>>

Read(c) ==
  /\ IsRead(c) /\ Fits(c)
  /\ \E i \in Matches(c) :
       /\ AnswerEntry(c, entries[i])
       /\ entries' = IF request[c].peek THEN entries ELSE RemoveAt(entries, i)
  /\ UNCHANGED <<order, cleared>>

(* Mutant: a wait in seconds is sent as -1 too.                             *)
ReadNothingPatient(c) ==
  /\ IsRead(c) /\ Fits(c)
  /\ Matches(c) = {}
  /\ request[c].wait = "no"
  /\ Answer(c, "no data")
  /\ UNCHANGED <<order, entries, cleared>>

(* Nothing fits: at once, or when the seconds of the wait are over; a       *)
(* negative wait is never over.                                             *)
ReadNothing(c) ==
  /\ IsRead(c) /\ Fits(c)
  /\ Matches(c) = {}
  /\ request[c].wait # "forever"
  /\ Answer(c, "no data")
  /\ UNCHANGED <<order, entries, cleared>>

Clear(c) ==
  /\ Is(c, "clear") /\ ~Keyed(c) /\ Fits(c)
  /\ entries' = <<>>
  /\ cleared' = cleared \cup ToSet(entries)
  /\ Answer(c, "ok")
  /\ UNCHANGED order

(* What is left when the entries of a key are removed: their places, in the *)
(* order of the queue.                                                      *)
Left(c) == {i \in DOMAIN entries : request[c].key \notin {AnyKey, KeyOf(i)}}

InOrder(places) ==
  {at \in UNION {[1 .. n -> places] : n \in 0 .. Len(entries)} :
     /\ \A i, j \in DOMAIN at : i < j => at[i] < at[j]
     /\ \A p \in places : \E i \in DOMAIN at : at[i] = p}

KeyedClear(c) ==
  /\ Is(c, "clear") /\ Keyed(c) /\ Fits(c)
  /\ \E at \in InOrder(Left(c)) : entries' = [i \in DOMAIN at |-> entries[at[i]]]
  /\ cleared' = cleared \cup {entries[i] : i \in DOMAIN entries \ Left(c)}
  /\ Answer(c, "ok")
  /\ UNCHANGED order

Create(c) ==
  /\ Is(c, "create") /\ ~Keyed(c) /\ order = "none"
  /\ order' = request[c].order
  /\ Answer(c, "ok")
  /\ UNCHANGED <<entries, cleared>>

KeyedCreate(c) ==
  /\ Is(c, "create") /\ Keyed(c) /\ order = "none"
  /\ order' = "KEYED"
  /\ Answer(c, "ok")
  /\ UNCHANGED <<entries, cleared>>

(* The requests of delete() and getAttributes() do not say whether the queue*)
(* is keyed.                                                                *)
Delete(c) ==
  /\ Is(c, "delete") /\ order # "none"
  /\ order' = "none"
  /\ entries' = <<>>
  /\ cleared' = cleared \cup ToSet(entries)
  /\ Answer(c, "ok")

GetAttributes(c) ==
  /\ Is(c, "attributes") /\ order # "none"
  /\ Answer(c, order)
  /\ UNCHANGED <<order, entries, cleared>>

(* There is no such queue, it is of the other kind, or it exists already.   *)
Denied(c) ==
  /\ \/ Is(c, "create") /\ order # "none"
     \/ request[c].op \in {"delete", "attributes"} /\ order = "none"
     \/ request[c].op \in {"write", "read", "clear"} /\ ~Fits(c)
  /\ Answer(c, "error")
  /\ UNCHANGED <<order, entries, cleared>>

Serve(c) ==
  \/ Write(c) \/ KeyedWrite(c) \/ Read(c) \/ ReadNothing(c)
  \/ Clear(c) \/ KeyedClear(c) \/ Create(c) \/ KeyedCreate(c)
  \/ Delete(c) \/ GetAttributes(c) \/ Denied(c)

(* Mutant: requests are sent without waiting for the lock.                  *)
HostServesUnlocked(c) ==
  /\ pc[c] = "queued"
  /\ conn[c] \in up
  /\ Serve(c)
  /\ pc' = [pc EXCEPT ![c] = "answered"]
  /\ UNCHANGED <<orphans, connVars, request, conn, late>>

(* The request of the call that has the lock.                               *)
HostServes(c) ==
  /\ pc[c] = "queued"
  /\ conn[c] \in up
  /\ c = Head(line[conn[c]])
  /\ Serve(c)
  /\ pc' = [pc EXCEPT ![c] = "answered"]
  /\ UNCHANGED <<orphans, connVars, request, conn, late>>

(* A request whose client is gone is still carried out, or is abandoned.    *)
HostServesOrphan(c) ==
  /\ c \in orphans
  /\ Serve(c)
  /\ orphans' = orphans \ {c}
  /\ UNCHANGED <<connVars, pc, request, conn, late>>

HostAbandons(c) ==
  /\ c \in orphans
  /\ orphans' = orphans \ {c}
  /\ UNCHANGED <<order, entries, connVars, callVars, historyVars>>

-----------------------------------------------------------------------------

CallStep(c) ==
  \/ Call(c) \/ EnsureDQConnection(c) \/ ConnectFails(c)
  \/ Returns(c) \/ HostServes(c) \/ HostServesOrphan(c) \/ HostAbandons(c)

Next ==
  \/ \E c \in Calls : CallStep(c)
  \/ \E k \in Conns : Drop(k) \/ DisconnectService(k)

Spec == Init /\ [][Next]_vars

Quiet(c) == \A k \in Conns : owner[k] = SystemOf[c] => line[k] = <<>>

(* The host answers what it can answer, and replies arrive.  A handshake    *)
(* ends unless its exchanges wait behind calls on a connection it shares.   *)
(* Nobody has to call anything, and no connection has to end.               *)
Fairness ==
  \A c \in Calls :
    /\ WF_vars(Quiet(c) /\ (EnsureDQConnection(c) \/ ConnectFails(c)))
    /\ WF_vars(HostServes(c))
    /\ WF_vars(Returns(c))

FairSpec == Spec /\ Fairness

-----------------------------------------------------------------------------
(* Properties.                                                              *)

(* A write that was answered well has its entry in the queue, until it is   *)
(* cleared or taken by one destructive read.  That read returns it, or loses*)
(* it with its connection; peeking takes nothing.                           *)
EntriesAccounted ==
  LET Taken(w) == {r \in Calls : Takes(r) /\ got[r] = w}
      Reaches(r) == pc[r] = "returned" \/ pc[r] = "answered" \/ conn[r] \notin up
  IN  /\ IsInjective(entries)
      /\ \A w \in Calls :
           /\ w \in ToSet(entries) => Taken(w) = {} /\ w \notin cleared
           /\ Taken(w) # {} => w \notin cleared
           /\ \A r, other \in Taken(w) : r = other /\ Reaches(r)
           /\ reply[w] = "ok" /\ Is(w, "write") =>
                w \in ToSet(entries) \/ w \in cleared \/ Taken(w) # {}

(* Writes of one AS400 object are queued in the order of the calls, without *)
(* an await between them, if the first found its connection ready, has not  *)
(* failed, and both used the same connection.                               *)
WritesKeepOrder ==
  \A m, n \in DOMAIN entries :
    LET first == entries[m]
        second == entries[n]
    IN  /\ first < second
        /\ conn[first] = conn[second]
        /\ first \notin late
        /\ pc[first] # "failed"
        => m < n

(* A call never settles only if a connection of its AS400 object was closed *)
(* under it, or is taken by a read without a limit for which there is       *)
(* nothing in the queue.  The write that would end the read may be that     *)
(* very call.                                                               *)
StuckBehindRead ==
  LET Hopeless(r) == /\ pc[r] = "queued" /\ IsRead(r) /\ request[r].wait = "forever"
                     /\ Fits(r) /\ Matches(r) = {}
      Stuck(c) == \E k \in Conns :
        /\ owner[k] = SystemOf[c]
        /\ conn[c] \in {None, k}
        /\ k \in silent \/ \E r \in ToSet(line[k]) : Hopeless(r)
  IN  \A c \in Calls :
        <>[](pc[c] \in {"connecting", "queued", "answered"}) => <>[]Stuck(c)
=============================================================================
