------------------------------- MODULE DbPool -------------------------------
(***************************************************************************)
(* db/pool/ConnectionPool.js: the pool of database connections, and the    *)
(* wrapper of db/api/DataSource.js that gives a connection back to it.     *)
(*                                                                         *)
(* A request is one call of getConnection().  It runs in synchronous steps *)
(* between its awaits: the validation query, the connect function and the  *)
(* polls of a full pool.  A physical connection is born when the connect   *)
(* function resolves.                                                      *)
(***************************************************************************)
EXTENDS Integers, FiniteSets, Sequences, SequencesExt

CONSTANTS Requests,  \* calls of getConnection()
          Conns,     \* physical connections the connect function may open
          MinSize,   \* options.min
          MaxSize,   \* options.max
          Validate,  \* options.validateOnCheckout
          NoConn     \* the connection of a request that has none

ASSUME PoolAssumption == /\ MinSize \in Nat
                         /\ MaxSize \in Nat
                         /\ MinSize <= MaxSize
                         /\ Validate \in BOOLEAN
                         /\ NoConn \notin Conns
                         /\ IsFiniteSet(Conns)

VARIABLES
  idle,     \* #pool: the idle connections, used as a stack
  active,   \* #active: the connections checked out
  closed,   \* #closed
  state,    \* the physical connections
  pc,       \* where each request is
  conn,     \* the connection a request has taken or received
  told,     \* the requests whose promise the 30s timer has rejected
  warm      \* connections warmup() has still to open, -1 before it is called

poolVars == <<idle, active, closed>>
requestVars == <<pc, conn, told>>
vars == <<idle, active, closed, state, pc, conn, told, warm>>

(* The getter size: idle and active connections, not those on their way.    *)
Size == Len(idle) + Cardinality(active)

TypeOK ==
  /\ idle \in Seq(Conns)
  /\ active \in SUBSET Conns
  /\ closed \in BOOLEAN
  /\ state \in [Conns -> {"unborn", "open", "closed"}]
  /\ pc \in [Requests -> {"idle", "validating", "connecting", "waiting",
                          "holding", "lost", "released", "failed"}]
  /\ conn \in [Requests -> Conns \cup {NoConn}]
  /\ told \in SUBSET Requests
  /\ warm \in -1..MinSize

Init ==
  /\ idle = <<>>
  /\ active = {}
  /\ closed = FALSE
  /\ state = [c \in Conns |-> "unborn"]
  /\ pc = [r \in Requests |-> "idle"]
  /\ conn = [r \in Requests |-> NoConn]
  /\ told = {}
  /\ warm = -1

-----------------------------------------------------------------------------
(* getConnection().                                                         *)

(* The promise of a request resolves with connection c, which is already in *)
(* #active.  Nobody receives it when the timer rejected the promise before. *)
Resolve(r) == [pc EXCEPT ![r] = IF r \in told THEN "lost" ELSE "holding"]

(* The loop over idle connections and what follows it: one synchronous step *)
(* up to the next await.                                                    *)
TakeIdle(r) ==
  /\ idle # <<>>
  /\ idle' = Front(idle)
  /\ conn' = [conn EXCEPT ![r] = Last(idle)]
  /\ IF Validate
       THEN /\ pc' = [pc EXCEPT ![r] = "validating"]
            /\ active' = active
       ELSE /\ pc' = Resolve(r)
            /\ active' = active \cup {Last(idle)}

(* Mutant: the limit is tested with <=.                                     *)
StartConnectingOneMore(r) ==
  /\ idle = <<>>
  /\ Size <= MaxSize
  /\ pc' = [pc EXCEPT ![r] = "connecting"]
  /\ conn' = [conn EXCEPT ![r] = NoConn]
  /\ UNCHANGED <<idle, active>>

StartConnecting(r) ==
  /\ idle = <<>>
  /\ Size < MaxSize
  /\ pc' = [pc EXCEPT ![r] = "connecting"]
  /\ conn' = [conn EXCEPT ![r] = NoConn]
  /\ UNCHANGED <<idle, active>>

StartWaiting(r) ==
  /\ idle = <<>>
  /\ Size >= MaxSize
  /\ pc' = [pc EXCEPT ![r] = "waiting"]
  /\ conn' = [conn EXCEPT ![r] = NoConn]
  /\ UNCHANGED <<idle, active>>

Acquire(r) == TakeIdle(r) \/ StartConnecting(r) \/ StartWaiting(r)

GetConnection(r) ==
  /\ pc[r] = "idle"
  /\ ~closed
  /\ Acquire(r)
  /\ UNCHANGED <<closed, state, told, warm>>

GetConnectionRefused(r) ==
  /\ pc[r] = "idle"
  /\ closed
  /\ pc' = [pc EXCEPT ![r] = "failed"]
  /\ UNCHANGED <<poolVars, state, conn, told, warm>>

(* Mutant: the checked-out connection is not entered in #active.            *)
ValidatedUnrecorded(r) ==
  /\ pc[r] = "validating"
  /\ pc' = Resolve(r)
  /\ UNCHANGED <<poolVars, state, conn, told, warm>>

(* The validation query succeeds.  #closed is not looked at again.          *)
Validated(r) ==
  /\ pc[r] = "validating"
  /\ active' = active \cup {conn[r]}
  /\ pc' = Resolve(r)
  /\ UNCHANGED <<idle, closed, state, conn, told, warm>>

(* The validation query fails: the connection is closed and the loop goes   *)
(* on with the next one.                                                    *)
ValidationFails(r) ==
  /\ pc[r] = "validating"
  /\ state' = [state EXCEPT ![conn[r]] = "closed"]
  /\ Acquire(r)
  /\ UNCHANGED <<closed, told, warm>>

(* #createConnection(): the connect function resolves.                      *)
Connected(r) ==
  /\ pc[r] = "connecting"
  /\ \E c \in Conns :
       /\ state[c] = "unborn"
       /\ state' = [state EXCEPT ![c] = "open"]
       /\ active' = active \cup {c}
       /\ conn' = [conn EXCEPT ![r] = c]
  /\ pc' = Resolve(r)
  /\ UNCHANGED <<idle, closed, told, warm>>

ConnectFails(r) ==
  /\ pc[r] = "connecting"
  /\ pc' = [pc EXCEPT ![r] = "failed"]
  /\ UNCHANGED <<poolVars, state, conn, told, warm>>

(* Mutant: the timer is never set.                                          *)
TimeoutNever(r) == FALSE

(* The 30s timer rejects the promise; the poller knows nothing of it.       *)
Timeout(r) ==
  /\ pc[r] = "waiting"
  /\ r \notin told
  /\ told' = told \cup {r}
  /\ UNCHANGED <<poolVars, state, pc, conn, warm>>

(* A poll finds an idle connection and calls getConnection() again, or      *)
(* finds the pool closed.                                                   *)
Poll(r) ==
  /\ pc[r] = "waiting"
  /\ ~closed
  /\ TakeIdle(r)
  /\ UNCHANGED <<closed, state, told, warm>>

PollClosed(r) ==
  /\ pc[r] = "waiting"
  /\ closed
  /\ pc' = [pc EXCEPT ![r] = "failed"]
  /\ UNCHANGED <<poolVars, state, conn, told, warm>>

-----------------------------------------------------------------------------
(* release(), by the wrapper's close() or the finally block of query() and  *)
(* execute(): once per checkout.                                            *)

(* Mutant: the wrapper's close() without its logicalClosed flag.            *)
ReleaseTwice(r) ==
  /\ pc[r] \in {"holding", "released"}
  /\ pc' = [pc EXCEPT ![r] = "released"]
  /\ IF closed
       THEN /\ state' = [state EXCEPT ![conn[r]] = "closed"]
            /\ UNCHANGED <<idle, active>>
       ELSE /\ active' = active \ {conn[r]}
            /\ idle' = Append(idle, conn[r])
            /\ state' = state
  /\ UNCHANGED <<closed, conn, told, warm>>

Release(r) ==
  /\ pc[r] = "holding"
  /\ pc' = [pc EXCEPT ![r] = "released"]
  /\ IF closed
       THEN /\ state' = [state EXCEPT ![conn[r]] = "closed"]
            /\ UNCHANGED <<idle, active>>
       ELSE /\ active' = active \ {conn[r]}
            /\ idle' = Append(idle, conn[r])
            /\ state' = state
  /\ UNCHANGED <<closed, conn, told, warm>>

-----------------------------------------------------------------------------
(* warmup(): how many to open is computed once, and each is awaited.        *)

(* Mutant: the loop runs once too often.                                    *)
WarmupOneMore ==
  /\ warm = -1
  /\ warm' = IF MinSize >= Size THEN MinSize - Size + 1 ELSE 0
  /\ UNCHANGED <<poolVars, state, requestVars>>

Warmup ==
  /\ warm = -1
  /\ warm' = IF MinSize > Size THEN MinSize - Size ELSE 0
  /\ UNCHANGED <<poolVars, state, requestVars>>

WarmConnected ==
  /\ warm > 0
  /\ \E c \in Conns :
       /\ state[c] = "unborn"
       /\ state' = [state EXCEPT ![c] = "open"]
       /\ idle' = Append(idle, c)
  /\ warm' = warm - 1
  /\ UNCHANGED <<active, closed, requestVars>>

WarmFails ==
  /\ warm > 0
  /\ warm' = 0
  /\ UNCHANGED <<poolVars, state, requestVars>>

-----------------------------------------------------------------------------
(* The idle sweep and close().                                              *)

(* Mutant: the sweep closes an expired connection and leaves it in #pool.   *)
SweepWithoutSplice ==
  /\ ~closed
  /\ Len(idle) > MinSize
  /\ \E i \in 1..Len(idle) : state' = [state EXCEPT ![idle[i]] = "closed"]
  /\ UNCHANGED <<poolVars, requestVars, warm>>

(* The interval timer removes expired connections while more than MinSize   *)
(* are idle; a sweep of several is a series of these steps.                 *)
Sweep ==
  /\ ~closed
  /\ Len(idle) > MinSize
  /\ \E i \in 1..Len(idle) :
       /\ idle' = RemoveAt(idle, i)
       /\ state' = [state EXCEPT ![idle[i]] = "closed"]
  /\ UNCHANGED <<active, closed, requestVars, warm>>

(* Mutant: close() forgets the connections that are checked out.            *)
CloseIdleOnly ==
  /\ ~closed
  /\ closed' = TRUE
  /\ state' = [c \in Conns |-> IF c \in ToSet(idle) THEN "closed" ELSE state[c]]
  /\ idle' = <<>>
  /\ active' = {}
  /\ UNCHANGED <<requestVars, warm>>

Close ==
  /\ ~closed
  /\ closed' = TRUE
  /\ state' = [c \in Conns |->
                 IF c \in ToSet(idle) \cup active THEN "closed" ELSE state[c]]
  /\ idle' = <<>>
  /\ active' = {}
  /\ UNCHANGED <<requestVars, warm>>

-----------------------------------------------------------------------------
RequestStep(r) ==
  \/ GetConnection(r) \/ GetConnectionRefused(r)
  \/ Validated(r) \/ ValidationFails(r)
  \/ Connected(r) \/ ConnectFails(r)
  \/ Timeout(r) \/ Poll(r) \/ PollClosed(r)
  \/ Release(r)

Next ==
  \/ \E r \in Requests : RequestStep(r)
  \/ Warmup \/ WarmConnected \/ WarmFails
  \/ Sweep \/ Close

Spec == Init /\ [][Next]_vars

(* A validation query and a connect settle, and timers and polls fire; a    *)
(* client need not release what it holds.                                   *)
Fairness ==
  \A r \in Requests :
    /\ WF_vars(Validated(r) \/ ValidationFails(r))
    /\ WF_vars(Connected(r) \/ ConnectFails(r))
    /\ WF_vars(Timeout(r) \/ Poll(r) \/ PollClosed(r))

FairSpec == Spec /\ Fairness

-----------------------------------------------------------------------------
(* Properties.                                                              *)

Has(r) == pc[r] \in {"validating", "holding", "lost"}

(* A connection is in one place only: one slot of the idle list, or one     *)
(* request.  No two users of the pool ever share a connection, and the      *)
(* sweep never closes one that somebody uses.                               *)
NoSharing ==
  /\ IsInjective(idle)
  /\ \A r \in Requests : Has(r) => conn[r] \notin ToSet(idle)
  /\ \A r, s \in Requests : Has(r) /\ Has(s) /\ conn[r] = conn[s] => r = s

(* Until the pool is closed, the connections its users hold and those it    *)
(* would hand out are open.                                                 *)
UsableUntilClosed ==
  ~closed => /\ \A r \in Requests : Has(r) => state[conn[r]] = "open"
             /\ \A c \in ToSet(idle) : state[c] = "open"

(* #active holds the connections that were checked out and not released,    *)
(* so size counts them; the only ones nobody can release are those that     *)
(* were handed to a request the timer had rejected.                         *)
ActiveIsCheckedOut ==
  ~closed => \A c \in Conns :
    c \in active <=> \E r \in Requests : pc[r] \in {"holding", "lost"} /\ conn[r] = c

(* close() reaches every connection the pool knows: an open connection that *)
(* survives it was being validated in that very moment.                     *)
CloseReachesAll ==
  [][closed' # closed =>
       \A c \in Conns : state'[c] = "open" =>
          \E r \in Requests : pc[r] = "validating" /\ conn[r] = c]_vars

(* getConnection() settles for its caller, even if no connection is ever    *)
(* released: with a connection, an error or the 30s timeout.                *)
Settled(r) == pc[r] \in {"holding", "released", "failed"} \/ r \in told

RequestsSettle ==
  \A r \in Requests : pc[r] # "idle" ~> Settled(r)
=============================================================================
