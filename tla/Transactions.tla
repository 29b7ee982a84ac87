---------------------------- MODULE Transactions ----------------------------
(***************************************************************************)
(* Transactions of one Connection (db/api/Connection.js, over              *)
(* db/engine/DbConnection.js and db/engine/TransactionManager.js), used by  *)
(* several callers.  Every call but begin() and setAutoCommit() is one      *)
(* exchange, and the connection serves one exchange at a time               *)
(* (SerialExchange).                                                       *)
(*                                                                         *)
(* begin() and setAutoCommit() send nothing, and autoCommitIfNeeded() has no*)
(* caller: whether the host commits every statement by itself is up to its  *)
(* job, until setTransactionIsolation() asks for an isolation level.        *)
(***************************************************************************)
EXTENDS Naturals, Sequences, SequencesExt

CONSTANTS Callers,   \* they share the connection
          Names,     \* names of savepoints
          Changes    \* statements that change data; each is executed once

NoChange == "no change"
Levels == {"none", "another level"}   \* under "none" every change is final

VARIABLES
  autoCommit,   \* TransactionManager#autoCommit
  savepoints,   \* TransactionManager#savepoints, the names
  pc,           \* what each caller is doing
  arg,          \* the change, the savepoint or the level of its call
  hostAuto,     \* host: the job commits every statement by itself
  pending,      \* host: changes of the transaction under way, in order
  marks,        \* host: the savepoints, with the length of pending they stand for
  durable,      \* host: the committed changes
  answered,     \* history: changes whose execute() ended well
  asked         \* history: the changes asked for in each mode, less those whose
                \* mode changed under way and those a commit() has ended

clientVars == <<autoCommit, savepoints>>
hostVars == <<hostAuto, pending, marks, durable>>
vars == <<clientVars, pc, arg, hostVars, answered, asked>>

Calls == {"execute", "commit", "rollback", "savepoint", "rollbackTo", "release",
          "isolation"}
Modes == [auto : SUBSET Changes, manual : SUBSET Changes]

TypeOK ==
  /\ autoCommit \in BOOLEAN
  /\ savepoints \subseteq Names
  /\ pc \in [Callers -> {"idle"} \cup Calls]
  /\ arg \in [Callers -> Changes \cup Names \cup Levels \cup {NoChange}]
  /\ hostAuto \in BOOLEAN
  /\ pending \in Seq(Changes)
  /\ marks \in Seq([name : Names, at : Nat])
  /\ durable \subseteq Changes
  /\ answered \subseteq Changes
  /\ asked \in Modes

Init ==
  /\ autoCommit \in BOOLEAN
  /\ savepoints = {}
  /\ pc = [c \in Callers |-> "idle"]
  /\ arg = [c \in Callers |-> NoChange]
  /\ hostAuto \in BOOLEAN
  /\ pending = <<>>
  /\ marks = <<>>
  /\ durable = {}
  /\ answered = {}
  /\ asked = [auto |-> {}, manual |-> {}]

-----------------------------------------------------------------------------

InFlight == {arg[c] : c \in {d \in Callers : pc[d] = "execute"}}
Used == InFlight \cup answered \cup ToSet(pending) \cup durable

Start(c, call, with) ==
  /\ pc[c] = "idle"
  /\ pc' = [pc EXCEPT ![c] = call]
  /\ arg' = [arg EXCEPT ![c] = with]

(* execute() of a change: the mode it is made under is noted.               *)
Execute(c) ==
  /\ \E x \in Changes \ Used :
       /\ Start(c, "execute", x)
       /\ asked' = IF autoCommit THEN [asked EXCEPT !.auto = @ \cup {x}]
                                 ELSE [asked EXCEPT !.manual = @ \cup {x}]
  /\ UNCHANGED <<clientVars, hostVars, answered>>

CommitCalled(c) ==
  /\ Start(c, "commit", NoChange)
  /\ UNCHANGED <<clientVars, hostVars, answered, asked>>

RollbackCalled(c) ==
  /\ Start(c, "rollback", NoChange)
  /\ UNCHANGED <<clientVars, hostVars, answered, asked>>

(* Whatever the map of savepoints says: rollback and release do not look.   *)
SavepointCalled(c) ==
  /\ \E call \in {"savepoint", "rollbackTo", "release"}, n \in Names : Start(c, call, n)
  /\ UNCHANGED <<clientVars, hostVars, answered, asked>>

SetTransactionIsolation(c) ==
  /\ \E level \in Levels : Start(c, "isolation", level)
  /\ UNCHANGED <<clientVars, hostVars, answered, asked>>

(* setAutoCommit() sets a flag.  A change in flight was asked for in neither*)
(* mode alone, and what becomes of an open transaction is not documented.   *)
SetAutoCommit(to) ==
  /\ autoCommit' = to
  /\ asked' = IF to = autoCommit THEN asked
              ELSE [auto |-> asked.auto \ InFlight, manual |-> {}]
  /\ UNCHANGED <<savepoints, pc, arg, hostVars, answered>>

Begin == SetAutoCommit(FALSE)

-----------------------------------------------------------------------------
(* The host answers, and the call ends.                                     *)

Ends(c) == /\ pc' = [pc EXCEPT ![c] = "idle"]
           /\ arg' = [arg EXCEPT ![c] = NoChange]

Executed(c) ==
  /\ pc[c] = "execute"
  /\ IF hostAuto
       THEN /\ durable' = durable \cup ToSet(pending) \cup {arg[c]}
            /\ pending' = <<>>
       ELSE /\ pending' = Append(pending, arg[c])
            /\ UNCHANGED durable
  /\ answered' = answered \cup {arg[c]}
  /\ Ends(c)
  /\ UNCHANGED <<clientVars, hostAuto, marks, asked>>

(* commit() and rollback() end the transaction of all callers.              *)
Committed(c) ==
  /\ pc[c] = "commit"
  /\ durable' = durable \cup ToSet(pending)
  /\ pending' = <<>>
  /\ marks' = <<>>
  /\ savepoints' = {}
  /\ asked' = [asked EXCEPT !.manual = @ \ ToSet(pending)]
  /\ Ends(c)
  /\ UNCHANGED <<autoCommit, hostAuto, answered>>

RolledBack(c) ==
  /\ pc[c] = "rollback"
  /\ pending' = <<>>
  /\ marks' = <<>>
  /\ savepoints' = {}
  /\ Ends(c)
  /\ UNCHANGED <<autoCommit, hostAuto, durable, answered, asked>>

Marked(n) == {i \in DOMAIN marks : marks[i].name = n}

SavepointSet(c) ==
  /\ pc[c] = "savepoint"
  /\ marks' = Append(SelectSeq(marks, LAMBDA m : m.name # arg[c]),
                     [name |-> arg[c], at |-> Len(pending)])
  /\ savepoints' = savepoints \cup {arg[c]}
  /\ Ends(c)
  /\ UNCHANGED <<autoCommit, hostAuto, pending, durable, answered, asked>>

(* The later savepoints go with the changes; the map keeps their names.     *)
RolledBackTo(c) ==
  /\ pc[c] = "rollbackTo"
  /\ \E i \in Marked(arg[c]) :
       /\ pending' = SubSeq(pending, 1, marks[i].at)
       /\ marks' = SubSeq(marks, 1, i)
  /\ Ends(c)
  /\ UNCHANGED <<clientVars, hostAuto, durable, answered, asked>>

Released(c) ==
  /\ pc[c] = "release"
  /\ \E i \in Marked(arg[c]) : marks' = SubSeq(marks, 1, i - 1)
  /\ savepoints' = savepoints \ {arg[c]}
  /\ Ends(c)
  /\ UNCHANGED <<autoCommit, hostAuto, pending, durable, answered, asked>>

IsolationSet(c) ==
  /\ pc[c] = "isolation"
  /\ pending = <<>>
  /\ hostAuto' = (arg[c] = "none")
  /\ Ends(c)
  /\ UNCHANGED <<clientVars, pending, marks, durable, answered, asked>>

(* An SQL error; an unknown savepoint is one.                               *)
Fails(c) ==
  /\ pc[c] # "idle"
  /\ Ends(c)
  /\ UNCHANGED <<clientVars, hostVars, answered, asked>>

-----------------------------------------------------------------------------

CallStep(c) ==
  \/ Execute(c) \/ CommitCalled(c) \/ RollbackCalled(c) \/ SavepointCalled(c)
  \/ SetTransactionIsolation(c) \/ IsolationSet(c)
  \/ Executed(c) \/ Committed(c) \/ RolledBack(c)
  \/ SavepointSet(c) \/ RolledBackTo(c) \/ Released(c) \/ Fails(c)

Next ==
  \/ \E c \in Callers : CallStep(c)
  \/ \E to \in BOOLEAN : SetAutoCommit(to)
  \/ Begin

Spec == Init /\ [][Next]_vars

-----------------------------------------------------------------------------
(* Properties.                                                              *)

(* "Auto-commit control: supported, conn.setAutoCommit(bool)": a change made*)
(* under autoCommit is durable when execute() ends, and one made after      *)
(* begin() is not durable before a commit.  Whatever the host does by itself*)
(* breaks one of the two.                                                   *)
ModeHonoured ==
  /\ answered \cap asked.auto \subseteq durable
  /\ asked.manual \cap durable = {}
=============================================================================
