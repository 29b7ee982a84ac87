----------------------------- MODULE AS400Pool -----------------------------
(***************************************************************************)
(* internal/pool/ConnectionPool.js, the pool of AS400 objects, as          *)
(* compat/AS400ConnectionPool.js uses it: acquire() awaits a factory or    *)
(* polls every 50 ms, release() and remove() are synchronous, a timer reaps*)
(* idle entries, and close() awaits the destroyer of one entry at a time   *)
(* while everything else goes on.                                          *)
(*                                                                         *)
(* A borrower calls acquire() again and again, and gives each resource back*)
(* once, by release() or, when it finds it broken, by remove().            *)
(***************************************************************************)
EXTENDS Integers, FiniteSets, Sequences, SequencesExt

CONSTANTS Borrowers,   \* callers of acquire(), each with one call at a time
          Resources,   \* the AS400 objects the factory may make
          MaxSize,         \* opts.max
          NoResource   \* the resource of a borrower that has none

ASSUME AS400PoolAssumption == /\ MaxSize \in Nat \ {0}
                              /\ NoResource \notin Resources
                              /\ IsFiniteSet(Borrowers)
                              /\ IsFiniteSet(Resources)

VARIABLES
  entries,   \* #entries: the resources of the pool, in the order of the array
  used,      \* the resources whose entry has inUse set
  closed,    \* #closed
  cursor,    \* the index close() iterates at, 0 when it does not run
  state,     \* the resources themselves
  pc,        \* where each borrower is
  res,       \* the resource each borrower holds
  peak,      \* history: the most calls of the factory under way at once
  skipped,   \* history: remove() shifted the entries under close()
  late       \* history: resources made after close() had ended

histories == <<peak, skipped, late>>
vars == <<entries, used, closed, cursor, state, pc, res, histories>>

TypeOK ==
  /\ entries \in Seq(Resources)
  /\ used \in SUBSET Resources
  /\ closed \in BOOLEAN
  /\ cursor \in Nat
  /\ state \in [Resources -> {"new", "open", "closed"}]
  /\ pc \in [Borrowers -> {"idle", "creating", "waiting", "holding"}]
  /\ res \in [Borrowers -> Resources \cup {NoResource}]
  /\ peak \in Nat
  /\ skipped \in BOOLEAN
  /\ late \in SUBSET Resources

Init ==
  /\ entries = <<>>
  /\ used = {}
  /\ closed = FALSE
  /\ cursor = 0
  /\ state = [r \in Resources |-> "new"]
  /\ pc = [b \in Borrowers |-> "idle"]
  /\ res = [b \in Borrowers |-> NoResource]
  /\ peak = 0
  /\ skipped = FALSE
  /\ late = {}

-----------------------------------------------------------------------------
(* acquire().                                                               *)

Free == {i \in DOMAIN entries : entries[i] \notin used}
Creating == {b \in Borrowers : pc[b] = "creating"}

(* The first idle entry of the array is marked and handed out.              *)
TakeFree(b) ==
  \E i \in Free :
    /\ \A j \in Free : i <= j
    /\ used' = used \cup {entries[i]}
    /\ res' = [res EXCEPT ![b] = entries[i]]
    /\ pc' = [pc EXCEPT ![b] = "holding"]

(* The factory is called, and peak takes note of how many calls there are.  *)
CallFactory(b) ==
  /\ pc' = [pc EXCEPT ![b] = "creating"]
  /\ peak' = IF Cardinality(Creating \cup {b}) > peak THEN Cardinality(Creating \cup {b}) ELSE peak
  /\ UNCHANGED <<used, res>>

(* Mutant: the limit is tested with <=.                                     *)
StartCreatingOneMore(b) ==
  /\ Free = {}
  /\ Len(entries) <= MaxSize
  /\ CallFactory(b)

(* Under the limit the factory is called; resources on their way out of a   *)
(* factory are not counted.                                                 *)
StartCreating(b) ==
  /\ Free = {}
  /\ Len(entries) < MaxSize
  /\ CallFactory(b)

StartWaiting(b) ==
  /\ Free = {}
  /\ Len(entries) >= MaxSize
  /\ pc' = [pc EXCEPT ![b] = "waiting"]
  /\ UNCHANGED <<used, res, peak>>

(* A closed pool refuses: the borrower stays idle.                          *)
Acquire(b) ==
  /\ pc[b] = "idle"
  /\ ~closed
  /\ \/ TakeFree(b) /\ UNCHANGED peak
     \/ StartCreating(b)
     \/ StartWaiting(b)
  /\ UNCHANGED <<entries, closed, cursor, state, skipped, late>>

(* The factory's resource enters the array; #closed is not looked at.       *)
Created(b) ==
  /\ pc[b] = "creating"
  /\ \E r \in Resources :
       /\ state[r] = "new"
       /\ state' = [state EXCEPT ![r] = "open"]
       /\ entries' = Append(entries, r)
       /\ used' = used \cup {r}
       /\ res' = [res EXCEPT ![b] = r]
       /\ late' = IF closed /\ cursor = 0 THEN late \cup {r} ELSE late
  /\ pc' = [pc EXCEPT ![b] = "holding"]
  /\ UNCHANGED <<closed, cursor, peak, skipped>>

(* The factory fails, and acquire() with it.                                *)
CreateFails(b) ==
  /\ pc[b] = "creating"
  /\ pc' = [pc EXCEPT ![b] = "idle"]
  /\ UNCHANGED <<entries, used, closed, cursor, state, res, histories>>

(* check() finds an idle entry; when it finds none it is called again.      *)
Poll(b) ==
  /\ pc[b] = "waiting"
  /\ ~closed
  /\ TakeFree(b)
  /\ UNCHANGED <<entries, closed, cursor, state, histories>>

(* check() finds the pool closed and rejects.                               *)
PollClosed(b) ==
  /\ pc[b] = "waiting"
  /\ closed
  /\ pc' = [pc EXCEPT ![b] = "idle"]
  /\ UNCHANGED <<entries, used, closed, cursor, state, res, histories>>

-----------------------------------------------------------------------------
(* release() and remove().                                                  *)

(* Mutant: only the time of use is updated.                                 *)
ReleaseKept(b) ==
  /\ pc[b] = "holding"
  /\ pc' = [pc EXCEPT ![b] = "idle"]
  /\ res' = [res EXCEPT ![b] = NoResource]
  /\ UNCHANGED <<entries, used, closed, cursor, state, histories>>

(* The entry of the resource becomes idle; a resource that has no entry any *)
(* more is ignored.                                                         *)
Release(b) ==
  /\ pc[b] = "holding"
  /\ used' = used \ {res[b]}
  /\ pc' = [pc EXCEPT ![b] = "idle"]
  /\ res' = [res EXCEPT ![b] = NoResource]
  /\ UNCHANGED <<entries, closed, cursor, state, histories>>

(* The entry is spliced out.  An index below that of close() moves the      *)
(* entries it has not reached yet.  The resource is the borrower's to close.*)
Discard(b) ==
  /\ pc[b] = "holding"
  /\ \/ /\ res[b] \notin ToSet(entries)
        /\ UNCHANGED <<entries, skipped>>
     \/ \E i \in DOMAIN entries :
          /\ entries[i] = res[b]
          /\ entries' = RemoveAt(entries, i)
          /\ skipped' = (skipped \/ i < cursor)
  /\ used' = used \ {res[b]}
  /\ state' = [state EXCEPT ![res[b]] = "closed"]
  /\ pc' = [pc EXCEPT ![b] = "idle"]
  /\ res' = [res EXCEPT ![b] = NoResource]
  /\ UNCHANGED <<closed, cursor, peak, late>>

-----------------------------------------------------------------------------
(* The reaper and close().                                                  *)

(* Mutant: the indices are spliced in ascending order, so that each splice  *)
(* shifts the entries behind it.                                            *)
ReapAscending ==
  /\ ~closed
  /\ \E i, j \in Free :
       /\ i < j
       /\ j < Len(entries)
       /\ entries' = RemoveAt(RemoveAt(entries, i), j)
       /\ state' = [state EXCEPT ![entries[i]] = "closed", ![entries[j + 1]] = "closed"]
       /\ used' = used \ {entries[j + 1]}
  /\ UNCHANGED <<closed, cursor, pc, res, histories>>

(* #reapIdle(): an idle entry that is old enough is spliced out and closed; *)
(* a reap of several is a series of these steps.  close() stops the timer.  *)
Reap ==
  /\ ~closed
  /\ \E i \in Free :
       /\ entries' = RemoveAt(entries, i)
       /\ state' = [state EXCEPT ![entries[i]] = "closed"]
  /\ UNCHANGED <<used, closed, cursor, pc, res, histories>>

(* Mutant: close() destroys nothing that is in use.                         *)
DestroyIdle(i) ==
  IF i <= Len(entries)
    THEN /\ cursor' = i + 1
         /\ state' = IF entries[i] \in used THEN state ELSE [state EXCEPT ![entries[i]] = "closed"]
         /\ UNCHANGED <<entries, used>>
    ELSE /\ cursor' = 0
         /\ entries' = <<>>
         /\ used' = {}
         /\ UNCHANGED state

(* One round of the loop of close(), up to the await of the destroyer: the  *)
(* entry at index i is destroyed, in use or not.  After the last one the    *)
(* array is emptied.  Errors of the destroyer are swallowed.                *)
DestroyAt(i) ==
  IF i <= Len(entries)
    THEN /\ cursor' = i + 1
         /\ state' = [state EXCEPT ![entries[i]] = "closed"]
         /\ UNCHANGED <<entries, used>>
    ELSE /\ cursor' = 0
         /\ entries' = <<>>
         /\ used' = {}
         /\ UNCHANGED state

(* close() may be called again once it has ended; calls do not overlap.     *)
Close ==
  /\ cursor = 0
  /\ closed' = TRUE
  /\ DestroyAt(1)
  /\ UNCHANGED <<pc, res, histories>>

CloseNext ==
  /\ cursor > 0
  /\ DestroyAt(cursor)
  /\ UNCHANGED <<closed, pc, res, histories>>

-----------------------------------------------------------------------------

BorrowerStep(b) ==
  \/ Acquire(b) \/ Created(b) \/ CreateFails(b) \/ Poll(b) \/ PollClosed(b)
  \/ Release(b) \/ Discard(b)

Next ==
  \/ \E b \in Borrowers : BorrowerStep(b)
  \/ Reap
  \/ Close
  \/ CloseNext

Spec == Init /\ [][Next]_vars

(* The factory settles, a poll is repeated until it finds an idle entry, and*)
(* the destroyer settles.  Borrowers need not give anything back.           *)
Fairness ==
  /\ \A b \in Borrowers :
       /\ WF_vars(Created(b) \/ CreateFails(b))
       /\ WF_vars(Poll(b) \/ PollClosed(b))
  /\ WF_vars(CloseNext)

FairSpec == Spec /\ Fairness

-----------------------------------------------------------------------------
(* Properties.                                                              *)

(* Until the pool is closed, what a borrower holds is its own, is open, and *)
(* is in the array with its flag set: acquire, release, remove and the      *)
(* reaper, which splices entries by index, never take it away.              *)
HeldIsSafe ==
  ~closed => \A b \in Borrowers : pc[b] = "holding" =>
    /\ state[res[b]] = "open"
    /\ res[b] \in used
    /\ res[b] \in ToSet(entries)
    /\ \A c \in Borrowers : pc[c] = "holding" /\ res[c] = res[b] => b = c

(* acquire() tests opts.max before the await of the factory and pushes the  *)
(* entry after it, so the limit does not hold; what holds in every history  *)
(* is how far it is exceeded: the entries and the resources on their way    *)
(* are never more than opts.max and one for each factory call beyond the    *)
(* first that ever ran at once.  Failing factories, remove(), the reaper and*)
(* close() never add to that, and without overlap opts.max is kept.         *)
ExcessIsOverlap ==
  Len(entries) + Cardinality(Creating) <= MaxSize + peak - 1

(* When close() has ended, every resource of the pool is closed, those in   *)
(* use and those pushed while it was iterating included, but for the ones   *)
(* made after it and the ones it stepped over because remove() shifted them.*)
CloseReachesAll ==
  closed /\ cursor = 0 /\ ~skipped => \A r \in Resources : state[r] = "open" => r \in late

(* A waiter has no place in a queue and makes no resource itself.  It waits *)
(* for ever only if somebody keeps a resource for ever, if all entries have *)
(* been removed, or if others are served for ever in its place.             *)
WaitersLoseOnlyRaces ==
  \A b \in Borrowers :
    <>[](pc[b] = "waiting")
      => \/ <>[](entries = <<>> /\ ~closed)
         \/ \E c \in Borrowers : <>[](pc[c] = "holding")
         \/ []<><<\E c \in Borrowers : pc[c] # "holding" /\ pc'[c] = "holding">>_vars
=============================================================================
