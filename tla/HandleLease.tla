----------------------------- MODULE HandleLease -----------------------------
(***************************************************************************)
(* What the statement cache promises its users, one prepared handle at a   *)
(* time: a handle is leased to one owner, lies idle in the cache, or is on *)
(* its way out; a retired handle is never handed out again.                *)
(***************************************************************************)
CONSTANTS Handles, Owners, Unborn, Idle, Retired

VARIABLE owner   \* who holds each handle: an owner, or one of the marks above

TypeOK == owner \in [Handles -> Owners \cup {Unborn, Idle, Retired}]

Init == owner = [h \in Handles |-> Unborn]

(* An owner gets new handles or idle ones.                                  *)
Lease(h, o) ==
  /\ owner[h] \in {Unborn, Idle}
  /\ owner' = [owner EXCEPT ![h] = o]

(* An owner gives its handle back; another idle handle may have to go.      *)
GiveBack(h, R) ==
  /\ owner[h] \in Owners
  /\ \A r \in R : owner[r] = Idle
  /\ owner' = [g \in Handles |-> IF g = h THEN Idle
                                 ELSE IF g \in R THEN Retired ELSE owner[g]]

(* Handles that are leased or idle are retired, by their owner or by the    *)
(* end of the connection.                                                   *)
Retire(R) ==
  /\ \A r \in R : owner[r] \notin {Unborn, Retired}
  /\ owner' = [g \in Handles |-> IF g \in R THEN Retired ELSE owner[g]]

Next ==
  \/ \E h \in Handles, o \in Owners : Lease(h, o)
  \/ \E h \in Handles, R \in SUBSET Handles : GiveBack(h, R)
  \/ \E R \in SUBSET Handles : Retire(R)

Spec == Init /\ [][Next]_owner
=============================================================================
