------------------------------ MODULE MCDbPool ------------------------------
(***************************************************************************)
(* DbPool with a memory of how many connections its limit overlooked.      *)
(***************************************************************************)
EXTENDS DbPool

(* The most connections that were on their way when the pool set out to     *)
(* open another one.                                                        *)
VARIABLE ahead

(* Connections that count for the host and not for size.                    *)
OnTheWay(R) ==
  Cardinality({r \in R : pc[r] \in {"validating", "connecting"}})
    + (IF warm > 0 THEN warm ELSE 0)

(* What sets out in a step: the requests that call the connect function, or *)
(* warmup().                                                                *)
SettingOut == {r \in Requests : pc[r] # "connecting" /\ pc'[r] = "connecting"}
WarmsUp == warm = -1 /\ warm' # -1

Larger(m, n) == IF n > m THEN n ELSE m

AheadInit == Init /\ ahead = 0

AheadNext ==
  /\ Next
  /\ ahead' = IF SettingOut # {} \/ WarmsUp
                THEN Larger(ahead, OnTheWay(Requests \ SettingOut))
                ELSE ahead

AheadSpec == AheadInit /\ [][AheadNext]_<<vars, ahead>> /\ Fairness

(* size does not count a connection that is being opened or validated, so   *)
(* options.max does not hold (pool.test.js, 'respects max pool size', has   *)
(* one request at a time); what holds in every history is how far it is     *)
(* exceeded: by no more than there were connections on their way when the   *)
(* pool set out to open another.  Timeouts, failed validations, lost        *)
(* handovers, the sweep and close() never add to that.                      *)
ExcessIsOverlap == Size + OnTheWay(Requests) <= MaxSize + ahead
=============================================================================
