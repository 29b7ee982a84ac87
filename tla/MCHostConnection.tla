------------------------- MODULE MCHostConnection -------------------------
(***************************************************************************)
(* Model-checking instances of HostConnection: three calls on one socket,  *)
(* all of them locked, or some of them raw.                                *)
(***************************************************************************)
EXTENDS HostConnection

(* overlap remembers whether two calls were ever talking at the same time.  *)
VARIABLE overlap

OverlapInit == Init /\ overlap = FALSE

OverlapNext ==
  /\ Next
  /\ overlap' = (overlap \/ \E c, d \in Calls : c # d /\ Talking(c)' /\ Talking(d)')

OverlapSpec == OverlapInit /\ [][OverlapNext]_<<vars, overlap>>

(* IFSFile.js #listSelf() and listFiles() talk without the lock.  As long as*)
(* no two calls happen to talk at the same time they get their own replies  *)
(* too, and read everything that was sent to them: what the comment at      *)
(* #lock asks for is sufficient for every caller, raw ones included.        *)
DesyncNeedsOverlap == ~overlap => RepliesMatch /\ NothingLeftBehind
=============================================================================
