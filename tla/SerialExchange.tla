--------------------------- MODULE SerialExchange ---------------------------
(***************************************************************************)
(* What a host connection promises to the code that calls sendAndReceive():*)
(* calls are served one at a time in the order they were made, and a call  *)
(* that succeeds returns the reply to its own request.                     *)
(***************************************************************************)
EXTENDS Sequences

CONSTANTS Calls,    \* invocations of sendAndReceive()
          Idle,     \* result of a call that was not made yet
          Pending,  \* result of a call that has not settled
          Failed    \* result of a call whose promise was rejected

VARIABLES queue,    \* calls made and not settled, in the order they were made
          result    \* what each call returned: the request its reply answers

vars == <<queue, result>>

Init == /\ queue = <<>>
        /\ result = [c \in Calls |-> Idle]

Submit(c) == /\ result[c] = Idle
             /\ queue' = Append(queue, c)
             /\ result' = [result EXCEPT ![c] = Pending]

(* Only the oldest call settles: with its own reply, or with an error. *)
Settle(c) == /\ queue # <<>>
             /\ c = Head(queue)
             /\ queue' = Tail(queue)
             /\ \E r \in {c, Failed} : result' = [result EXCEPT ![c] = r]

Next == \E c \in Calls : Submit(c) \/ Settle(c)

Spec == Init /\ [][Next]_vars
=============================================================================
