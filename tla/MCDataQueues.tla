---------------------------- MODULE MCDataQueues ----------------------------
EXTENDS DataQueues

(* Calls 1 and 2 are made on one AS400 object, call 3 on another.           *)
MCSystemOf == <<1, 1, 2>>

AWrite == [op |-> "write", keyed |-> FALSE]
AWait == [op |-> "read", keyed |-> FALSE, wait |-> "forever", peek |-> FALSE]
APeek == [op |-> "read", keyed |-> FALSE, wait |-> "no", peek |-> TRUE]
WriteTo(k) == [op |-> "write", keyed |-> TRUE, key |-> k]
ReadBelow(k) == [op |-> "read", keyed |-> TRUE, wait |-> "seconds", peek |-> FALSE,
                 key |-> k, search |-> "LT"]

MCRequests ==
  <<{AWrite, AWait, WriteTo(1),
     [op |-> "create", keyed |-> FALSE, order |-> "LIFO"],
     [op |-> "create", keyed |-> TRUE]},
    {AWrite, APeek, WriteTo(2),
     [op |-> "clear", keyed |-> FALSE],
     [op |-> "clear", keyed |-> TRUE, key |-> 1],
     [op |-> "delete", keyed |-> FALSE],
     [op |-> "attributes", keyed |-> TRUE]},
    {AWrite, AWait, WriteTo(2), ReadBelow(2)}>>
=============================================================================
