------------------------------ MODULE SymbolMap ------------------------------
(***************************************************************************)
(* What a user of fstd::memory::Hash_Table counts on: a partial map from   *)
(* keys to values in which the first declaration of a key wins, nothing is *)
(* ever removed, a lookup answers for the key that was asked, and a loop   *)
(* meets every key of the map once.                                        *)
(*                                                                         *)
(* Only the keys of `visible' are promised to be found again.  A table     *)
(* without defect makes every key visible.                                 *)
(***************************************************************************)
CONSTANTS
  Key,      \* the keys users insert and look up
  Value,    \* the values they attach to them
  NULL      \* the answer of a lookup that finds nothing

VARIABLES
  map,      \* [Key -> Value \cup {NULL}]
  answer,   \* what the last operation, or turn of a loop, returned
  visible,  \* the keys a lookup must find once they are in the map
  request   \* the operation under way: its name, key and value, and the keys
            \* a loop has not met yet

vars == <<map, answer, visible, request>>

Nothing == [op |-> "idle", key |-> NULL, value |-> NULL, left |-> {}]

Init ==
  /\ map = [k \in Key |-> NULL]
  /\ answer = NULL
  /\ visible = Key
  /\ request = Nothing

Ask(op, k, v, left) ==
  /\ request = Nothing
  /\ request' = [op |-> op, key |-> k, value |-> v, left |-> left]
  /\ UNCHANGED <<map, answer, visible>>

AskInsert == \E k \in Key, v \in Value : Ask("insert", k, v, {})
AskGet == \E k \in Key : Ask("get", k, NULL, {})
AskIterate == Ask("iterate", NULL, NULL, {k \in Key : map[k] # NULL})

\* The first insertion of a key binds it, and may be the one that hides it.
Bind ==
  /\ request.op = "insert"
  /\ map[request.key] = NULL
  /\ map' = [map EXCEPT ![request.key] = request.value]
  /\ answer' = request.value
  /\ visible' \in {visible, visible \ {request.key}}
  /\ request' = Nothing

\* Later ones return the value it has.
Rebind ==
  /\ request.op = "insert"
  /\ map[request.key] # NULL
  /\ answer' = map[request.key]
  /\ request' = Nothing
  /\ UNCHANGED <<map, visible>>

Lookup ==
  /\ request.op = "get"
  /\ \/ answer' = map[request.key]
     \/ request.key \notin visible /\ answer' = NULL
  /\ request' = Nothing
  /\ UNCHANGED <<map, visible>>

Enumerate ==
  /\ request.op = "iterate"
  /\ \E k \in request.left :
       /\ answer' = map[k]
       /\ request' = [request EXCEPT !.left = @ \ {k}]
  /\ UNCHANGED <<map, visible>>

EnumerationEnds ==
  /\ request.op = "iterate"
  /\ request.left = {}
  /\ request' = Nothing
  /\ UNCHANGED <<map, answer, visible>>

Next ==
  \/ AskInsert \/ Bind \/ Rebind
  \/ AskGet \/ Lookup
  \/ AskIterate \/ Enumerate \/ EnumerationEnds

Spec == Init /\ [][Next]_vars
=============================================================================
