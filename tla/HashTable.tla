------------------------------ MODULE HashTable ------------------------------
(***************************************************************************)
(* fstd::memory::Hash_Table (fstd/memory/hash_table.hpp): the open         *)
(* addressing table in which the compiler keeps keywords, the symbols of a *)
(* scope and the imported libraries and functions.                         *)
(*                                                                         *)
(* It has one slot per value of Hash_Type, cut into buckets that are       *)
(* allocated when their first value is inserted.  A collision is handled   *)
(* by trying the next hash; elements are never removed.  An operation is   *)
(* modelled as the loop it is: one step per slot it examines.              *)
(***************************************************************************)
EXTENDS Integers, FiniteSets, Sequences

CONSTANTS
  Key,          \* keys (identifiers, library names)
  Value,        \* what is stored, a pointer in every use
  NULL,         \* nullptr: no value, no key
  Homes,        \* the hashes the hash function returns
  NB_BUCKETS,   \* (numeric_limits<Hash_Type>::max() + 1) / _bucket_size
  BUCKET_SIZE,  \* _bucket_size, 32 in the symbol tables, 512 for keywords
  PROMOTED      \* Hash_Type is narrower than int: hash + 1 does not wrap

NbSlots == NB_BUCKETS * BUCKET_SIZE  \* 2^16 or 2^32 in the compiler
MaxHash == NbSlots - 1               \* numeric_limits<Hash_Type>::max()
Slot == 0 .. MaxHash
Bucket == 0 .. NB_BUCKETS - 1

ASSUME SizeAssumption ==
  /\ NB_BUCKETS \in Nat \ {0}
  /\ BUCKET_SIZE \in Nat \ {0}
  /\ NB_BUCKETS * BUCKET_SIZE > 2
ASSUME HashAssumption == Homes \subseteq Slot /\ PROMOTED \in BOOLEAN
ASSUME DataAssumption == NULL \notin Value /\ NULL \notin Key

VARIABLES
  nb_values,    \* Bucket::nb_values, 0 also means "not yet initialised"
  init_flags,   \* the slots whose flag is set in Bucket::init_flags
  table,        \* Bucket::table of every bucket, slot by slot
  size,         \* Hash_Table::size
  hash_of,      \* the hash function: unknown, and the same for every call
  call,         \* the operation under way: its name, key, value and hash
  result,       \* what the last operation returned
  it,           \* the Iterator of the loop under way: its two indexes
  visited       \* the slots the loop under way has looked at so far

tableVars == <<nb_values, init_flags, table, size>>
loopVars == <<it, visited>>
vars == <<nb_values, init_flags, table, size, hash_of, call, result, it, visited>>

Pod == [key : Key \cup {NULL}, value : Value \cup {NULL}]
ZeroPod == [key |-> NULL, value |-> NULL]

Idle == [op |-> "idle", key |-> NULL, value |-> NULL, hash |-> 0]
Call ==
  {Idle}
    \cup [op : {"insert"}, key : Key, value : Value, hash : Slot]
    \cup [op : {"get"}, key : Key, value : {NULL}, hash : Slot]
    \cup [op : {"begin", "next", "iterate"},
          key : {NULL}, value : {NULL}, hash : {0}]

\* Iterator::bucket_index and slot_index; either may be one past the last.
Iterator == [bucket_index : 0 .. NB_BUCKETS, slot_index : 0 .. BUCKET_SIZE]
At(bucket, slot) == [bucket_index |-> bucket, slot_index |-> slot]

BucketOf(s) == s \div BUCKET_SIZE
SlotsOf(b) == {s \in Slot : BucketOf(s) = b}

----------------------------------------------------------------------------
(***************************************************************************)
(* Where a collision leads.  insert does hash++, which wraps with the      *)
(* width of Hash_Type.  get does (hash + 1) % max() of Hash_Type, which is *)
(* not the number of slots but one less.                                   *)
(***************************************************************************)
NextOnInsertUnwrapped(h) == h + 1
NextOnInsertBySquares(h) == (h + h) % NbSlots
NextOnInsert(h) == (h + 1) % NbSlots

Incremented(h) == IF PROMOTED THEN h + 1 ELSE (h + 1) % NbSlots
NextOnGetStuck(h) == h
NextOnGet(h) == Incremented(h) % MaxHash

Init ==
  /\ nb_values = [b \in Bucket |-> 0]
  /\ init_flags = {}
  /\ table = [s \in Slot |-> ZeroPod]
  /\ size = 0
  /\ hash_of \in [Key -> Homes]
  /\ call = Idle
  /\ result = NULL
  /\ it = At(0, 0)
  /\ visited = <<>>

----------------------------------------------------------------------------
(* hash_table_insert *)

BeginInsert(k, v) ==
  /\ call = Idle
  /\ call' = [op |-> "insert", key |-> k, value |-> v, hash |-> hash_of[k]]
  /\ UNCHANGED <<tableVars, hash_of, result, loopVars>>

\* A bucket without value is (re)initialised before its slot is looked at.
FlagsOnInsert(b) ==
  IF nb_values[b] = 0 THEN init_flags \ SlotsOf(b) ELSE init_flags
TableOnInsert(b) ==
  IF nb_values[b] = 0
    THEN [s \in Slot |-> IF BucketOf(s) = b THEN ZeroPod ELSE table[s]]
    ELSE table

InsertUncounted ==
  LET h == call.hash
      b == BucketOf(h)
  IN  /\ call.op = "insert"
      /\ h \notin FlagsOnInsert(b)
      /\ table' = [TableOnInsert(b) EXCEPT
                     ![h] = [key |-> call.key, value |-> call.value]]
      /\ size' = size + 1
      /\ nb_values' = nb_values
      /\ init_flags' = FlagsOnInsert(b) \cup {h}
      /\ result' = call.value
      /\ call' = Idle
      /\ UNCHANGED <<hash_of, loopVars>>
InsertAtFreeSlot ==
  LET h == call.hash
      b == BucketOf(h)
  IN  /\ call.op = "insert"
      /\ h \notin FlagsOnInsert(b)
      /\ table' = [TableOnInsert(b) EXCEPT
                     ![h] = [key |-> call.key, value |-> call.value]]
      /\ size' = size + 1
      /\ nb_values' = [nb_values EXCEPT ![b] = @ + 1]
      /\ init_flags' = FlagsOnInsert(b) \cup {h}
      /\ result' = call.value
      /\ call' = Idle
      /\ UNCHANGED <<hash_of, loopVars>>

InsertFindsKey ==
  /\ call.op = "insert"
  /\ call.hash \in FlagsOnInsert(BucketOf(call.hash))
  /\ table[call.hash].key = call.key
  /\ result' = table[call.hash].value
  /\ call' = Idle
  /\ UNCHANGED <<tableVars, hash_of, loopVars>>

InsertCollides ==
  /\ call.op = "insert"
  /\ call.hash \in FlagsOnInsert(BucketOf(call.hash))
  /\ table[call.hash].key # call.key
  /\ call' = [call EXCEPT !.hash = NextOnInsert(call.hash)]
  /\ UNCHANGED <<tableVars, hash_of, result, loopVars>>

----------------------------------------------------------------------------
(* hash_table_get *)

BeginGet(k) ==
  /\ call = Idle
  /\ call' = [op |-> "get", key |-> k, value |-> NULL, hash |-> hash_of[k]]
  /\ UNCHANGED <<tableVars, hash_of, result, loopVars>>

Occupied(s) == nb_values[BucketOf(s)] # 0 /\ s \in init_flags

GetMisses ==
  /\ call.op = "get"
  /\ ~Occupied(call.hash)
  /\ result' = NULL
  /\ call' = Idle
  /\ UNCHANGED <<tableVars, hash_of, loopVars>>

GetFindsAnyKey ==
  /\ call.op = "get"
  /\ Occupied(call.hash)
  /\ result' = table[call.hash].value
  /\ call' = Idle
  /\ UNCHANGED <<tableVars, hash_of, loopVars>>
GetFindsKey ==
  /\ call.op = "get"
  /\ Occupied(call.hash)
  /\ table[call.hash].key = call.key
  /\ result' = table[call.hash].value
  /\ call' = Idle
  /\ UNCHANGED <<tableVars, hash_of, loopVars>>

GetCollides ==
  /\ call.op = "get"
  /\ Occupied(call.hash)
  /\ table[call.hash].key # call.key
  /\ call' = [call EXCEPT !.hash = NextOnGet(call.hash)]
  /\ UNCHANGED <<tableVars, hash_of, result, loopVars>>

----------------------------------------------------------------------------
(***************************************************************************)
(* Iteration: for (it = begin(); !equals(it, end()); next(it)).  begin and *)
(* next run the same two nested loops, over the buckets and the slots of   *)
(* one, and leave a bucket differently: one step per turn of either loop.  *)
(***************************************************************************)
Loop(op) == [op |-> op, key |-> NULL, value |-> NULL, hash |-> 0]
Looping == call.op \in {"begin", "next", "iterate"}
Scanning == call.op \in {"begin", "next"}

hash_table_end == At(NB_BUCKETS, 0)

\* bucket_size: a bucket that was never allocated has no slot to look at.
SizeOf(b) == IF nb_values[b] = 0 THEN 0 ELSE BUCKET_SIZE
InBuckets == it.bucket_index \in Bucket
OnSlot == InBuckets /\ it.slot_index < SizeOf(it.bucket_index)
Position == it.bucket_index * BUCKET_SIZE + it.slot_index

hash_table_begin ==
  /\ call = Idle
  /\ call' = Loop("begin")
  /\ it' = At(0, 0)
  /\ visited' = <<>>
  /\ UNCHANGED <<tableVars, hash_of, result>>

ScanStops ==
  /\ Scanning /\ OnSlot
  /\ Position \in init_flags
  /\ call' = Loop("iterate")
  /\ UNCHANGED <<tableVars, hash_of, result, loopVars>>

ScanSkipsSlot ==
  /\ Scanning /\ OnSlot
  /\ Position \notin init_flags
  /\ it' = [it EXCEPT !.slot_index = @ + 1]
  /\ UNCHANGED <<tableVars, hash_of, call, result, visited>>

\* The inner loop of begin starts with slot_index = 0, if there is a bucket left.
BeginLeavesBucket ==
  LET bucket == it.bucket_index + 1
  IN  /\ call.op = "begin"
      /\ InBuckets /\ ~OnSlot
      /\ it' = At(bucket, IF bucket \in Bucket THEN 0 ELSE it.slot_index)
      /\ UNCHANGED <<tableVars, hash_of, call, result, visited>>

\* That of next starts where slot_index is, which is reset after each bucket.
NextKeepsSlot ==
  /\ call.op = "next"
  /\ InBuckets /\ ~OnSlot
  /\ it' = At(it.bucket_index + 1,
              IF it.bucket_index + 1 \in Bucket THEN it.slot_index ELSE 0)
  /\ UNCHANGED <<tableVars, hash_of, call, result, visited>>
NextLeavesBucket ==
  /\ call.op = "next"
  /\ InBuckets /\ ~OnSlot
  /\ it' = At(it.bucket_index + 1, 0)
  /\ UNCHANGED <<tableVars, hash_of, call, result, visited>>

ScanEnds ==
  /\ Scanning /\ ~InBuckets
  /\ call' = Loop("iterate")
  /\ UNCHANGED <<tableVars, hash_of, result, loopVars>>

\* hash_table_get(it) in the loop's body, then slot_index++ of next.  Past the
\* buckets there is nothing to get: only the end iterator may be there.
hash_table_next ==
  /\ call.op = "iterate"
  /\ InBuckets
  /\ result' = table[Position].value
  /\ visited' = Append(visited, Position)
  /\ it' = [it EXCEPT !.slot_index = @ + 1]
  /\ call' = Loop("next")
  /\ UNCHANGED <<tableVars, hash_of>>

IterationEnds ==
  /\ call.op = "iterate"
  /\ it = hash_table_end
  /\ call' = Idle
  /\ it' = At(0, 0)
  /\ visited' = <<>>
  /\ UNCHANGED <<tableVars, hash_of, result>>

----------------------------------------------------------------------------
InsertStep == InsertAtFreeSlot \/ InsertFindsKey \/ InsertCollides
GetStep == GetMisses \/ GetFindsKey \/ GetCollides
ScanStep ==
  ScanStops \/ ScanSkipsSlot \/ BeginLeavesBucket \/ NextLeavesBucket \/ ScanEnds
IterateStep == ScanStep \/ hash_table_next \/ IterationEnds

Next ==
  \/ \E k \in Key, v \in Value : BeginInsert(k, v)
  \/ InsertStep
  \/ \E k \in Key : BeginGet(k)
  \/ GetStep
  \/ hash_table_begin
  \/ IterateStep

Spec == Init /\ [][Next]_vars

\* The loops have no exit but their returns: they keep running.
FairSpec ==
  Spec /\ WF_vars(InsertStep) /\ WF_vars(GetStep) /\ WF_vars(IterateStep)

----------------------------------------------------------------------------
(* Properties *)

\* The variables hold values of their C++ types.
TypeOK ==
  /\ nb_values \in [Bucket -> Nat]
  /\ init_flags \in SUBSET Slot
  /\ table \in [Slot -> Pod]
  /\ size \in Nat
  /\ hash_of \in [Key -> Slot]
  /\ call \in Call
  /\ result \in Value \cup {NULL}
  /\ it \in Iterator
  /\ visited \in Seq(Slot)

\* The slots an insertion examines from its hash h until it stops at s.
Path(h, s) == IF h <= s THEN h .. s ELSE (h .. MaxHash) \cup (0 .. s)

\* A key is in one slot at most, whatever the collisions it met: insert
\* would otherwise return a value that a lookup never sees again.
NoDuplicateKey ==
  \A s, t \in init_flags : table[s].key = table[t].key => s = t

\* Every slot from the hash of a key to the slot that holds it is occupied,
\* so that a search that follows the insertion's path does not stop before.
ProbeChain ==
  \A s \in init_flags :
    /\ table[s].key \in Key
    /\ Path(hash_of[table[s].key], s) \subseteq init_flags

\* size and nb_values, which stands for "is this bucket allocated", count the
\* flags: a bucket that has values is never initialised a second time.
CountersAgree ==
  /\ size = Cardinality(init_flags)
  /\ \A b \in Bucket : nb_values[b] = Cardinality(init_flags \cap SlotsOf(b))

\* insert and get return &value_pod.value, and callers keep the pointer (the
\* imported libraries and functions): what is in a slot never changes or moves.
ReturnedPointersStayValid ==
  [][\A s \in init_flags : s \in init_flags' /\ table'[s] = table[s]]_vars

\* A loop over the table looks at each value once and forgets none, in order,
\* whatever the buckets in use: what is behind the two indexes has been visited,
\* and they stop at a value or at hash_table_end, slot_index reset to 0.
IterationExact ==
  Looping =>
    /\ \A i, j \in DOMAIN visited : i < j => visited[i] < visited[j]
    /\ {visited[i] : i \in DOMAIN visited}
         = {s \in init_flags : s < Position}
    /\ call.op = "iterate" =>
         it = hash_table_end \/ (OnSlot /\ Position \in init_flags)

\* Every operation returns, as long as a slot is free for each key.
OperationsReturn == call # Idle ~> call = Idle

----------------------------------------------------------------------------
(***************************************************************************)
(* The map the table stands for.  A key is visible unless its collisions   *)
(* brought it to the one slot that get, starting from the same hash, steps *)
(* over: the top one, or slot 0 for a key whose own hash is the top.       *)
(***************************************************************************)
SlotOfKey(k) == CHOOSE s \in init_flags : table[s].key = k
Stored(k) == \E s \in init_flags : table[s].key = k

AbstractMap ==
  [k \in Key |-> IF Stored(k) THEN table[SlotOfKey(k)].value ELSE NULL]

Skipped(h, s) ==
  \/ s = MaxHash /\ h # MaxHash
  \/ s = 0 /\ h = MaxHash /\ PROMOTED
Visible == {k \in Key : Stored(k) => ~Skipped(hash_of[k], SlotOfKey(k))}

\* What the caller asked, whatever the search has come to: the keys a loop has
\* left are those of the slots it has not looked at.
Request ==
  IF Looping
    THEN [op |-> "iterate", key |-> NULL, value |-> NULL,
          left |-> {k \in Key : /\ Stored(k)
                                /\ \A i \in DOMAIN visited :
                                     visited[i] # SlotOfKey(k)}]
    ELSE [op |-> call.op, key |-> call.key, value |-> call.value, left |-> {}]

\* The table implements the map of SymbolMap: an insertion or a lookup answers
\* for the key it was asked, and a loop meets every key.
Map == INSTANCE SymbolMap WITH
  map <- AbstractMap, answer <- result, visible <- Visible, request <- Request
MapSpec == Map!Spec

\* Nothing was inserted that a lookup does not find again: the operation
\* under way has not missed a key the table holds.
CollidingKeysFound ==
  call.op = "get" /\ Stored(call.key) => Occupied(call.hash)
=============================================================================
