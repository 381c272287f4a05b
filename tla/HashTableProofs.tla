--------------------------- MODULE HashTableProofs ---------------------------
(***************************************************************************)
(* Theorems about HashTable, for every number and size of buckets, every   *)
(* set of keys and values and every hash function.                         *)
(*                                                                         *)
(* The argument rests on two facts about a search under way (Cursor): an   *)
(* insertion has only passed slots that hold other keys, and a lookup of a *)
(* visible key is still on the path between its hash and its slot.  Both   *)
(* follow from ProbeChain, which no step can break because nothing is ever *)
(* removed and because nb_values never calls a used bucket uninitialised   *)
(* (BucketsTracked).                                                       *)
(*                                                                         *)
(* A loop's iterator is at a value whenever it is handed to the caller and *)
(* inside the buckets (LoopCursor).                                        *)
(***************************************************************************)
EXTENDS HashTable, FiniteSetTheorems, SequenceTheorems, TLAPS

\* nb_values is 0 for the buckets without a value, and for them only.
BucketsTracked ==
  \A s \in init_flags : nb_values[BucketOf(s)] # 0

\* The slots an insertion with hash h has examined when it looks at slot c.
Passed(h, c) == Path(h, c) \ {c}

InsertCursor ==
  call.op = "insert" =>
    \A s \in Passed(hash_of[call.key], call.hash) :
      s \in init_flags /\ table[s].key # call.key

GetCursor ==
  call.op = "get" =>
    /\ call.hash = MaxHash => hash_of[call.key] = MaxHash
    /\ \A s \in init_flags :
         (table[s].key = call.key /\ ~Skipped(hash_of[call.key], s))
           => call.hash \in Path(hash_of[call.key], s)

LoopCursor ==
  call.op = "iterate" /\ InBuckets => OnSlot /\ Position \in init_flags

IInv ==
  /\ TypeOK
  /\ NoDuplicateKey
  /\ ProbeChain
  /\ BucketsTracked
  /\ InsertCursor
  /\ GetCursor
  /\ LoopCursor

-----------------------------------------------------------------------------
(* Arithmetic of slots and buckets *)

LEMMA SlotCount == NbSlots \in Nat /\ NbSlots > 2 /\ MaxHash \in Nat /\ MaxHash > 1
<1>1. NB_BUCKETS \in Nat /\ BUCKET_SIZE \in Nat /\ NB_BUCKETS * BUCKET_SIZE > 2
  BY SizeAssumption
<1>2. NB_BUCKETS * BUCKET_SIZE \in Nat
  BY <1>1
<1> QED BY <1>1, <1>2 DEF NbSlots, MaxHash

LEMMA SmallRemainder ==
  ASSUME NEW m \in Nat \ {0}, NEW x \in 0 .. (m - 1)
  PROVE  x % m = x
  BY SMT

LEMMA LargeRemainder ==
  ASSUME NEW m \in Nat \ {0}, NEW x \in m .. (m + m - 1)
  PROVE  x % m = x - m
  BY SMT

LEMMA BucketOfSlot == \A s \in Slot : BucketOf(s) \in Bucket
<1> SUFFICES ASSUME NEW s \in Slot PROVE BucketOf(s) \in Bucket
  OBVIOUS
<1> DEFINE n == NB_BUCKETS  b == BUCKET_SIZE  q == s \div b
<1>1. n \in Nat \ {0} /\ b \in Nat \ {0} /\ s \in 0 .. (n * b - 1)
  BY SizeAssumption DEF Slot, MaxHash, NbSlots
<1>2. s = b * q + (s % b) /\ s % b \in 0 .. (b - 1) /\ q \in Int
  BY <1>1, SMT
<1>3. b * q <= s /\ s < b * q + b
  BY <1>1, <1>2, SMT
<1> HIDE DEF q, n, b
<1>4. q >= 0 /\ q < n
  BY <1>1, <1>2, <1>3, SMT
<1> QED BY <1>1, <1>2, <1>4 DEF BucketOf, Bucket, q, n, b

\* The slots of a bucket are those from its first to the first of the next.
LEMMA SlotBounds ==
  ASSUME NEW s \in Slot
  PROVE  /\ BucketOf(s) * BUCKET_SIZE <= s
         /\ s < BucketOf(s) * BUCKET_SIZE + BUCKET_SIZE
<1>1. s \in Nat /\ BUCKET_SIZE \in Nat \ {0}
  BY SizeAssumption, SlotCount DEF Slot
<1>2. /\ s = BUCKET_SIZE * (s \div BUCKET_SIZE) + (s % BUCKET_SIZE)
      /\ s % BUCKET_SIZE \in 0 .. (BUCKET_SIZE - 1) /\ s \div BUCKET_SIZE \in Int
  BY <1>1, SMT
<1> QED BY <1>1, <1>2, SMT DEF BucketOf

LEMMA BucketsApart ==
  ASSUME NEW n \in Nat, NEW c \in Nat, NEW b \in Nat, c < b
  PROVE  c * n + n <= b * n
<1>1. PICK d \in Nat : b = c + 1 + d
  <2>1. b - c - 1 \in Nat /\ b = c + 1 + (b - c - 1)
    OBVIOUS
  <2> QED BY <2>1
<1>2. b * n = c * n + n + d * n /\ d * n >= 0
  BY <1>1, SMT
<1>3. c * n \in Nat /\ d * n \in Nat
  BY SMT
<1> QED BY <1>2, <1>3

LEMMA BucketOfPosition ==
  ASSUME NEW b \in Bucket, NEW i \in 0 .. (BUCKET_SIZE - 1)
  PROVE  /\ b * BUCKET_SIZE + i \in Slot
         /\ BucketOf(b * BUCKET_SIZE + i) = b
<1> DEFINE n == BUCKET_SIZE  m == NB_BUCKETS  s == b * n + i
<1>1. n \in Nat \ {0} /\ m \in Nat \ {0} /\ b \in Nat /\ b < m /\ i \in 0 .. (n - 1)
  BY SizeAssumption DEF Bucket
<1>2. b * n \in Nat /\ b * n + n <= m * n /\ m * n \in Nat
  BY <1>1, BucketsApart, SMT
<1>3. s \in Slot
  BY <1>1, <1>2 DEF Slot, MaxHash, NbSlots
<1>4. /\ BucketOf(s) * n <= s /\ s < BucketOf(s) * n + n
      /\ BucketOf(s) \in Nat
  BY <1>3, SlotBounds, BucketOfSlot DEF Bucket
<1> DEFINE c == BucketOf(s)
<1>5. c \in Nat /\ c * n \in Nat /\ c * n <= s /\ s < c * n + n
  BY <1>1, <1>4, SMT
<1>6. b * n <= s /\ s < b * n + n
  BY <1>1, <1>2
<1>7. c < b => c * n + n <= b * n
  BY <1>1, <1>5, BucketsApart
<1>8. b < c => b * n + n <= c * n
  BY <1>1, <1>5, BucketsApart
<1>9. s \in Nat
  BY <1>1, <1>2
<1>10. c = b
  <2> HIDE DEF c, s, n, m
  <2>1. b * n \in Nat /\ c * n \in Nat /\ n \in Nat /\ b \in Nat /\ c \in Nat
    BY <1>1, <1>2, <1>5
  <2>2. ~(c < b)
    BY <2>1, <1>5, <1>6, <1>7, <1>9
  <2>3. ~(b < c)
    BY <2>1, <1>5, <1>6, <1>8, <1>9
  <2> QED BY <2>1, <2>2, <2>3
<1> QED BY <1>3, <1>10

\* hash++ moves to the next slot and from the top one to slot 0.
LEMMA InsertMove ==
  ASSUME NEW h \in Slot
  PROVE  /\ NextOnInsert(h) \in Slot
         /\ NextOnInsert(h) = IF h = MaxHash THEN 0 ELSE h + 1
<1>1. NbSlots \in Nat \ {0} /\ MaxHash = NbSlots - 1 /\ MaxHash > 1 /\ h \in 0 .. MaxHash
  BY SlotCount DEF MaxHash, Slot
<1>2. CASE h = MaxHash
  <2>1. (h + 1) % NbSlots = (h + 1) - NbSlots
    BY <1>1, <1>2, LargeRemainder
  <2> QED BY <2>1, <1>1, <1>2 DEF NextOnInsert, Slot
<1>3. CASE h # MaxHash
  <2>1. (h + 1) % NbSlots = h + 1
    BY <1>1, <1>3, SmallRemainder
  <2> QED BY <2>1, <1>1, <1>3 DEF NextOnInsert, Slot
<1> QED BY <1>2, <1>3

\* get never moves to the top slot, and reaches the same slots otherwise: from
\* the one below the top it goes to 0, and from the top to 1 or 0.
LEMMA GetMove ==
  ASSUME NEW h \in Slot
  PROVE  /\ NextOnGet(h) \in Slot
         /\ NextOnGet(h) # MaxHash
         /\ h + 1 < MaxHash => NextOnGet(h) = h + 1
         /\ h + 1 = MaxHash => NextOnGet(h) = 0
         /\ h = MaxHash => NextOnGet(h) = IF PROMOTED THEN 1 ELSE 0
<1>1. /\ NbSlots \in Nat \ {0} /\ MaxHash \in Nat \ {0} /\ MaxHash = NbSlots - 1
      /\ MaxHash > 1 /\ h \in 0 .. MaxHash
  BY SlotCount DEF MaxHash, Slot
<1>2. Incremented(h) = IF h = MaxHash /\ ~PROMOTED THEN 0 ELSE h + 1
  <2>1. (h + 1) % NbSlots = IF h = MaxHash THEN 0 ELSE h + 1
    BY InsertMove DEF NextOnInsert
  <2> QED BY <2>1 DEF Incremented
<1>3. CASE h + 1 < MaxHash
  <2>1. NextOnGet(h) = h + 1
    BY <1>1, <1>2, <1>3, SmallRemainder DEF NextOnGet
  <2> QED BY <2>1, <1>1, <1>3 DEF Slot
<1>4. CASE h + 1 = MaxHash
  <2>1. NextOnGet(h) = 0
    BY <1>1, <1>2, <1>4, LargeRemainder DEF NextOnGet
  <2> QED BY <2>1, <1>1, <1>4 DEF Slot
<1>5. CASE h = MaxHash /\ PROMOTED
  <2>1. NextOnGet(h) = 1
    BY <1>1, <1>2, <1>5, LargeRemainder DEF NextOnGet
  <2> QED BY <2>1, <1>1, <1>5 DEF Slot
<1>6. CASE h = MaxHash /\ ~PROMOTED
  <2>1. NextOnGet(h) = 0
    BY <1>1, <1>2, <1>6, SmallRemainder DEF NextOnGet
  <2> QED BY <2>1, <1>1, <1>6 DEF Slot
<1> QED BY <1>1, <1>3, <1>4, <1>5, <1>6

\* A slot that is not on the path to s lies behind s: an insertion that stands
\* on it has passed s.
LEMMA PathOrPassed ==
  ASSUME NEW h \in Slot, NEW c \in Slot, NEW s \in Slot, c \notin Path(h, s)
  PROVE  s \in Passed(h, c)
  BY SlotCount DEF Path, Passed, Slot

\* One more collision adds the slot just examined to those passed.
LEMMA PassedGrows ==
  ASSUME NEW h \in Slot, NEW c \in Slot
  PROVE  Passed(h, NextOnInsert(c)) \subseteq Passed(h, c) \cup {c}
  BY SlotCount, InsertMove DEF Path, Passed, Slot

LEMMA PathInSlots ==
  ASSUME NEW h \in Slot, NEW s \in Slot
  PROVE  /\ Path(h, s) \subseteq Slot
         /\ h \in Path(h, s) /\ s \in Path(h, s)
         /\ Passed(h, h) = {}
  BY SlotCount DEF Path, Passed, Slot

\* A lookup that stands on the path to s, and not on s, stays on it, unless s is
\* the slot that lookups from h step over.
LEMMA GetStaysOnPath ==
  ASSUME NEW h \in Slot, NEW s \in Slot, NEW c \in Path(h, s), c # s,
         ~Skipped(h, s), c = MaxHash => h = MaxHash
  PROVE  NextOnGet(c) \in Path(h, s)
<1>1. c \in Slot
  BY PathInSlots
<1> QED BY <1>1, SlotCount, GetMove, HashAssumption DEF Path, Skipped, Slot

-----------------------------------------------------------------------------
(* The invariant *)

\* A bucket in use is not initialised again, so an insertion finds the flags and
\* the table as they are.
LEMMA NoSecondInit ==
  ASSUME TypeOK, BucketsTracked, NEW b \in Bucket
  PROVE  /\ FlagsOnInsert(b) = init_flags
         /\ TableOnInsert(b) \in [Slot -> Pod]
         /\ \A s \in init_flags : TableOnInsert(b)[s] = table[s]
<1>1. ASSUME nb_values[b] = 0, NEW s \in init_flags PROVE BucketOf(s) # b
  BY <1>1 DEF BucketsTracked
<1>2. ZeroPod \in Pod
  BY DEF ZeroPod, Pod
<1>3. init_flags \subseteq Slot /\ table \in [Slot -> Pod]
  BY DEF TypeOK
<1> QED BY <1>1, <1>2, <1>3 DEF FlagsOnInsert, TableOnInsert, SlotsOf

LEMMA CallOfInsert ==
  ASSUME TypeOK, call.op = "insert"
  PROVE  /\ call \in [op : {"insert"}, key : Key, value : Value, hash : Slot]
         /\ call.key \in Key /\ call.value \in Value /\ call.hash \in Slot
         /\ call.key # NULL /\ call # Idle
         /\ hash_of[call.key] \in Slot
BY DataAssumption DEF TypeOK, Call, Idle

LEMMA CallOfGet ==
  ASSUME TypeOK, call.op = "get"
  PROVE  /\ call \in [op : {"get"}, key : Key, value : {NULL}, hash : Slot]
         /\ call.key \in Key /\ call.hash \in Slot
         /\ hash_of[call.key] \in Slot
BY DEF TypeOK, Call, Idle

LEMMA CallOfLoop ==
  ASSUME TypeOK, Looping
  PROVE  call = Loop(call.op) /\ call # Idle
BY DEF TypeOK, Call, Idle, Looping, Loop

LEMMA LoopIsCall ==
  ASSUME NEW op \in {"begin", "next", "iterate"}
  PROVE  Loop(op) \in Call /\ Loop(op).op = op
BY DEF Loop, Call

LEMMA IteratorFields ==
  ASSUME TypeOK
  PROVE  /\ it.bucket_index \in 0 .. NB_BUCKETS
         /\ it.slot_index \in 0 .. BUCKET_SIZE
         /\ it = At(it.bucket_index, it.slot_index)
         /\ [it EXCEPT !.slot_index = @ + 1]
              = At(it.bucket_index, it.slot_index + 1)
         /\ InBuckets => it.bucket_index + 1 \in 0 .. NB_BUCKETS
         /\ ~InBuckets => it.bucket_index = NB_BUCKETS
<1>1. it \in Iterator
  BY DEF TypeOK
<1>2. NB_BUCKETS \in Nat \ {0}
  BY SizeAssumption
<1> QED BY <1>1, <1>2 DEF Iterator, At, InBuckets, Bucket

LEMMA AtIsIterator ==
  ASSUME NEW b, NEW s
  PROVE  /\ At(b, s).bucket_index = b /\ At(b, s).slot_index = s
         /\ b \in 0 .. NB_BUCKETS /\ s \in 0 .. BUCKET_SIZE => At(b, s) \in Iterator
         /\ At(0, 0) \in Iterator
BY SizeAssumption DEF At, Iterator

\* A slot the loops look at is one of the table, in the bucket they are in.
LEMMA SlotLookedAt ==
  ASSUME TypeOK, OnSlot
  PROVE  /\ it.bucket_index \in Bucket /\ it.slot_index \in 0 .. (BUCKET_SIZE - 1)
         /\ Position \in Slot /\ BucketOf(Position) = it.bucket_index
         /\ it.slot_index + 1 \in 0 .. BUCKET_SIZE
<1>1. it.bucket_index \in Bucket /\ it.slot_index < SizeOf(it.bucket_index)
  BY DEF OnSlot, InBuckets
<1>2. BUCKET_SIZE \in Nat /\ it.slot_index \in Nat
  BY SizeAssumption, IteratorFields
<1>3. it.slot_index \in 0 .. (BUCKET_SIZE - 1) /\ it.slot_index + 1 \in 0 .. BUCKET_SIZE
  BY <1>1, <1>2 DEF SizeOf
<1> QED BY <1>1, <1>3, BucketOfPosition DEF Position

LEMMA InitIInv == Init => IInv
<1> SUFFICES ASSUME Init PROVE IInv
  OBVIOUS
<1>1. TypeOK
  <2>1. it \in Iterator
    BY AtIsIterator DEF Init
  <2> QED BY <2>1, HashAssumption DEF Init, TypeOK, Pod, ZeroPod, Call
<1> QED BY <1>1 DEF Init, IInv, NoDuplicateKey, ProbeChain, BucketsTracked,
                    InsertCursor, GetCursor, LoopCursor, Idle

\* The steps of a search change nothing but the cursor and the answer.
LEMMA TypeStep == IInv /\ [Next]_vars => TypeOK'
<1> SUFFICES ASSUME IInv, [Next]_vars PROVE TypeOK'
  OBVIOUS
<1>a. TypeOK /\ BucketsTracked
  BY DEF IInv
<1>1. ASSUME NEW k \in Key, NEW v \in Value, BeginInsert(k, v) PROVE TypeOK'
  BY <1>1, <1>a DEF BeginInsert, TypeOK, tableVars, loopVars, Call
<1>2. CASE InsertAtFreeSlot
  <2>1. call.key \in Key /\ call.value \in Value /\ call.hash \in Slot
    BY <1>2, <1>a, CallOfInsert DEF InsertAtFreeSlot
  <2>2. BucketOf(call.hash) \in Bucket
    BY <2>1, BucketOfSlot
  <2>3. /\ FlagsOnInsert(BucketOf(call.hash)) = init_flags
        /\ TableOnInsert(BucketOf(call.hash)) \in [Slot -> Pod]
    BY <1>a, <2>2, NoSecondInit
  <2>4. [key |-> call.key, value |-> call.value] \in Pod
    BY <2>1 DEF Pod
  <2>5. table' \in [Slot -> Pod]
    BY <1>2, <2>3, <2>4 DEF InsertAtFreeSlot
  <2>6. nb_values' \in [Bucket -> Nat]
    BY <1>2, <1>a, <2>2 DEF InsertAtFreeSlot, TypeOK
  <2>7. init_flags' \in SUBSET Slot /\ size' \in Nat /\ result' \in Value \cup {NULL}
    BY <1>2, <1>a, <2>1, <2>3 DEF InsertAtFreeSlot, TypeOK
  <2>8. call' \in Call /\ hash_of' = hash_of /\ it' = it /\ visited' = visited
    BY <1>2 DEF InsertAtFreeSlot, loopVars, Call
  <2> QED BY <1>a, <2>5, <2>6, <2>7, <2>8 DEF TypeOK
<1>3. CASE InsertFindsKey
  <2>1. call.hash \in Slot
    BY <1>3, <1>a, CallOfInsert DEF InsertFindsKey
  <2>2. table[call.hash].value \in Value \cup {NULL}
    BY <2>1, <1>a DEF TypeOK, Pod
  <2> QED BY <1>3, <1>a, <2>2 DEF InsertFindsKey, TypeOK, tableVars, loopVars, Call
<1>4. CASE InsertCollides
  <2>1. /\ call \in [op : {"insert"}, key : Key, value : Value, hash : Slot]
        /\ call.hash \in Slot
    BY <1>4, <1>a, CallOfInsert DEF InsertCollides
  <2>2. NextOnInsert(call.hash) \in Slot
    BY <2>1, InsertMove
  <2>3. call' \in [op : {"insert"}, key : Key, value : Value, hash : Slot]
    BY <1>4, <2>1, <2>2 DEF InsertCollides
  <2> QED BY <1>4, <1>a, <2>3 DEF InsertCollides, TypeOK, tableVars, loopVars, Call
<1>5. ASSUME NEW k \in Key, BeginGet(k) PROVE TypeOK'
  BY <1>5, <1>a DEF BeginGet, TypeOK, tableVars, loopVars, Call
<1>6. CASE GetMisses
  BY <1>6, <1>a DEF GetMisses, TypeOK, tableVars, loopVars, Call
<1>7. CASE GetFindsKey
  <2>1. call.hash \in Slot
    BY <1>7, <1>a, CallOfGet DEF GetFindsKey
  <2>2. table[call.hash].value \in Value \cup {NULL}
    BY <2>1, <1>a DEF TypeOK, Pod
  <2> QED BY <1>7, <1>a, <2>2 DEF GetFindsKey, TypeOK, tableVars, loopVars, Call
<1>8. CASE GetCollides
  <2>1. /\ call \in [op : {"get"}, key : Key, value : {NULL}, hash : Slot]
        /\ call.hash \in Slot
    BY <1>8, <1>a, CallOfGet DEF GetCollides
  <2>2. NextOnGet(call.hash) \in Slot
    BY <2>1, GetMove
  <2>3. call' \in [op : {"get"}, key : Key, value : {NULL}, hash : Slot]
    BY <1>8, <2>1, <2>2 DEF GetCollides
  <2> QED BY <1>8, <1>a, <2>3 DEF GetCollides, TypeOK, tableVars, loopVars, Call
<1>9. CASE hash_table_begin
  BY <1>9, <1>a, LoopIsCall, AtIsIterator DEF hash_table_begin, TypeOK, tableVars
<1>10. CASE ScanStops \/ ScanEnds
  BY <1>10, <1>a, LoopIsCall DEF ScanStops, ScanEnds, TypeOK, tableVars, loopVars
<1>11. CASE ScanSkipsSlot
  <2>1. it' \in Iterator
    BY <1>11, <1>a, SlotLookedAt, IteratorFields, AtIsIterator DEF ScanSkipsSlot
  <2> QED BY <1>11, <1>a, <2>1 DEF ScanSkipsSlot, TypeOK, tableVars
<1>12. CASE BeginLeavesBucket \/ NextLeavesBucket
  <2>1. it.bucket_index + 1 \in 0 .. NB_BUCKETS /\ it.slot_index \in 0 .. BUCKET_SIZE
    BY <1>12, <1>a, IteratorFields DEF BeginLeavesBucket, NextLeavesBucket
  <2>2. 0 \in 0 .. BUCKET_SIZE
    BY SizeAssumption
  <2>3. it' \in Iterator
    BY <1>12, <2>1, <2>2, AtIsIterator DEF BeginLeavesBucket, NextLeavesBucket
  <2> QED BY <1>12, <1>a, <2>3 DEF BeginLeavesBucket, NextLeavesBucket, TypeOK, tableVars
<1>13. CASE hash_table_next
  <2>1. OnSlot
    BY <1>13 DEF IInv, LoopCursor, hash_table_next
  <2>2. Position \in Slot /\ it' \in Iterator
    BY <1>13, <1>a, <2>1, SlotLookedAt, IteratorFields, AtIsIterator DEF hash_table_next
  <2>3. table[Position].value \in Value \cup {NULL}
    BY <2>2, <1>a DEF TypeOK, Pod
  <2>4. visited' \in Seq(Slot)
    BY <1>13, <1>a, <2>2 DEF hash_table_next, TypeOK
  <2> QED BY <1>13, <1>a, <2>2, <2>3, <2>4, LoopIsCall DEF hash_table_next, TypeOK, tableVars
<1>14. CASE IterationEnds
  BY <1>14, <1>a, AtIsIterator DEF IterationEnds, TypeOK, tableVars, Call
<1>15. CASE UNCHANGED vars
  BY <1>15, <1>a DEF vars, TypeOK
<1> QED
  BY <1>1, <1>2, <1>3, <1>4, <1>5, <1>6, <1>7, <1>8, <1>9, <1>10, <1>11, <1>12,
     <1>13, <1>14, <1>15
     DEF Next, InsertStep, GetStep, IterateStep, ScanStep

\* The slot InsertAtFreeSlot fills, and what it leaves in the table.
LEMMA FreeSlotFilled ==
  ASSUME IInv, InsertAtFreeSlot
  PROVE  /\ call.hash \in Slot /\ call.hash \notin init_flags
         /\ init_flags' = init_flags \cup {call.hash}
         /\ table'[call.hash] = [key |-> call.key, value |-> call.value]
         /\ \A s \in init_flags : table'[s] = table[s]
         /\ nb_values' = [nb_values EXCEPT ![BucketOf(call.hash)] = @ + 1]
         /\ hash_of' = hash_of /\ call' = Idle
<1>1. TypeOK /\ BucketsTracked
  BY DEF IInv
<1>2. call.op = "insert" /\ call.hash \in Slot
  BY <1>1, CallOfInsert DEF InsertAtFreeSlot
<1>3. BucketOf(call.hash) \in Bucket
  BY <1>2, BucketOfSlot
<1>4. init_flags \subseteq Slot
  BY <1>1 DEF TypeOK
<1> QED BY <1>1, <1>2, <1>3, <1>4, NoSecondInit DEF InsertAtFreeSlot

\* An insertion that reaches a free slot has not got its key in the table: the
\* slot with the key would be among those it has passed.
LEMMA FreeSlotMeansNewKey ==
  ASSUME IInv, InsertAtFreeSlot
  PROVE  \A s \in init_flags : table[s].key # call.key
<1> SUFFICES ASSUME NEW s \in init_flags, table[s].key = call.key PROVE FALSE
  OBVIOUS
<1> DEFINE h == hash_of[call.key]  c == call.hash
<1>1. c \in Slot /\ c \notin init_flags
  BY FreeSlotFilled
<1>2. h \in Slot /\ s \in Slot /\ call.op = "insert"
  BY CallOfInsert DEF IInv, TypeOK, InsertAtFreeSlot
<1>3. c \notin Path(h, s)
  BY <1>1 DEF IInv, ProbeChain
<1>4. s \in Passed(h, c)
  BY <1>1, <1>2, <1>3, PathOrPassed
<1> QED BY <1>2, <1>4 DEF IInv, InsertCursor

\* Every step but InsertAtFreeSlot leaves the table alone.
LEMMA TableUnchanged ==
  ASSUME [Next]_vars, ~InsertAtFreeSlot
  PROVE  UNCHANGED <<nb_values, init_flags, table, size, hash_of>>
BY DEF Next, vars, tableVars, InsertStep, GetStep, IterateStep, ScanStep,
       BeginInsert, InsertFindsKey, InsertCollides, BeginGet, GetMisses,
       GetFindsKey, GetCollides, hash_table_begin, ScanStops, ScanSkipsSlot,
       BeginLeavesBucket, NextLeavesBucket, ScanEnds, hash_table_next,
       IterationEnds

LEMMA TableStep ==
  IInv /\ [Next]_vars => NoDuplicateKey' /\ ProbeChain' /\ BucketsTracked'
<1> SUFFICES ASSUME IInv, [Next]_vars
             PROVE  NoDuplicateKey' /\ ProbeChain' /\ BucketsTracked'
  OBVIOUS
<1>1. CASE InsertAtFreeSlot
  <2> DEFINE c == call.hash  k == call.key
  <2>1. /\ c \in Slot /\ c \notin init_flags
        /\ init_flags' = init_flags \cup {c}
        /\ table'[c].key = k
        /\ \A s \in init_flags : table'[s] = table[s]
        /\ nb_values' = [nb_values EXCEPT ![BucketOf(c)] = @ + 1]
        /\ hash_of' = hash_of
    BY <1>1, FreeSlotFilled
  <2>2. call.op = "insert" /\ k \in Key /\ hash_of[k] \in Slot
    BY <1>1, CallOfInsert DEF IInv, InsertAtFreeSlot
  <2>3. NoDuplicateKey'
    BY <1>1, <2>1, FreeSlotMeansNewKey DEF IInv, NoDuplicateKey
  <2>4. ProbeChain'
    <3>1. Path(hash_of[k], c) \subseteq init_flags \cup {c}
      BY <2>2 DEF IInv, InsertCursor, Passed
    <3> QED BY <2>1, <2>2, <3>1 DEF IInv, ProbeChain
  <2>5. BucketsTracked'
    <3>1. BucketOf(c) \in Bucket /\ nb_values \in [Bucket -> Nat]
      BY <2>1, BucketOfSlot DEF IInv, TypeOK
    <3>2. \A s \in init_flags : BucketOf(s) \in Bucket /\ nb_values[BucketOf(s)] # 0
      BY BucketOfSlot DEF IInv, TypeOK, BucketsTracked
    <3>3. \A s \in init_flags \cup {c} : nb_values'[BucketOf(s)] # 0
      <4> HIDE DEF c
      <4> QED BY <2>1, <3>1, <3>2
    <3> QED BY <2>1, <3>3 DEF BucketsTracked
  <2> QED BY <2>3, <2>4, <2>5
<1>2. CASE ~InsertAtFreeSlot
  <2>1. UNCHANGED <<nb_values, init_flags, table, size, hash_of>>
    BY <1>2, TableUnchanged
  <2> QED BY <2>1 DEF IInv, NoDuplicateKey, ProbeChain, BucketsTracked
<1> QED BY <1>1, <1>2

\* The steps of a loop that leave it going.
LoopStep == hash_table_begin \/ ScanStep \/ hash_table_next

LEMMA LoopGoesOn ==
  ASSUME TypeOK, LoopStep
  PROVE  Looping' /\ UNCHANGED <<tableVars, hash_of>>
BY LoopIsCall
   DEF LoopStep, ScanStep, hash_table_begin, ScanStops, ScanSkipsSlot, Looping,
       BeginLeavesBucket, NextLeavesBucket, ScanEnds, hash_table_next, Scanning

LEMMA InsertCursorStep == IInv /\ [Next]_vars => InsertCursor'
<1> SUFFICES ASSUME IInv, [Next]_vars PROVE InsertCursor'
  OBVIOUS
<1>1. CASE \E k \in Key, v \in Value : BeginInsert(k, v)
  <2>1. PICK k \in Key, v \in Value : BeginInsert(k, v)
    BY <1>1
  <2>2. call'.hash = hash_of[k] /\ call'.key = k /\ hash_of' = hash_of
    BY <2>1 DEF BeginInsert
  <2>3. Passed(hash_of[k], hash_of[k]) = {}
    BY PathInSlots DEF IInv, TypeOK
  <2> QED BY <2>2, <2>3 DEF InsertCursor
<1>2. CASE InsertCollides
  <2> DEFINE h == hash_of[call.key]  c == call.hash
  <2>1. /\ h \in Slot /\ c \in Slot /\ call.op = "insert"
        /\ call \in [op : {"insert"}, key : Key, value : Value, hash : Slot]
    BY <1>2, CallOfInsert DEF IInv, InsertCollides
  <2>2. call'.op = "insert" /\ call'.key = call.key /\ call'.hash = NextOnInsert(c)
    BY <1>2, <2>1 DEF InsertCollides
  <2>3. UNCHANGED <<init_flags, table, hash_of>>
    BY <1>2 DEF InsertCollides, tableVars
  <2>4. c \in init_flags /\ table[c].key # call.key
    BY <1>2, <2>1, BucketOfSlot, NoSecondInit DEF InsertCollides, IInv
  <2>5. Passed(h, NextOnInsert(c)) \subseteq Passed(h, c) \cup {c}
    BY <2>1, PassedGrows
  <2>6. \A s \in Passed(h, c) : s \in init_flags /\ table[s].key # call.key
    BY <2>1 DEF IInv, InsertCursor
  <2> QED BY <2>2, <2>3, <2>4, <2>5, <2>6 DEF InsertCursor
<1>3. CASE UNCHANGED vars
  BY <1>3 DEF vars, IInv, InsertCursor
<1>4. ASSUME ~(\E k \in Key, v \in Value : BeginInsert(k, v)), ~InsertCollides,
             ~UNCHANGED vars
      PROVE  call'.op # "insert"
  <2>1. CASE InsertAtFreeSlot \/ InsertFindsKey \/ GetMisses \/ GetFindsKey
               \/ IterationEnds
    BY <2>1 DEF InsertAtFreeSlot, InsertFindsKey, GetMisses, GetFindsKey,
                IterationEnds, Idle
  <2>2. CASE GetCollides
    <3>1. call \in [op : {"get"}, key : Key, value : {NULL}, hash : Slot]
      BY <2>2, CallOfGet DEF IInv, GetCollides
    <3> QED BY <2>2, <3>1 DEF GetCollides
  <2>3. CASE LoopStep
    BY <2>3, LoopGoesOn DEF IInv, Looping
  <2>4. CASE \E k \in Key : BeginGet(k)
    BY <2>4 DEF BeginGet
  <2> QED BY <1>4, <2>1, <2>2, <2>3, <2>4
             DEF Next, InsertStep, GetStep, IterateStep, ScanStep, LoopStep
<1> QED BY <1>1, <1>2, <1>3, <1>4 DEF InsertCursor

LEMMA GetCursorStep == IInv /\ [Next]_vars => GetCursor'
<1> SUFFICES ASSUME IInv, [Next]_vars PROVE GetCursor'
  OBVIOUS
<1>1. CASE \E k \in Key : BeginGet(k)
  <2>1. PICK k \in Key : BeginGet(k)
    BY <1>1
  <2>2. /\ call'.hash = hash_of[k] /\ call'.key = k
        /\ hash_of' = hash_of /\ init_flags' = init_flags
    BY <2>1 DEF BeginGet, tableVars
  <2>3. \A s \in init_flags : hash_of[k] \in Path(hash_of[k], s)
    BY PathInSlots DEF IInv, TypeOK
  <2> QED BY <2>2, <2>3 DEF GetCursor
<1>2. CASE GetCollides
  <2> DEFINE h == hash_of[call.key]  c == call.hash
  <2>1. /\ h \in Slot /\ c \in Slot /\ call.op = "get"
        /\ call \in [op : {"get"}, key : Key, value : {NULL}, hash : Slot]
    BY <1>2, CallOfGet DEF IInv, GetCollides
  <2>2. call'.key = call.key /\ call'.hash = NextOnGet(c)
    BY <1>2, <2>1 DEF GetCollides
  <2>3. UNCHANGED <<init_flags, table, hash_of>>
    BY <1>2 DEF GetCollides, tableVars
  <2>4. table[c].key # call.key
    BY <1>2 DEF GetCollides
  <2>5. NextOnGet(c) # MaxHash
    BY <2>1, GetMove
  <2>6. ASSUME NEW s \in init_flags, table[s].key = call.key, ~Skipped(h, s)
        PROVE  NextOnGet(c) \in Path(h, s)
    <3>1. c \in Path(h, s) /\ c # s /\ s \in Slot /\ (c = MaxHash => h = MaxHash)
      BY <2>1, <2>4, <2>6 DEF IInv, GetCursor, TypeOK
    <3> QED BY <2>1, <2>6, <3>1, GetStaysOnPath
  <2> QED BY <2>2, <2>3, <2>5, <2>6 DEF GetCursor
<1>3. CASE UNCHANGED vars
  BY <1>3 DEF vars, IInv, GetCursor, Skipped, Path
<1>4. ASSUME ~(\E k \in Key : BeginGet(k)), ~GetCollides, ~UNCHANGED vars
      PROVE  call'.op # "get"
  <2>1. CASE InsertAtFreeSlot \/ InsertFindsKey \/ GetMisses \/ GetFindsKey
               \/ IterationEnds
    BY <2>1 DEF InsertAtFreeSlot, InsertFindsKey, GetMisses, GetFindsKey,
                IterationEnds, Idle
  <2>2. CASE InsertCollides
    <3>1. call \in [op : {"insert"}, key : Key, value : Value, hash : Slot]
      BY <2>2, CallOfInsert DEF IInv, InsertCollides
    <3> QED BY <2>2, <3>1 DEF InsertCollides
  <2>3. CASE LoopStep
    BY <2>3, LoopGoesOn DEF IInv, Looping
  <2>4. CASE \E k \in Key, v \in Value : BeginInsert(k, v)
    BY <2>4 DEF BeginInsert
  <2> QED BY <1>4, <2>1, <2>2, <2>3, <2>4
             DEF Next, InsertStep, GetStep, IterateStep, ScanStep, LoopStep
<1> QED BY <1>1, <1>2, <1>3, <1>4 DEF GetCursor

LEMMA LoopCursorStep == IInv /\ [Next]_vars => LoopCursor'
<1> SUFFICES ASSUME IInv, [Next]_vars, call'.op = "iterate", InBuckets'
             PROVE  OnSlot' /\ Position' \in init_flags'
  BY DEF LoopCursor
<1>1. CASE ScanStops
  BY <1>1 DEF ScanStops, OnSlot, InBuckets, SizeOf, Position, tableVars, loopVars
<1>2. CASE ScanEnds
  BY <1>2 DEF ScanEnds, InBuckets, loopVars
<1>3. CASE UNCHANGED vars
  BY <1>3 DEF IInv, LoopCursor, vars, OnSlot, InBuckets, SizeOf, Position
<1>4. ASSUME ~ScanStops, ~ScanEnds, ~UNCHANGED vars PROVE call'.op # "iterate"
  <2>1. CASE hash_table_begin \/ hash_table_next
    BY <2>1, LoopIsCall DEF hash_table_begin, hash_table_next
  <2>2. CASE ScanSkipsSlot \/ BeginLeavesBucket \/ NextLeavesBucket
    BY <2>2 DEF ScanSkipsSlot, BeginLeavesBucket, NextLeavesBucket, Scanning
  <2>3. CASE InsertAtFreeSlot \/ InsertFindsKey \/ GetMisses \/ GetFindsKey
               \/ IterationEnds
    BY <2>3 DEF InsertAtFreeSlot, InsertFindsKey, GetMisses, GetFindsKey,
                IterationEnds, Idle
  <2>4. CASE InsertCollides
    <3>1. call \in [op : {"insert"}, key : Key, value : Value, hash : Slot]
      BY <2>4, CallOfInsert DEF IInv, InsertCollides
    <3> QED BY <2>4, <3>1 DEF InsertCollides
  <2>5. CASE GetCollides
    <3>1. call \in [op : {"get"}, key : Key, value : {NULL}, hash : Slot]
      BY <2>5, CallOfGet DEF IInv, GetCollides
    <3> QED BY <2>5, <3>1 DEF GetCollides
  <2>6. CASE \/ \E k \in Key, v \in Value : BeginInsert(k, v)
             \/ \E k \in Key : BeginGet(k)
    BY <2>6 DEF BeginInsert, BeginGet
  <2> QED BY <1>4, <2>1, <2>2, <2>3, <2>4, <2>5, <2>6
             DEF Next, InsertStep, GetStep, IterateStep, ScanStep
<1> QED BY <1>1, <1>2, <1>3, <1>4

\* IInv is inductive.
THEOREM Invariance == Spec => []IInv
<1>1. Init => IInv
  BY InitIInv
<1>2. IInv /\ [Next]_vars => IInv'
  BY TypeStep, TableStep, InsertCursorStep, GetCursorStep, LoopCursorStep DEF IInv
<1> QED BY <1>1, <1>2, PTL DEF Spec

-----------------------------------------------------------------------------
(* What the invariant gives *)

\* Every variable keeps its C++ type: no search leaves the range of the hash.
THEOREM TypeCorrect == Spec => []TypeOK
<1>1. IInv => TypeOK
  BY DEF IInv
<1> QED BY <1>1, Invariance, PTL

\* A key never takes two slots.
THEOREM KeysUnique == Spec => []NoDuplicateKey
<1>1. IInv => NoDuplicateKey
  BY DEF IInv
<1> QED BY <1>1, Invariance, PTL

\* No hole appears between the hash of a key and its slot.
THEOREM ChainsUnbroken == Spec => []ProbeChain
<1>1. IInv => ProbeChain
  BY DEF IInv
<1> QED BY <1>1, Invariance, PTL

\* A value handed out by insert or get is never moved or overwritten, because
\* no bucket is initialised twice.
THEOREM PointersStayValid == Spec => ReturnedPointersStayValid
<1>1. ASSUME IInv, [Next]_vars
      PROVE  [\A s \in init_flags : s \in init_flags' /\ table'[s] = table[s]]_vars
  <2>1. CASE InsertAtFreeSlot
    BY <1>1, <2>1, FreeSlotFilled
  <2>2. CASE ~InsertAtFreeSlot
    BY <1>1, <2>2, TableUnchanged
  <2> QED BY <2>1, <2>2
<1> QED BY <1>1, Invariance, PTL DEF Spec, ReturnedPointersStayValid

-----------------------------------------------------------------------------
(* The counters *)

LEMMA FlagsFinite ==
  ASSUME TypeOK
  PROVE  /\ IsFiniteSet(init_flags)
         /\ \A b \in Bucket : IsFiniteSet(init_flags \cap SlotsOf(b))
<1>1. IsFiniteSet(Slot)
  BY SlotCount, FS_Interval DEF Slot
<1>2. IsFiniteSet(init_flags)
  BY <1>1, FS_Subset DEF TypeOK
<1> QED BY <1>2, FS_Intersection

LEMMA CountersStep == IInv /\ CountersAgree /\ [Next]_vars => CountersAgree'
<1> SUFFICES ASSUME IInv, CountersAgree, [Next]_vars PROVE CountersAgree'
  OBVIOUS
<1>1. CASE InsertAtFreeSlot
  <2> DEFINE c == call.hash  inBucket(b) == init_flags \cap SlotsOf(b)
  <2>1. /\ c \in Slot /\ c \notin init_flags
        /\ init_flags' = init_flags \cup {c}
        /\ nb_values' = [nb_values EXCEPT ![BucketOf(c)] = @ + 1]
        /\ size' = size + 1
    BY <1>1, FreeSlotFilled DEF InsertAtFreeSlot
  <2>2. TypeOK
    BY DEF IInv
  <2>3. size' = Cardinality(init_flags')
    BY <2>1, <2>2, FlagsFinite, FS_AddElement DEF CountersAgree
  <2>4. ASSUME NEW b \in Bucket
        PROVE  nb_values'[b] = Cardinality(init_flags' \cap SlotsOf(b))
    <3>1. nb_values[b] = Cardinality(inBucket(b)) /\ IsFiniteSet(inBucket(b))
      BY <2>2, FlagsFinite DEF CountersAgree
    <3>2. nb_values \in [Bucket -> Nat]
      BY <2>2 DEF TypeOK
    <3>3. CASE b = BucketOf(c)
      <4>1. init_flags' \cap SlotsOf(b) = inBucket(b) \cup {c}
        BY <2>1, <3>3 DEF SlotsOf
      <4>2. nb_values'[b] = nb_values[b] + 1
        BY <2>1, <3>2, <3>3
      <4>3. c \notin inBucket(b)
        BY <2>1
      <4> HIDE DEF inBucket, c
      <4> QED BY <3>1, <4>1, <4>2, <4>3, FS_AddElement
    <3>4. CASE b # BucketOf(c)
      <4>1. init_flags' \cap SlotsOf(b) = inBucket(b)
        BY <2>1, <3>4 DEF SlotsOf
      <4>2. nb_values'[b] = nb_values[b]
        BY <2>1, <3>2, <3>4
      <4> QED BY <3>1, <4>1, <4>2
    <3> QED BY <3>3, <3>4
  <2>5. \A b \in Bucket : nb_values'[b] = Cardinality(init_flags' \cap SlotsOf(b))
    BY <2>4
  <2> QED BY <2>3, <2>5 DEF CountersAgree, SlotsOf, BucketOf
<1>2. CASE ~InsertAtFreeSlot
  BY <1>2, TableUnchanged DEF CountersAgree
<1> QED BY <1>1, <1>2

LEMMA CountersInit == Init => CountersAgree
<1> SUFFICES ASSUME Init PROVE CountersAgree
  OBVIOUS
<1>1. \A b \in Bucket : init_flags \cap SlotsOf(b) = {}
  BY DEF Init
<1> QED BY <1>1, FS_EmptySet DEF Init, CountersAgree

\* size and nb_values count the values: nb_values = 0 means a bucket without.
THEOREM CountersCorrect == Spec => []CountersAgree
<1>1. IInv /\ CountersAgree /\ [Next]_vars => CountersAgree'
  BY CountersStep
<1> QED BY CountersInit, <1>1, Invariance, PTL DEF Spec

-----------------------------------------------------------------------------
(* Iteration *)

\* Where the scan of begin is: it has found nothing yet, and in a bucket without
\* slots it has not moved.  hash_table_end is the only place past the buckets.
LoopInv ==
  /\ IterationExact
  /\ call.op = "begin" =>
       /\ visited = <<>>
       /\ InBuckets => it.slot_index = 0 \/ nb_values[it.bucket_index] # 0
  /\ Looping /\ ~InBuckets => it.slot_index = 0

LEMMA OccupiedMeansFlagged ==
  ASSUME IInv, NEW s PROVE Occupied(s) <=> s \in init_flags
BY DEF IInv, BucketsTracked, Occupied

\* The values behind a position, slot by slot.
Behind(p) == {s \in init_flags : s < p}

LEMMA BehindSlot ==
  ASSUME IInv, NEW p \in Slot
  PROVE  Behind(p + 1) = IF p \in init_flags THEN Behind(p) \cup {p} ELSE Behind(p)
<1>1. init_flags \subseteq Slot /\ p \in Nat
  BY SlotCount DEF IInv, TypeOK, Slot
<1>2. \A s \in Slot : s < p + 1 <=> s < p \/ s = p
  BY <1>1, SlotCount DEF Slot
<1> QED BY <1>1, <1>2 DEF Behind

\* Nothing is left behind when a bucket is: it has no value, or every slot of it
\* has been looked at.
LEMMA BehindBucket ==
  ASSUME IInv, InBuckets, ~OnSlot
  PROVE  Behind(Position) = Behind((it.bucket_index + 1) * BUCKET_SIZE)
<1> DEFINE b == it.bucket_index  n == BUCKET_SIZE
<1>1. /\ b \in Bucket /\ b \in Nat /\ it.slot_index \in 0 .. n /\ n \in Nat
      /\ init_flags \subseteq Slot
  BY IteratorFields, SizeAssumption DEF IInv, TypeOK, InBuckets, Bucket
<1>2. b * n \in Nat /\ (b + 1) * n = b * n + n
  BY <1>1, SMT
<1>3. CASE nb_values[b] # 0
  <2>1. it.slot_index = n
    BY <1>1, <1>3 DEF OnSlot, SizeOf
  <2> QED BY <1>2, <2>1 DEF Position
<1>4. CASE nb_values[b] = 0
  <2>1. ASSUME NEW s \in init_flags
        PROVE  s < b * n + n => s < b * n
    <3> DEFINE c == BucketOf(s)
    <3>1. s \in Slot /\ c # b
      BY <1>1, <1>4, <2>1 DEF IInv, BucketsTracked
    <3>2. c \in Nat /\ c * n <= s /\ s < c * n + n /\ s \in Nat
      BY <3>1, SlotBounds, BucketOfSlot, SlotCount DEF Bucket, Slot
    <3>3. c < b => c * n + n <= b * n
      BY <1>1, <3>2, BucketsApart
    <3>4. b < c => b * n + n <= c * n
      BY <1>1, <3>2, BucketsApart
    <3>5. c * n \in Nat
      BY <1>1, <3>2, SMT
    <3> HIDE DEF c, b, n
    <3> QED BY <1>1, <1>2, <3>1, <3>2, <3>3, <3>4, <3>5
  <2>2. \A s \in init_flags : s \in Nat
    BY <1>1, SlotCount DEF Slot
  <2>3. Position = b * n + it.slot_index
    BY DEF Position
  <2>4. \A s \in init_flags : s < Position <=> s < (b + 1) * n
    <3> HIDE DEF b, n
    <3> QED BY <1>1, <1>2, <2>1, <2>2, <2>3
  <2> QED BY <2>4 DEF Behind
<1> QED BY <1>3, <1>4

\* begin leaves no bucket that has a value: it would have stopped there.
LEMMA BeginLeavesEmpty ==
  ASSUME IInv, CountersAgree, LoopInv, BeginLeavesBucket
  PROVE  it.slot_index = 0
<1> SUFFICES ASSUME nb_values[it.bucket_index] # 0 PROVE FALSE
  BY DEF LoopInv, BeginLeavesBucket
<1> DEFINE b == it.bucket_index
<1>1. /\ b \in Bucket /\ InBuckets /\ ~OnSlot /\ visited = <<>> /\ Looping
  BY DEF BeginLeavesBucket, InBuckets, LoopInv, Looping
<1>2. PICK s \in init_flags : BucketOf(s) = b
  <2>1. init_flags \cap SlotsOf(b) # {}
    BY <1>1, FS_EmptySet DEF CountersAgree
  <2> QED BY <2>1 DEF SlotsOf
<1>3. s \in Slot /\ b * BUCKET_SIZE \in Int /\ b \in Nat /\ BUCKET_SIZE \in Nat
  BY <1>1, SizeAssumption, SMT DEF IInv, TypeOK, Bucket
<1>4. s < b * BUCKET_SIZE + BUCKET_SIZE
  BY <1>2, <1>3, SlotBounds
<1>5. (b + 1) * BUCKET_SIZE = b * BUCKET_SIZE + BUCKET_SIZE
  BY <1>3, SMT
<1>6. s \in Behind(Position)
  BY <1>1, <1>4, <1>5, BehindBucket DEF Behind
<1> QED BY <1>1, <1>6 DEF LoopInv, IterationExact, Behind

Met == {visited[i] : i \in DOMAIN visited}
Increasing == \A i, j \in DOMAIN visited : i < j => visited[i] < visited[j]

\* The loop's next value: behind it is what was visited, and this one.
LEMMA NextVisits ==
  ASSUME IInv, IterationExact, hash_table_next
  PROVE  /\ Position \in init_flags /\ OnSlot
         /\ Met = Behind(Position)
         /\ Met' = Behind(Position + 1) /\ Met' = Met \cup {Position}
         /\ Increasing'
<1> DEFINE c == Position
<1>1. call.op = "iterate" /\ InBuckets /\ visited' = Append(visited, c) /\ Looping
  BY DEF hash_table_next, Looping
<1>2. OnSlot /\ c \in init_flags
  BY <1>1 DEF IInv, LoopCursor
<1>3. c \in Slot /\ visited \in Seq(Slot)
  BY <1>2, SlotLookedAt DEF IInv, TypeOK
<1>4. Increasing /\ Met = Behind(c)
  BY <1>1 DEF IterationExact, Increasing, Met, Behind
<1>5. /\ DOMAIN visited = 1 .. Len(visited) /\ Len(visited) \in Nat
      /\ DOMAIN visited' = 1 .. Len(visited) + 1
      /\ visited'[Len(visited) + 1] = c
      /\ \A i \in DOMAIN visited : visited'[i] = visited[i]
  <2> HIDE DEF c
  <2> QED BY <1>1, <1>3, LenProperties
<1>6. \A i \in DOMAIN visited : visited[i] < c
  BY <1>4 DEF Met, Behind
<1>7. Increasing'
  <2> HIDE DEF c
  <2> QED BY <1>4, <1>5, <1>6 DEF Increasing
<1>8. Met' = Met \cup {c}
  <2> HIDE DEF c
  <2> QED BY <1>5 DEF Met
<1>9. Behind(c + 1) = Behind(c) \cup {c}
  BY <1>2, <1>3, BehindSlot
<1> QED BY <1>2, <1>4, <1>7, <1>8, <1>9

LEMMA LoopInvStep ==
  IInv /\ CountersAgree /\ LoopInv /\ [Next]_vars => LoopInv'
<1> SUFFICES ASSUME IInv, CountersAgree, LoopInv, [Next]_vars PROVE LoopInv'
  OBVIOUS
<1>0. TypeOK /\ BUCKET_SIZE \in Nat /\ NB_BUCKETS \in Nat \ {0}
  BY SizeAssumption DEF IInv
<1>a. SUFFICES ASSUME Looping' PROVE LoopInv'
  BY DEF LoopInv, IterationExact, Looping
<1>b. Looping => Increasing /\ Met = Behind(Position)
  BY DEF LoopInv, IterationExact, Increasing, Met, Behind
<1>c. ASSUME Increasing', Met' = {s \in init_flags' : s < Position'},
             call'.op = "iterate" =>
               it' = hash_table_end \/ (OnSlot' /\ Position' \in init_flags'),
             call'.op = "begin" =>
               /\ visited' = <<>>
               /\ InBuckets' => it'.slot_index = 0 \/ nb_values'[it'.bucket_index] # 0,
             ~InBuckets' => it'.slot_index = 0
      PROVE  LoopInv'
  BY <1>c DEF LoopInv, IterationExact, Increasing, Met
<1>1. CASE hash_table_begin
  <2>1. /\ call'.op = "begin" /\ it' = At(0, 0) /\ visited' = <<>>
        /\ UNCHANGED <<init_flags, nb_values>>
    BY <1>1, LoopIsCall DEF hash_table_begin, tableVars
  <2>2. Position' = 0
    BY <1>0, <2>1, SMT DEF Position, At
  <2>3. {s \in init_flags : s < 0} = {}
    <3>1. \A s \in init_flags : s \in Slot
      BY <1>0 DEF TypeOK
    <3>2. \A s \in Slot : ~(s < 0)
      BY SlotCount DEF Slot
    <3> QED BY <3>1, <3>2
  <2>4. it'.slot_index = 0
    BY <2>1, AtIsIterator
  <2>5. Increasing' /\ Met' = {}
    BY <2>1 DEF Increasing, Met
  <2> QED BY <1>c, <2>1, <2>2, <2>3, <2>4, <2>5
<1>2. CASE ScanStops
  <2>1. /\ call'.op = "iterate" /\ UNCHANGED <<it, visited, init_flags, nb_values>>
        /\ OnSlot /\ Position \in init_flags /\ Looping
    BY <1>2, LoopIsCall DEF ScanStops, tableVars, loopVars, Scanning, Looping
  <2>2. OnSlot' /\ Position' = Position /\ InBuckets'
    BY <2>1 DEF OnSlot, InBuckets, SizeOf, Position
  <2>3. Increasing' /\ Met' = Behind(Position)
    BY <1>b, <2>1 DEF Increasing, Met
  <2> QED BY <1>c, <2>1, <2>2, <2>3 DEF Behind
<1>3. CASE ScanSkipsSlot
  <2>1. /\ UNCHANGED <<call, visited, init_flags, nb_values>>
        /\ it' = At(it.bucket_index, it.slot_index + 1)
        /\ OnSlot /\ Position \notin init_flags /\ Looping
        /\ call.op \in {"begin", "next"}
    BY <1>0, <1>3, IteratorFields DEF ScanSkipsSlot, tableVars, Scanning, Looping
  <2>2. it'.bucket_index = it.bucket_index /\ it'.slot_index = it.slot_index + 1
    BY <2>1, AtIsIterator
  <2>3. Position' = Position + 1
    <3>1. /\ it.bucket_index * BUCKET_SIZE \in Int /\ it.slot_index \in Int
      BY <1>0, IteratorFields, SMT
    <3> QED BY <2>2, <3>1 DEF Position
  <2>4. Behind(Position + 1) = Behind(Position)
    BY <1>0, <2>1, SlotLookedAt, BehindSlot
  <2>5. Increasing' /\ Met' = Behind(Position)
    BY <1>b, <2>1 DEF Increasing, Met
  <2>6. InBuckets /\ InBuckets' /\ nb_values[it.bucket_index] # 0
    <3>1. InBuckets /\ it.slot_index \in Nat /\ it.slot_index < SizeOf(it.bucket_index)
      BY <1>0, <2>1, IteratorFields DEF OnSlot
    <3> QED BY <2>2, <3>1 DEF InBuckets, SizeOf
  <2> QED BY <1>c, <2>1, <2>2, <2>3, <2>4, <2>5, <2>6 DEF LoopInv, Behind
<1>4. CASE BeginLeavesBucket \/ NextLeavesBucket
  <2>1. /\ UNCHANGED <<call, visited, init_flags, nb_values>>
        /\ InBuckets /\ ~OnSlot /\ Looping /\ call.op \in {"begin", "next"}
    BY <1>4 DEF BeginLeavesBucket, NextLeavesBucket, tableVars, Looping
  <2>2. it' = At(it.bucket_index + 1, 0)
    BY <1>4, BeginLeavesEmpty DEF BeginLeavesBucket, NextLeavesBucket
  <2>3. it'.bucket_index = it.bucket_index + 1 /\ it'.slot_index = 0
    BY <2>2, AtIsIterator
  <2>4. Position' = (it.bucket_index + 1) * BUCKET_SIZE
    <3>1. (it.bucket_index + 1) * BUCKET_SIZE \in Int
      BY <1>0, IteratorFields, SMT
    <3> QED BY <2>3, <3>1 DEF Position
  <2>5. Increasing' /\ Met' = Behind(Position)
    BY <1>b, <2>1 DEF Increasing, Met
  <2>6. Behind(Position) = Behind((it.bucket_index + 1) * BUCKET_SIZE)
    BY <2>1, BehindBucket
  <2> QED BY <1>c, <2>1, <2>3, <2>4, <2>5, <2>6 DEF LoopInv, Behind
<1>5. CASE ScanEnds
  <2>1. /\ call'.op = "iterate" /\ UNCHANGED <<it, visited, init_flags, nb_values>>
        /\ ~InBuckets /\ Looping
    BY <1>5, LoopIsCall DEF ScanEnds, tableVars, loopVars, Scanning, Looping
  <2>2. it = hash_table_end
    BY <1>0, <2>1, IteratorFields DEF LoopInv, hash_table_end
  <2>3. Position' = Position /\ ~InBuckets' /\ it.slot_index = 0
    BY <2>1 DEF Position, InBuckets, LoopInv
  <2>4. Increasing' /\ Met' = Behind(Position)
    BY <1>b, <2>1 DEF Increasing, Met
  <2>5. it' = hash_table_end
    BY <2>1, <2>2
  <2> QED BY <1>c, <2>1, <2>3, <2>4, <2>5 DEF Behind
<1>6. CASE hash_table_next
  <2>1. /\ call'.op = "next" /\ it' = At(it.bucket_index, it.slot_index + 1)
        /\ UNCHANGED <<init_flags, nb_values>>
    BY <1>0, <1>6, LoopIsCall, IteratorFields DEF hash_table_next, tableVars
  <2>2. /\ Met' = Behind(Position + 1) /\ Increasing' /\ OnSlot
    BY <1>6, NextVisits DEF LoopInv
  <2>3. it'.bucket_index = it.bucket_index /\ it'.slot_index = it.slot_index + 1
    BY <2>1, AtIsIterator
  <2>4. Position' = Position + 1
    <3>1. /\ it.bucket_index * BUCKET_SIZE \in Int /\ it.slot_index \in Int
      BY <1>0, IteratorFields, SMT
    <3> QED BY <2>3, <3>1 DEF Position
  <2>5. InBuckets'
    BY <2>2, <2>3 DEF OnSlot, InBuckets
  <2> QED BY <1>c, <2>1, <2>2, <2>4, <2>5 DEF Behind
<1>7. CASE UNCHANGED vars
  BY <1>7, <1>a DEF vars, LoopInv, IterationExact, Looping, InBuckets, OnSlot,
                    SizeOf, Position
<1>8. ASSUME ~hash_table_begin, ~ScanStep, ~hash_table_next, ~UNCHANGED vars
      PROVE  ~Looping'
  <2>1. CASE InsertAtFreeSlot \/ InsertFindsKey \/ GetMisses \/ GetFindsKey
               \/ IterationEnds
    BY <2>1 DEF InsertAtFreeSlot, InsertFindsKey, GetMisses, GetFindsKey,
                IterationEnds, Idle, Looping
  <2>2. CASE InsertCollides
    <3>1. call \in [op : {"insert"}, key : Key, value : Value, hash : Slot]
      BY <1>0, <2>2, CallOfInsert DEF InsertCollides
    <3> QED BY <2>2, <3>1 DEF InsertCollides, Looping
  <2>3. CASE GetCollides
    <3>1. call \in [op : {"get"}, key : Key, value : {NULL}, hash : Slot]
      BY <1>0, <2>3, CallOfGet DEF GetCollides
    <3> QED BY <2>3, <3>1 DEF GetCollides, Looping
  <2>4. CASE \/ \E k \in Key, v \in Value : BeginInsert(k, v)
             \/ \E k \in Key : BeginGet(k)
    BY <2>4 DEF BeginInsert, BeginGet, Looping
  <2> QED BY <1>8, <2>1, <2>2, <2>3, <2>4 DEF Next, InsertStep, GetStep, IterateStep
<1> QED BY <1>a, <1>1, <1>2, <1>3, <1>4, <1>5, <1>6, <1>7, <1>8 DEF ScanStep

LEMMA LoopInvHolds == Spec => [](CountersAgree /\ LoopInv)
<1>1. Init => CountersAgree /\ LoopInv
  BY CountersInit DEF Init, Idle, LoopInv, IterationExact, Looping
<1>2. IInv /\ CountersAgree /\ LoopInv /\ [Next]_vars
        => CountersAgree' /\ LoopInv'
  BY CountersStep, LoopInvStep
<1> QED BY <1>1, <1>2, Invariance, PTL DEF Spec

\* A loop over the table meets every value once, in the order of the slots, and
\* ends at hash_table_end, whatever the buckets in use.
THEOREM IterationCorrect == Spec => []IterationExact
<1>1. LoopInv => IterationExact
  BY DEF LoopInv
<1> QED BY <1>1, LoopInvHolds, PTL

-----------------------------------------------------------------------------
(* Refinement *)

ValuesStored == \A s \in init_flags : table[s].value \in Value

LEMMA ValuesStep == IInv /\ ValuesStored /\ [Next]_vars => ValuesStored'
<1> SUFFICES ASSUME IInv, ValuesStored, [Next]_vars PROVE ValuesStored'
  OBVIOUS
<1>1. CASE InsertAtFreeSlot
  <2>1. call.value \in Value
    BY <1>1, CallOfInsert DEF IInv, InsertAtFreeSlot
  <2> QED BY <1>1, <2>1, FreeSlotFilled DEF ValuesStored
<1>2. CASE ~InsertAtFreeSlot
  BY <1>2, TableUnchanged DEF ValuesStored
<1> QED BY <1>1, <1>2

\* The slot of a key is the one it is in, whatever CHOOSE picks.
LEMMA SlotUnique ==
  ASSUME NEW flags, NEW tab, NEW s \in flags,
         \A t, u \in flags : tab[t].key = tab[u].key => t = u
  PROVE  (CHOOSE t \in flags : tab[t].key = tab[s].key) = s
OBVIOUS

LEMMA MapOfStored ==
  ASSUME IInv, NEW s \in init_flags
  PROVE  /\ table[s].key \in Key /\ Stored(table[s].key)
         /\ SlotOfKey(table[s].key) = s
         /\ AbstractMap[table[s].key] = table[s].value
<1>1. table[s].key \in Key /\ Stored(table[s].key)
  BY DEF IInv, ProbeChain, Stored
<1>2. SlotOfKey(table[s].key) = s
  BY SlotUnique DEF IInv, NoDuplicateKey, SlotOfKey
<1> QED BY <1>1, <1>2 DEF AbstractMap

\* A key that was not in the map is bound by InsertAtFreeSlot, and no other.
LEMMA InsertBinds ==
  ASSUME IInv, ValuesStored, InsertAtFreeSlot
  PROVE  /\ AbstractMap[call.key] = NULL
         /\ AbstractMap' = [AbstractMap EXCEPT ![call.key] = call.value]
         /\ Visible' \in {Visible, Visible \ {call.key}}
         /\ result' = call.value
<1> SUFFICES ASSUME NEW k, k = call.key, NEW c, c = call.hash
             PROVE  /\ AbstractMap[k] = NULL
                    /\ AbstractMap' = [AbstractMap EXCEPT ![k] = call.value]
                    /\ Visible' \in {Visible, Visible \ {k}}
                    /\ result' = call.value
  OBVIOUS
<1>1. /\ call.op = "insert" /\ k \in Key /\ call.value \in Value
      /\ hash_of[k] \in Slot
  BY CallOfInsert DEF IInv, InsertAtFreeSlot
<1>2. /\ c \in Slot /\ c \notin init_flags
      /\ init_flags' = init_flags \cup {c}
      /\ table'[c] = [key |-> k, value |-> call.value]
      /\ \A s \in init_flags : table'[s] = table[s]
      /\ hash_of' = hash_of
  BY FreeSlotFilled
<1>3. ~Stored(k)
  BY FreeSlotMeansNewKey DEF Stored
<1>4. \A t, u \in init_flags' : table'[t].key = table'[u].key => t = u
  BY <1>2, FreeSlotMeansNewKey DEF IInv, NoDuplicateKey
<1>5. Stored(k)' /\ SlotOfKey(k)' = c
  <2>1. (CHOOSE t \in init_flags' : table'[t].key = table'[c].key) = c
    BY <1>2, <1>4, SlotUnique
  <2>2. c \in init_flags' /\ table'[c].key = k
    BY <1>2
  <2> QED BY <2>1, <2>2 DEF Stored, SlotOfKey
<1>6. ASSUME NEW j \in Key, j # k, Stored(j)
      PROVE  /\ Stored(j)' /\ SlotOfKey(j)' = SlotOfKey(j)
             /\ table'[SlotOfKey(j)] = table[SlotOfKey(j)]
  <2>1. PICK s \in init_flags : table[s].key = j
    BY <1>6 DEF Stored
  <2>2. SlotOfKey(j) = s
    BY <2>1, MapOfStored
  <2>3. s \in init_flags' /\ table'[s] = table[s]
    BY <1>2
  <2>4. (CHOOSE t \in init_flags' : table'[t].key = table'[s].key) = s
    BY <2>3, <1>4, SlotUnique
  <2> QED BY <2>1, <2>2, <2>3, <2>4 DEF Stored, SlotOfKey
<1>7. ASSUME NEW j \in Key, j # k, ~Stored(j)
      PROVE  ~Stored(j)'
  BY <1>2, <1>7 DEF Stored
<1>8. AbstractMap' = [AbstractMap EXCEPT ![k] = call.value]
  <2>1. AbstractMap'[k] = call.value
    BY <1>1, <1>2, <1>5 DEF AbstractMap
  <2>2. ASSUME NEW j \in Key, j # k PROVE AbstractMap'[j] = AbstractMap[j]
    BY <2>2, <1>6, <1>7 DEF AbstractMap
  <2> QED BY <2>1, <2>2 DEF AbstractMap
<1>9. Visible' \in {Visible, Visible \ {k}}
  <2>1. ASSUME NEW j \in Key, j # k PROVE j \in Visible' <=> j \in Visible
    BY <2>1, <1>2, <1>6, <1>7 DEF Visible, Skipped
  <2>2. k \in Visible
    BY <1>1, <1>3 DEF Visible
  <2>3. Visible \subseteq Key /\ Visible' \subseteq Key
    BY DEF Visible
  <2> QED BY <2>1, <2>2, <2>3
<1>10. AbstractMap[k] = NULL
  BY <1>1, <1>3 DEF AbstractMap
<1>11. result' = call.value
  BY DEF InsertAtFreeSlot
<1> QED BY <1>8, <1>9, <1>10, <1>11

\* A lookup that ends without an answer was for a key that is not stored, or
\* not visible: it stands on the path of a visible one, which has no hole.
LEMMA MissIsLookup ==
  ASSUME IInv, GetMisses
  PROVE  Stored(call.key) => call.key \notin Visible
<1> SUFFICES ASSUME Stored(call.key), call.key \in Visible PROVE FALSE
  OBVIOUS
<1>1. PICK s \in init_flags : table[s].key = call.key
  BY DEF Stored
<1>2. ~Skipped(hash_of[call.key], s)
  BY <1>1, MapOfStored DEF Visible
<1>3. call.hash \in Path(hash_of[call.key], s)
  BY <1>1, <1>2 DEF IInv, GetCursor, GetMisses
<1>4. call.hash \in init_flags
  BY <1>1, <1>3 DEF IInv, ProbeChain
<1> QED BY <1>4, OccupiedMeansFlagged DEF GetMisses

\* A step that leaves the table alone leaves the map alone.
LEMMA SameMap ==
  ASSUME UNCHANGED <<init_flags, table, hash_of>>
  PROVE  /\ AbstractMap' = AbstractMap /\ Visible' = Visible
         /\ \A k : Stored(k)' <=> Stored(k)
         /\ \A k : SlotOfKey(k)' = SlotOfKey(k)
BY DEF AbstractMap, Visible, Stored, SlotOfKey, Skipped

LEMMA KeyInSlot ==
  ASSUME NEW k, Stored(k)
  PROVE  SlotOfKey(k) \in init_flags /\ table[SlotOfKey(k)].key = k
BY DEF Stored, SlotOfKey

LEMMA StoredIsBound ==
  ASSUME IInv, ValuesStored, NEW k \in Key
  PROVE  Stored(k) <=> AbstractMap[k] # NULL
<1>1. Stored(k) => table[SlotOfKey(k)].value # NULL
  BY KeyInSlot, DataAssumption DEF ValuesStored
<1> QED BY <1>1 DEF AbstractMap

\* The keys of the slots the loop has not looked at.
Left == {k \in Key : Stored(k) /\ SlotOfKey(k) \notin Met}

LoopRequest == [op |-> "iterate", key |-> NULL, value |-> NULL, left |-> Left]

LEMMA RequestOfLoop ==
  /\ Looping => Request = LoopRequest
  /\ Looping' => Request' = LoopRequest'
BY DEF Request, LoopRequest, Left, Met

LEMMA RequestOfCall ==
  ~Looping =>
    Request = [op |-> call.op, key |-> call.key, value |-> call.value, left |-> {}]
BY DEF Request

LEMMA RequestOfIdle ==
  /\ call = Idle => ~Looping /\ Request = Map!Nothing
  /\ call' = Idle => ~Looping' /\ Request' = Map!Nothing
<1>1. Idle.op = "idle" /\ Idle.key = NULL /\ Idle.value = NULL
  BY DEF Idle
<1>2. call = Idle => ~Looping
  BY <1>1 DEF Looping
<1>3. call' = Idle => ~Looping'
  BY <1>1 DEF Looping
<1>4. call = Idle => Request = Map!Nothing
  BY <1>1, <1>2 DEF Request, Map!Nothing
<1>5. call' = Idle => Request' = Map!Nothing
  BY <1>1, <1>3 DEF Request, Map!Nothing
<1> QED BY <1>2, <1>3, <1>4, <1>5

LEMMA InsertStepRefines ==
  ASSUME IInv, ValuesStored, InsertStep
  PROVE  Map!Bind \/ Map!Rebind \/ UNCHANGED Map!vars
<1>1. call.op = "insert" /\ TypeOK
  BY DEF InsertStep, InsertAtFreeSlot, InsertFindsKey, InsertCollides, IInv
<1>2. /\ call \in [op : {"insert"}, key : Key, value : Value, hash : Slot]
      /\ call.key \in Key /\ call.hash \in Slot /\ ~Looping
  BY <1>1, CallOfInsert DEF Looping
<1>3. /\ Request.op = "insert" /\ Request.key = call.key
      /\ Request.value = call.value
  BY <1>1, <1>2, RequestOfCall
<1>4. CASE InsertAtFreeSlot
  <2>1. Request' = Map!Nothing
    BY <1>4, RequestOfIdle DEF InsertAtFreeSlot
  <2> QED BY <1>3, <1>4, <2>1, InsertBinds DEF Map!Bind
<1>5. CASE InsertFindsKey
  <2>1. call.hash \in init_flags /\ table[call.hash].key = call.key
    BY <1>1, <1>2, <1>5, BucketOfSlot, NoSecondInit DEF IInv, InsertFindsKey
  <2>2. /\ Stored(call.key) /\ AbstractMap[call.key] = table[call.hash].value
    BY <2>1, MapOfStored
  <2>3. AbstractMap[call.key] # NULL
    BY <1>2, <2>2, StoredIsBound
  <2>4. /\ AbstractMap' = AbstractMap /\ Visible' = Visible
        /\ Request' = Map!Nothing /\ result' = table[call.hash].value
    BY <1>5, SameMap, RequestOfIdle DEF InsertFindsKey, tableVars
  <2> QED BY <1>3, <2>2, <2>3, <2>4 DEF Map!Rebind
<1>6. CASE InsertCollides
  <2>1. /\ AbstractMap' = AbstractMap /\ Visible' = Visible /\ result' = result
    BY <1>6, SameMap DEF InsertCollides, tableVars
  <2>2. /\ call'.op = call.op /\ call'.key = call.key /\ call'.value = call.value
    BY <1>2, <1>6 DEF InsertCollides
  <2>3. Request' = Request
    BY <1>2, <2>2, RequestOfCall DEF Request, Looping
  <2> QED BY <2>1, <2>3 DEF Map!vars
<1> QED BY <1>4, <1>5, <1>6 DEF InsertStep

LEMMA GetStepRefines ==
  ASSUME IInv, GetStep
  PROVE  Map!Lookup \/ UNCHANGED Map!vars
<1>1. call.op = "get" /\ TypeOK
  BY DEF GetStep, GetMisses, GetFindsKey, GetCollides, IInv
<1>2. /\ call \in [op : {"get"}, key : Key, value : {NULL}, hash : Slot]
      /\ call.key \in Key /\ ~Looping
  BY <1>1, CallOfGet DEF Looping
<1>3. Request.op = "get" /\ Request.key = call.key
  BY <1>1, <1>2, RequestOfCall
<1>4. AbstractMap' = AbstractMap /\ Visible' = Visible
  BY SameMap DEF GetStep, GetMisses, GetFindsKey, GetCollides, tableVars
<1>5. CASE GetMisses
  <2>1. AbstractMap[call.key] = NULL \/ call.key \notin Visible
    BY <1>2, <1>5, MissIsLookup DEF AbstractMap
  <2>2. result' = NULL /\ Request' = Map!Nothing
    BY <1>5, RequestOfIdle DEF GetMisses
  <2> QED BY <1>3, <1>4, <2>1, <2>2 DEF Map!Lookup
<1>6. CASE GetFindsKey
  <2>1. call.hash \in init_flags /\ table[call.hash].key = call.key
    BY <1>6, OccupiedMeansFlagged DEF GetFindsKey
  <2>2. AbstractMap[call.key] = table[call.hash].value
    BY <2>1, MapOfStored
  <2>3. result' = table[call.hash].value /\ Request' = Map!Nothing
    BY <1>6, RequestOfIdle DEF GetFindsKey
  <2> QED BY <1>3, <1>4, <2>2, <2>3 DEF Map!Lookup
<1>7. CASE GetCollides
  <2>1. /\ call'.op = call.op /\ call'.key = call.key /\ call'.value = call.value
    BY <1>2, <1>7 DEF GetCollides
  <2>2. Request' = Request /\ result' = result
    BY <1>2, <1>7, <2>1, RequestOfCall DEF Request, Looping, GetCollides
  <2> QED BY <1>4, <2>2 DEF Map!vars
<1> QED BY <1>5, <1>6, <1>7 DEF GetStep

LEMMA LoopStepRefines ==
  ASSUME IInv, ValuesStored, LoopInv, hash_table_begin \/ IterateStep
  PROVE  Map!AskIterate \/ Map!Enumerate \/ Map!EnumerationEnds \/ UNCHANGED Map!vars
<1>0. TypeOK /\ init_flags \subseteq Slot
  BY DEF IInv, TypeOK
<1>1. /\ UNCHANGED <<init_flags, table, hash_of>>
  BY LoopGoesOn, <1>0 DEF LoopStep, IterateStep, IterationEnds, tableVars
<1>2. /\ AbstractMap' = AbstractMap /\ Visible' = Visible
      /\ \A k : Stored(k)' <=> Stored(k)
      /\ \A k : SlotOfKey(k)' = SlotOfKey(k)
  BY <1>1, SameMap
<1>3. Left' = {k \in Key : Stored(k) /\ SlotOfKey(k) \notin Met'}
  BY <1>2 DEF Left
<1>4. CASE hash_table_begin
  <2>1. call = Idle /\ Looping' /\ visited' = <<>> /\ result' = result
    BY <1>0, <1>4, LoopGoesOn DEF hash_table_begin, LoopStep
  <2>2. Met' = {}
    BY <2>1 DEF Met
  <2>3. Left' = {k \in Key : AbstractMap[k] # NULL}
    BY <1>3, <2>2, StoredIsBound
  <2>4. /\ Request = Map!Nothing
        /\ Request' = [op |-> "iterate", key |-> NULL, value |-> NULL, left |-> Left']
    BY <2>1, RequestOfIdle, RequestOfLoop DEF LoopRequest
  <2> QED BY <1>2, <2>1, <2>3, <2>4 DEF Map!AskIterate, Map!Ask
<1>5. CASE ScanStep
  <2>1. Looping /\ Looping' /\ visited' = visited /\ result' = result
    BY <1>0, <1>5, LoopGoesOn
       DEF LoopStep, ScanStep, ScanStops, ScanSkipsSlot, BeginLeavesBucket,
           NextLeavesBucket, ScanEnds, Scanning, Looping, loopVars
  <2>2. Left' = Left
    BY <1>3, <2>1 DEF Left, Met
  <2>3. Request' = Request
    BY <2>1, <2>2, RequestOfLoop DEF LoopRequest
  <2> QED BY <1>2, <2>1, <2>3 DEF Map!vars
<1>6. CASE hash_table_next
  <2> DEFINE k == table[Position].key
  <2>1. /\ Looping /\ Looping' /\ result' = table[Position].value
    BY <1>0, <1>6, LoopGoesOn DEF hash_table_next, LoopStep, Looping
  <2>2. /\ Position \in init_flags /\ Met = Behind(Position)
        /\ Met' = Met \cup {Position}
    BY <1>6, NextVisits DEF LoopInv
  <2>3. /\ k \in Key /\ Stored(k) /\ SlotOfKey(k) = Position
        /\ AbstractMap[k] = table[Position].value
    BY <2>2, MapOfStored
  <2>4. Position \notin Met
    BY <1>0, <2>2, SlotCount DEF Behind, Slot
  <2>5. k \in Left
    BY <2>3, <2>4 DEF Left
  <2>6. ASSUME NEW j \in Key, Stored(j), j # k PROVE SlotOfKey(j) # Position
    BY <2>6, KeyInSlot
  <2>7. Left' = Left \ {k}
    <3> HIDE DEF k
    <3> QED BY <1>3, <2>2, <2>3, <2>6 DEF Left
  <2>8. /\ Request = [op |-> "iterate", key |-> NULL, value |-> NULL, left |-> Left]
        /\ Request' = [op |-> "iterate", key |-> NULL, value |-> NULL, left |-> Left']
    BY <2>1, RequestOfLoop DEF LoopRequest
  <2>9. Request' = [Request EXCEPT !.left = @ \ {k}]
    <3> HIDE DEF k
    <3> QED BY <2>7, <2>8
  <2>10. /\ Request.op = "iterate" /\ k \in Request.left
         /\ result' = AbstractMap[k]
    <3> HIDE DEF k
    <3> QED BY <2>1, <2>3, <2>5, <2>8
  <2> HIDE DEF k
  <2> QED BY <1>2, <2>9, <2>10 DEF Map!Enumerate
<1>7. CASE IterationEnds
  <2>1. /\ Looping /\ it = hash_table_end /\ call' = Idle /\ result' = result
    BY <1>7 DEF IterationEnds, Looping
  <2>2. Position = NbSlots
    <3>1. it.bucket_index = NB_BUCKETS /\ it.slot_index = 0
      BY <2>1, AtIsIterator DEF hash_table_end
    <3>2. NB_BUCKETS * BUCKET_SIZE \in Int
      BY SizeAssumption, SMT
    <3> QED BY <3>1, <3>2 DEF Position, NbSlots
  <2>3. Met = init_flags
    <3>1. Met = {s \in init_flags : s < NbSlots}
      BY <2>1, <2>2 DEF LoopInv, IterationExact, Met
    <3>2. \A s \in init_flags : s < NbSlots
      BY <1>0, SlotCount DEF Slot, MaxHash
    <3> QED BY <3>1, <3>2
  <2>4. Left = {}
    BY <2>3, KeyInSlot DEF Left
  <2>5. /\ Request = [op |-> "iterate", key |-> NULL, value |-> NULL, left |-> {}]
        /\ Request' = Map!Nothing
    BY <2>1, <2>4, RequestOfLoop, RequestOfIdle DEF LoopRequest
  <2> QED BY <1>2, <2>1, <2>5 DEF Map!EnumerationEnds
<1> QED BY <1>4, <1>5, <1>6, <1>7 DEF IterateStep

\* Every step is one of the map's, on the request under way, or none.
LEMMA StepRefines ==
  IInv /\ ValuesStored /\ LoopInv /\ [Next]_vars => [Map!Next]_(Map!vars)
<1> SUFFICES ASSUME IInv, ValuesStored, LoopInv, [Next]_vars
             PROVE  [Map!Next]_(Map!vars)
  OBVIOUS
<1>1. CASE InsertStep
  BY <1>1, InsertStepRefines DEF Map!Next
<1>2. CASE GetStep
  BY <1>2, GetStepRefines DEF Map!Next
<1>3. CASE hash_table_begin \/ IterateStep
  BY <1>3, LoopStepRefines DEF Map!Next
<1>4. ASSUME NEW k \in Key, NEW v \in Value, BeginInsert(k, v)
      PROVE  Map!AskInsert
  <2>1. AbstractMap' = AbstractMap /\ Visible' = Visible /\ result' = result
    BY <1>4, SameMap DEF BeginInsert, tableVars
  <2>2. Request = Map!Nothing
    BY <1>4, RequestOfIdle DEF BeginInsert
  <2>3. Request' = [op |-> "insert", key |-> k, value |-> v, left |-> {}]
    BY <1>4 DEF BeginInsert, Request, Looping
  <2> QED BY <2>1, <2>2, <2>3 DEF Map!AskInsert, Map!Ask
<1>5. ASSUME NEW k \in Key, BeginGet(k)
      PROVE  Map!AskGet
  <2>1. AbstractMap' = AbstractMap /\ Visible' = Visible /\ result' = result
    BY <1>5, SameMap DEF BeginGet, tableVars
  <2>2. Request = Map!Nothing
    BY <1>5, RequestOfIdle DEF BeginGet
  <2>3. Request' = [op |-> "get", key |-> k, value |-> NULL, left |-> {}]
    BY <1>5 DEF BeginGet, Request, Looping
  <2> QED BY <2>1, <2>2, <2>3 DEF Map!AskGet, Map!Ask
<1>6. CASE UNCHANGED vars
  <2>1. AbstractMap' = AbstractMap /\ Visible' = Visible /\ result' = result
    BY <1>6, SameMap DEF vars
  <2>2. /\ \A k : Stored(k)' <=> Stored(k)
        /\ \A k : SlotOfKey(k)' = SlotOfKey(k)
    BY <1>6, SameMap DEF vars
  <2>3. Request' = Request
    BY <1>6, <2>2 DEF Request, Looping, vars
  <2> QED BY <2>1, <2>3 DEF Map!vars
<1> QED BY <1>1, <1>2, <1>3, <1>4, <1>5, <1>6 DEF Next, Map!Next

\* The table is a map in which the first insertion of a key wins, insertions and
\* lookups answer for the key they were asked, and a loop meets every key once,
\* but for the keys that collisions bring to the slot lookups step over.
THEOREM TableImplementsMap == Spec => MapSpec
<1>1. Init => Map!Init
  <2> SUFFICES ASSUME Init PROVE Map!Init
    OBVIOUS
  <2>1. \A k \in Key : ~Stored(k)
    BY DEF Init, Stored
  <2>2. Request = Map!Nothing
    BY RequestOfIdle DEF Init
  <2> QED BY <2>1, <2>2 DEF Init, Map!Init, AbstractMap, Visible
<1>2. Init => ValuesStored
  BY DEF Init, ValuesStored
<1>3. IInv /\ ValuesStored /\ [Next]_vars => ValuesStored'
  BY ValuesStep
<1>4. IInv /\ ValuesStored /\ LoopInv /\ [Next]_vars => [Map!Next]_(Map!vars)
  BY StepRefines
<1> QED BY <1>1, <1>2, <1>3, <1>4, Invariance, LoopInvHolds, PTL
           DEF Spec, MapSpec, Map!Spec
=============================================================================
