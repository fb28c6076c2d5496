-------------------------- MODULE MockBackendProofs --------------------------
(***************************************************************************)
(* OutputBudget and PixelsOfTheLease for every limit, sample size, set of   *)
(* pixels and number of requests, and the proof that the mock implements    *)
(* AbstractEncoder.                                                         *)
(***************************************************************************)
EXTENDS MockBackend, Integers, FiniteSetTheorems, WellFoundedInduction, TLAPS

(* A leaf that the provers do not settle in their usual time gets more.     *)
USE SMTT(60), SMT, SMTT(30), ZenonT(60)

(* The tables as functions.                                                 *)
LEMMA PutEffect ==
  ASSUME NEW f, NEW k, NEW v
  PROVE  /\ DOMAIN Put(f, k, v) = DOMAIN f \cup {k}
         /\ Put(f, k, v)[k] = v
         /\ \A x \in DOMAIN f : x # k => Put(f, k, v)[x] = f[x]
  BY DEF Put

LEMMA WithoutEffect ==
  ASSUME NEW f, NEW S
  PROVE  /\ DOMAIN Without(f, S) = DOMAIN f \ S
         /\ \A x \in DOMAIN f \ S : Without(f, S)[x] = f[x]
  BY DEF Without

(* The first of a set of ids is one of them.                                *)
LEMMA MinIsMember ==
  ASSUME NEW S \in SUBSET Nat, S # {}
  PROVE  Min(S) \in S
  <1>1. \E x \in S : \A y \in S : ~ (<<y, x>> \in OpToRel(<, Nat))
    BY NatLessThanWellFounded, WFMin, Zenon
  <1>2. \A x, y \in Nat : y < x => <<y, x>> \in OpToRel(<, Nat)
    BY DEF OpToRel
  <1>3. PICK x \in S : \A y \in S : ~ (<<y, x>> \in OpToRel(<, Nat))
    BY <1>1, Zenon
  <1>4. \A y \in S : ~ (y < x)
    BY <1>2, <1>3, Zenon
  <1>5. \A y \in S : x <= y
    BY <1>4
  <1> QED
    BY <1>5, Zenon DEF Min

-----------------------------------------------------------------------------
(* The inductive invariant of OutputBudget.                                 *)
BudgetInv ==
  /\ limits.count \in Nat /\ limits.bytes \in Nat
  /\ next_output_id \in Nat
  /\ IsFiniteSet(DOMAIN outputs)
  /\ \A o \in DOMAIN outputs : o \in Nat /\ o < next_output_id
  /\ OutputBudget

LEMMA Sample == SAMPLE_SIZE \in Nat
  BY MockAssumption

LEMMA BudgetInit == Init => BudgetInv
  <1> SUFFICES ASSUME Init PROVE BudgetInv
    OBVIOUS
  <1>1. PICK env \in EnvLimits :
          limits = [count |-> Min({env.count, MAX_OUTPUTS}), bytes |-> env.bytes]
    BY Zenon DEF Init
  <1>2. env.count \in Nat /\ env.bytes \in Nat /\ MAX_OUTPUTS \in Nat
    BY MockAssumption
  <1>3. Min({env.count, MAX_OUTPUTS}) \in Nat
    BY <1>2, MinIsMember
  <1>4. DOMAIN outputs = {}
    BY DEF Init, EmptyMap
  <1>5. IsFiniteSet(DOMAIN outputs) /\ Cardinality(DOMAIN outputs) = 0
    BY <1>4, FS_EmptySet
  <1>6. SAMPLE_SIZE * Cardinality(DOMAIN outputs) = 0
    BY <1>5, Sample
  <1> QED
    BY <1>1, <1>2, <1>3, <1>4, <1>5, <1>6 DEF Init, BudgetInv, OutputBudget

(* Removing outputs with the bytes they amount to.                          *)
LEMMA BudgetRemove ==
  ASSUME BudgetInv, NEW S \in SUBSET DOMAIN outputs,
         outputs' = Without(outputs, S),
         output_bytes_total' = Less(output_bytes_total, SAMPLE_SIZE * Cardinality(S)),
         UNCHANGED <<limits, next_output_id>>
  PROVE  BudgetInv'
  <1> DEFINE D == DOMAIN outputs
             c == Cardinality(D)
             n == Cardinality(S)
  <1>1. DOMAIN outputs' = D \ S
    BY WithoutEffect, Zenon
  <1>2. IsFiniteSet(D) /\ c \in Nat /\ n \in Nat /\ n <= c
    BY FS_CardinalityType, FS_Subset DEF BudgetInv
  <1>3. D \cap S = S
    OBVIOUS
  <1>4. IsFiniteSet(D \ S) /\ Cardinality(D \ S) = c - n
    BY <1>2, <1>3, FS_Difference, Zenon
  <1>5. output_bytes_total = SAMPLE_SIZE * c
    BY DEF BudgetInv, OutputBudget
  <1> HIDE DEF c, n
  <1>6. SAMPLE_SIZE * (c - n) = SAMPLE_SIZE * c - SAMPLE_SIZE * n
    BY <1>2, Sample
  <1>7. SAMPLE_SIZE * (c - n) \in Nat /\ SAMPLE_SIZE * c \in Nat /\ SAMPLE_SIZE * n \in Nat
    <2>1. c - n \in Nat
      BY <1>2
    <2> QED
      BY <1>2, <2>1, Sample
  <1>8. output_bytes_total' = SAMPLE_SIZE * (c - n)
    BY <1>5, <1>6, <1>7 DEF Less, n
  <1>9. SAMPLE_SIZE * c <= limits.bytes /\ c <= limits.count
    BY <1>5 DEF BudgetInv, OutputBudget, c
  <1>10. OutputBudget'
    BY <1>1, <1>2, <1>4, <1>6, <1>7, <1>8, <1>9 DEF OutputBudget, BudgetInv
  <1> QED
    BY <1>1, <1>4, <1>10 DEF BudgetInv

LEMMA BudgetStep == BudgetInv /\ [Next]_vars => BudgetInv'
  <1> SUFFICES ASSUME BudgetInv, [Next]_vars PROVE BudgetInv'
    OBVIOUS
  <1>1. CASE UNCHANGED <<limits, outputs, next_output_id, output_bytes_total>>
    BY <1>1 DEF BudgetInv, OutputBudget
  <1>2. ASSUME NEW s \in sessions, DestroySession(s) PROVE BudgetInv'
    BY <1>2, BudgetRemove DEF DestroySession, RemovedBytes, SessionOutputs
  <1>3. ASSUME NEW o \in DOMAIN outputs, ReleaseOutput(o) PROVE BudgetInv'
    <2>1. SAMPLE_SIZE * Cardinality({o}) = SAMPLE_SIZE
      <3>1. Cardinality({o}) = 1
        BY FS_Singleton
      <3> QED
        BY <3>1, Sample
    <2> QED
      BY <1>3, <2>1, BudgetRemove DEF ReleaseOutput
  <1>4. ASSUME NEW s, NEW b, NEW g, EncodeFrame(s, b, g) PROVE BudgetInv'
    <2> DEFINE D == DOMAIN outputs
               c == Cardinality(D)
    <2>1. DOMAIN outputs' = D \cup {next_output_id}
      BY <1>4, PutEffect, Zenon DEF EncodeFrame
    <2>2. next_output_id \notin D /\ IsFiniteSet(D) /\ c \in Nat
      BY FS_CardinalityType DEF BudgetInv
    <2>3. IsFiniteSet(DOMAIN outputs') /\ Cardinality(DOMAIN outputs') = c + 1
      BY <2>1, <2>2, FS_AddElement
    <2>4. /\ c < limits.count /\ SAMPLE_SIZE <= limits.bytes
          /\ output_bytes_total <= Less(limits.bytes, SAMPLE_SIZE)
          /\ output_bytes_total' = output_bytes_total + SAMPLE_SIZE
          /\ next_output_id' = next_output_id + 1
          /\ UNCHANGED limits
      BY <1>4 DEF EncodeFrame, Room
    <2>5. output_bytes_total = SAMPLE_SIZE * c
      BY DEF BudgetInv, OutputBudget
    <2> HIDE DEF c
    <2>6. SAMPLE_SIZE * (c + 1) = SAMPLE_SIZE * c + SAMPLE_SIZE /\ SAMPLE_SIZE * c \in Nat
      BY <2>2, Sample
    <2>7. OutputBudget'
      BY <2>2, <2>3, <2>4, <2>5, <2>6, Sample DEF OutputBudget, BudgetInv, Less
    <2> QED
      BY <2>1, <2>3, <2>4, <2>7 DEF BudgetInv
  <1>5. ASSUME NEW s, NEW max, DequeueOutputs(s, max) PROVE BudgetInv'
    <2>1. DOMAIN outputs' = DOMAIN outputs
      BY <1>5 DEF DequeueOutputs
    <2> QED
      BY <1>5, <2>1 DEF DequeueOutputs, BudgetInv, OutputBudget
  <1>6. CASE UNCHANGED vars
    BY <1>1, <1>6 DEF vars, outVars
  <1> QED
    BY <1>1, <1>2, <1>3, <1>4, <1>5, <1>6, Zenon
       DEF Next, CreateSession, PrepareSession, CreateBufferPool, AllocBuffer,
           WriteBuffer, RecycleBuffer, outVars

(***************************************************************************)
(* The bytes on the account are those of the stored outputs, and the        *)
(* environment's limits hold.                                               *)
(***************************************************************************)
THEOREM BudgetKept == Spec => []OutputBudget
  <1>1. BudgetInv => OutputBudget
    BY DEF BudgetInv
  <1> QED
    BY <1>1, BudgetInit, BudgetStep, PTL DEF Spec
-----------------------------------------------------------------------------
(* The inductive invariant of PixelsOfTheLease.  A pool's slots go to       *)
(* different buffers, so that a write reaches the pixels of one lease; the  *)
(* host ids and generations that leases are made of are never reused, so    *)
(* that a new lease is not that of an old output; and the slot of a stored  *)
(* output is not writable under the output's lease, which ends with it.     *)
Buffer ==
  [pool : Nat, slot : Nat, generation : Nat, state : {RECYCLED, WRITABLE, QUEUED}]

OutputFields == {"session", "buffer", "generation", "sample", "dequeued"}

TablesInv ==
  /\ next_host_id \in Nat /\ next_output_id \in Nat
  /\ \A p \in DOMAIN pools : p \in Nat /\ p < next_host_id
  /\ pools \in [DOMAIN pools -> [session : Nat, max_buffers : Nat, buffer_count : Nat]]
  /\ DOMAIN backing = DOMAIN pools
  /\ \A p \in DOMAIN pools : /\ DOMAIN backing[p] = 0 .. pools[p].max_buffers - 1
                             /\ pools[p].buffer_count <= pools[p].max_buffers
  /\ \A b \in DOMAIN buffers : b \in Nat /\ b < next_host_id
  /\ buffers \in [DOMAIN buffers -> Buffer]

SlotsInv ==
  /\ \A b \in DOMAIN buffers : /\ buffers[b].pool \in DOMAIN pools
                               /\ buffers[b].slot < pools[buffers[b].pool].buffer_count
  /\ \A b, c \in DOMAIN buffers :
       buffers[b].pool = buffers[c].pool /\ buffers[b].slot = buffers[c].slot => b = c

LeasesInv ==
  /\ \A b \in DOMAIN buffers : LeaseOf(b) \in DOMAIN wrote
  /\ \A o \in DOMAIN outputs :
       LET out == outputs[o]
       IN  /\ o \in Nat /\ o < next_output_id /\ DOMAIN out = OutputFields
           /\ out.buffer \in Nat /\ out.buffer < next_host_id /\ out.generation \in Nat
           /\ Lease(out) \in DOMAIN wrote
           /\ out.buffer \in DOMAIN buffers =>
                \/ out.generation < buffers[out.buffer].generation
                \/ /\ out.generation = buffers[out.buffer].generation
                   /\ buffers[out.buffer].state # WRITABLE
  /\ \A o, q \in DOMAIN outputs : Lease(outputs[o]) = Lease(outputs[q]) => o = q

PixelsInv == TablesInv /\ SlotsInv /\ LeasesInv /\ PixelsOfTheLease

LEMMA PixelsInit == Init => PixelsInv
  <1> SUFFICES ASSUME Init PROVE PixelsInv
    OBVIOUS
  <1>1. /\ DOMAIN pools = {} /\ DOMAIN backing = {}
        /\ DOMAIN buffers = {} /\ DOMAIN outputs = {}
    BY DEF Init, EmptyMap
  <1>2. pools = [x \in {} |-> 0] /\ buffers = [x \in {} |-> 0]
    BY DEF Init, EmptyMap
  <1>3. TablesInv
    BY <1>1, <1>2 DEF Init, TablesInv
  <1> QED
    BY <1>1, <1>3 DEF PixelsInv, SlotsInv, LeasesInv, PixelsOfTheLease

(* A request that leaves slots and outputs alone.                           *)
LEMMA PixelsKept ==
  ASSUME PixelsInv, UNCHANGED <<poolVars, outVars, wrote>>,
         next_host_id' \in Nat, next_host_id <= next_host_id'
  PROVE  PixelsInv'
  <1> USE DEF poolVars, outVars
  <1>1. TablesInv'
    BY DEF PixelsInv, TablesInv
  <1>2. SlotsInv'
    BY DEF PixelsInv, SlotsInv
  <1>3. LeasesInv'
    BY DEF PixelsInv, LeasesInv, TablesInv, LeaseOf, Lease
  <1>4. PixelsOfTheLease'
    BY DEF PixelsInv, PixelsOfTheLease, LeaseOf, Lease
  <1> QED
    BY <1>1, <1>2, <1>3, <1>4 DEF PixelsInv

LEMMA PixelsCreatePool ==
  ASSUME PixelsInv, NEW s \in 0 .. MaxHostId, NEW requested \in 0 .. 1,
         CreateBufferPool(s, requested)
  PROVE  PixelsInv'
  <1> DEFINE id == next_host_id
             n == Count(requested)
  <1>1. /\ n \in Nat /\ s \in Nat /\ id \in Nat
        /\ id \notin DOMAIN pools
    BY MockAssumption DEF Count, PixelsInv, TablesInv
  <1>2. /\ pools' = Put(pools, id, [session |-> s, max_buffers |-> n, buffer_count |-> 0])
        /\ backing' = Put(backing, id, [i \in 0 .. n - 1 |-> Zero])
        /\ next_host_id' = id + 1
        /\ UNCHANGED <<buffers, outputs, next_output_id, wrote>>
    BY DEF CreateBufferPool, outVars
  <1>3. /\ DOMAIN pools' = DOMAIN pools \cup {id} /\ DOMAIN backing' = DOMAIN backing \cup {id}
        /\ pools'[id] = [session |-> s, max_buffers |-> n, buffer_count |-> 0]
        /\ DOMAIN backing'[id] = 0 .. n - 1
        /\ \A p \in DOMAIN pools : pools'[p] = pools[p]
        /\ \A p \in DOMAIN backing : backing'[p] = backing[p]
    BY <1>1, <1>2 DEF Put, PixelsInv, TablesInv
  <1>4. pools' \in [DOMAIN pools' -> [session : Nat, max_buffers : Nat, buffer_count : Nat]]
    BY <1>1, <1>2, <1>3 DEF Put, PixelsInv, TablesInv
  <1>5. TablesInv'
    <2>1. \A p \in DOMAIN pools' : p \in Nat /\ p < next_host_id'
      BY <1>1, <1>2, <1>3 DEF PixelsInv, TablesInv
    <2>2. \A p \in DOMAIN pools' : /\ DOMAIN backing'[p] = 0 .. pools'[p].max_buffers - 1
                                   /\ pools'[p].buffer_count <= pools'[p].max_buffers
      <3> TAKE p \in DOMAIN pools'
      <3>1. CASE p = id
        BY <1>1, <1>3, <3>1
      <3>2. CASE p \in DOMAIN pools
        BY <1>3, <3>2 DEF PixelsInv, TablesInv
      <3> QED
        BY <1>3, <3>1, <3>2
    <2>3. \A b \in DOMAIN buffers' : b \in Nat /\ b < next_host_id'
      BY <1>1, <1>2 DEF PixelsInv, TablesInv
    <2>4. /\ next_host_id' \in Nat /\ next_output_id' \in Nat
          /\ DOMAIN backing' = DOMAIN pools'
          /\ buffers' \in [DOMAIN buffers' -> Buffer]
      BY <1>1, <1>2, <1>3 DEF PixelsInv, TablesInv
    <2> QED
      BY <1>4, <2>1, <2>2, <2>3, <2>4 DEF TablesInv
  <1>6. SlotsInv'
    BY <1>2, <1>3 DEF PixelsInv, SlotsInv
  <1>7. LeasesInv'
    BY <1>1, <1>2 DEF PixelsInv, LeasesInv, TablesInv, LeaseOf, Lease
  <1>8. PixelsOfTheLease'
    <2>1. \A b \in DOMAIN buffers : buffers[b].pool \in DOMAIN backing
      BY DEF PixelsInv, SlotsInv, TablesInv
    <2>2. \A b \in DOMAIN buffers : backing'[buffers[b].pool] = backing[buffers[b].pool]
      BY <1>3, <2>1
    <2> QED
      BY <1>2, <2>2, Zenon DEF PixelsInv, PixelsOfTheLease, LeaseOf, Lease
  <1> QED
    BY <1>5, <1>6, <1>7, <1>8 DEF PixelsInv

LEMMA PixelsDestroy ==
  ASSUME PixelsInv, NEW s \in sessions, DestroySession(s)
  PROVE  PixelsInv'
  <1> DEFINE P == {p \in DOMAIN pools : pools[p].session = s}
             B == {b \in DOMAIN buffers : buffers[b].pool \in P}
  <1>1. /\ outputs' = Without(outputs, SessionOutputs(s))
        /\ pools' = Without(pools, P) /\ backing' = Without(backing, P)
        /\ buffers' = Without(buffers, B)
        /\ UNCHANGED <<next_host_id, next_output_id, wrote>>
    BY DEF DestroySession
  <1>2. /\ DOMAIN outputs' \subseteq DOMAIN outputs
        /\ \A o \in DOMAIN outputs' : outputs'[o] = outputs[o]
    BY <1>1 DEF Without
  <1>3. /\ DOMAIN pools' = DOMAIN pools \ P /\ DOMAIN backing' = DOMAIN backing \ P
        /\ \A p \in DOMAIN pools' : pools'[p] = pools[p]
        /\ \A p \in DOMAIN backing' : backing'[p] = backing[p]
    BY <1>1 DEF Without
  <1>4. /\ DOMAIN buffers' = DOMAIN buffers \ B
        /\ \A b \in DOMAIN buffers' : buffers'[b] = buffers[b]
    BY <1>1 DEF Without
  <1>5. \A b \in DOMAIN buffers' : buffers'[b].pool \notin P
    BY <1>4
  <1>6. /\ pools' \in [DOMAIN pools' -> [session : Nat, max_buffers : Nat, buffer_count : Nat]]
        /\ buffers' \in [DOMAIN buffers' -> Buffer]
    BY <1>1, <1>3, <1>4 DEF Without, PixelsInv, TablesInv
  <1> HIDE DEF P, B
  <1>7. TablesInv'
    BY <1>1, <1>3, <1>4, <1>6 DEF PixelsInv, TablesInv
  <1>8. SlotsInv'
    BY <1>3, <1>4, <1>5 DEF PixelsInv, SlotsInv
  <1>9. LeasesInv'
    BY <1>1, <1>2, <1>4 DEF PixelsInv, LeasesInv, LeaseOf, Lease
  <1>10. PixelsOfTheLease'
    <2>1. \A b \in DOMAIN buffers' : buffers'[b].pool \in DOMAIN backing'
      BY <1>7, <1>8 DEF SlotsInv, TablesInv
    <2> QED
      BY <1>1, <1>2, <1>3, <1>4, <2>1 DEF PixelsInv, PixelsOfTheLease, LeaseOf, Lease
  <1> QED
    BY <1>7, <1>8, <1>9, <1>10 DEF PixelsInv

(* A slot is leased again: its buffer gets a new generation.                *)
LEMMA PixelsReuse ==
  ASSUME PixelsInv, NEW p \in DOMAIN pools, NEW b \in Recyclable(p), Reuse(p, b),
         UNCHANGED outVars
  PROVE  PixelsInv'
  <1> DEFINE g == buffers[b].generation + 1
             slot == buffers[b].slot
  <1>1. /\ b \in DOMAIN buffers /\ buffers[b].pool = p /\ buffers[b].state = RECYCLED
        /\ buffers[b] \in Buffer
    BY DEF Recyclable, PixelsInv, TablesInv
  <1>2. /\ buffers' = [buffers EXCEPT ![b].generation = @ + 1, ![b].state = WRITABLE]
        /\ backing' = [backing EXCEPT ![p][slot] = Zero]
        /\ wrote' = Put(wrote, <<b, g>>, Zero)
        /\ UNCHANGED <<next_host_id, pools, outputs, next_output_id>>
    BY DEF Reuse, Zeroed, outVars
  <1>3. /\ DOMAIN buffers' = DOMAIN buffers
        /\ buffers'[b] = [pool |-> p, slot |-> slot, generation |-> g, state |-> WRITABLE]
        /\ \A c \in DOMAIN buffers : c # b => buffers'[c] = buffers[c]
    BY <1>1, <1>2, Zenon DEF PixelsInv, TablesInv, Buffer
  <1>4. g \in Nat /\ slot \in Nat /\ p \in Nat
    BY <1>1 DEF Buffer
  <1>5. slot \in 0 .. pools[p].max_buffers - 1
    BY <1>1, <1>4 DEF PixelsInv, SlotsInv, TablesInv
  <1>6. /\ DOMAIN backing' = DOMAIN backing
        /\ \A q \in DOMAIN pools : DOMAIN backing'[q] = DOMAIN backing[q]
        /\ backing'[p][slot] = Zero
        /\ \A q \in DOMAIN pools : \A i \in 0 .. pools[q].max_buffers - 1 :
             <<q, i>> # <<p, slot>> => backing'[q][i] = backing[q][i]
    <2>1. TablesInv
      BY DEF PixelsInv
    <2> HIDE DEF slot
    <2> QED
      BY <1>2, <1>5, <2>1 DEF TablesInv
  <1>7. /\ DOMAIN wrote' = DOMAIN wrote \cup {<<b, g>>}
        /\ wrote'[<<b, g>>] = Zero
        /\ \A l \in DOMAIN wrote : l # <<b, g>> => wrote'[l] = wrote[l]
    BY <1>2 DEF Put
  <1>8. buffers'[b] \in Buffer
    BY <1>3, <1>4 DEF Buffer
  <1>9. g = buffers[b].generation + 1 /\ buffers[b].generation \in Nat
    BY <1>1 DEF Buffer
  <1> HIDE DEF g, slot
  <1>10. TablesInv'
    <2>1. buffers' \in [DOMAIN buffers' -> Buffer]
      BY <1>2, <1>3, <1>8, Zenon DEF PixelsInv, TablesInv
    <2> QED
      BY <1>2, <1>3, <1>6, <2>1 DEF PixelsInv, TablesInv
  <1>11. \A c \in DOMAIN buffers : buffers'[c].pool = buffers[c].pool
                                   /\ buffers'[c].slot = buffers[c].slot
    BY <1>1, <1>3 DEF slot
  <1>12. SlotsInv'
    BY <1>2, <1>3, <1>11 DEF PixelsInv, SlotsInv
  <1>13. \A o \in DOMAIN outputs : Lease(outputs[o]) # <<b, g>>
    <2> SUFFICES ASSUME NEW o \in DOMAIN outputs, outputs[o].buffer = b
                 PROVE  outputs[o].generation # g
      BY DEF Lease
    <2>1. outputs[o].generation \in Nat /\ outputs[o].generation <= buffers[b].generation
      BY <1>1, <1>9 DEF PixelsInv, LeasesInv
    <2> QED
      BY <1>9, <2>1
  <1>14. LeasesInv'
    <2>1. \A c \in DOMAIN buffers' : LeaseOf(c)' \in DOMAIN wrote'
      BY <1>3, <1>7 DEF PixelsInv, LeasesInv, LeaseOf
    <2>2. \A o \in DOMAIN outputs : outputs[o].buffer = b => outputs[o].generation < g
      BY <1>1, <1>9 DEF PixelsInv, LeasesInv
    <2>3. \A o \in DOMAIN outputs : outputs[o].buffer = b =>
            outputs[o].generation < buffers'[outputs[o].buffer].generation
      BY <1>3, <2>2
    <2> QED
      BY <1>2, <1>3, <1>7, <2>1, <2>3 DEF PixelsInv, LeasesInv, Lease
  <1>15. PixelsOfTheLease'
    <2>1. ASSUME NEW c \in DOMAIN buffers', buffers'[c].state # RECYCLED
          PROVE  backing'[buffers'[c].pool][buffers'[c].slot] = wrote'[LeaseOf(c)']
      <3>1. CASE c = b
        BY <1>3, <1>6, <1>7, <3>1 DEF LeaseOf
      <3>2. CASE c # b
        <4>1. buffers'[c] = buffers[c] /\ c \in DOMAIN buffers
          BY <1>3, <3>2
        <4>2. <<buffers[c].pool, buffers[c].slot>> # <<p, slot>>
          BY <1>1, <3>2, <4>1 DEF PixelsInv, SlotsInv, slot
        <4>3. buffers[c].pool \in DOMAIN pools
              /\ buffers[c].slot \in 0 .. pools[buffers[c].pool].max_buffers - 1
          BY <4>1 DEF PixelsInv, SlotsInv, TablesInv, Buffer
        <4>4. backing'[buffers[c].pool][buffers[c].slot]
                = backing[buffers[c].pool][buffers[c].slot]
          BY <1>6, <4>2, <4>3
        <4>5. LeaseOf(c)' = LeaseOf(c) /\ LeaseOf(c) \in DOMAIN wrote /\ LeaseOf(c) # <<b, g>>
          BY <3>2, <4>1 DEF LeaseOf, PixelsInv, LeasesInv
        <4> QED
          BY <1>7, <2>1, <4>1, <4>4, <4>5 DEF PixelsInv, PixelsOfTheLease
      <3> QED
        BY <3>1, <3>2
    <2>2. ASSUME NEW o \in DOMAIN outputs'
          PROVE  outputs'[o].sample = wrote'[Lease(outputs'[o])]
      BY <1>2, <1>7, <1>13 DEF PixelsInv, LeasesInv, PixelsOfTheLease
    <2> QED
      BY <2>1, <2>2 DEF PixelsOfTheLease, LeaseOf
  <1> QED
    BY <1>10, <1>12, <1>14, <1>15 DEF PixelsInv

(* A slot is leased for the first time: a new buffer.                       *)
LEMMA PixelsCarve ==
  ASSUME PixelsInv, NEW p \in DOMAIN pools, Carve(p), UNCHANGED outVars
  PROVE  PixelsInv'
  <1> DEFINE id == next_host_id
             slot == pools[p].buffer_count
             new == [pool |-> p, slot |-> slot, generation |-> 1, state |-> WRITABLE]
  <1>1. /\ id \in Nat /\ p \in Nat /\ slot \in Nat /\ id \notin DOMAIN buffers
        /\ pools[p] \in [session : Nat, max_buffers : Nat, buffer_count : Nat]
        /\ slot \in 0 .. pools[p].max_buffers - 1
    BY DEF PixelsInv, TablesInv, Carve
  <1>2. /\ buffers' = Put(buffers, id, new)
        /\ pools' = [pools EXCEPT ![p].buffer_count = @ + 1]
        /\ backing' = [backing EXCEPT ![p][slot] = Zero]
        /\ wrote' = Put(wrote, <<id, 1>>, Zero)
        /\ next_host_id' = id + 1
        /\ UNCHANGED <<outputs, next_output_id>>
    BY DEF Carve, Zeroed, outVars
  <1>3. /\ DOMAIN buffers' = DOMAIN buffers \cup {id}
        /\ buffers'[id] = new
        /\ \A c \in DOMAIN buffers : buffers'[c] = buffers[c]
    BY <1>1, <1>2 DEF Put
  <1>4. /\ DOMAIN pools' = DOMAIN pools
        /\ pools'[p] = [session |-> pools[p].session, max_buffers |-> pools[p].max_buffers,
                        buffer_count |-> slot + 1]
        /\ \A q \in DOMAIN pools : q # p => pools'[q] = pools[q]
    BY <1>1, <1>2
  <1>5. /\ DOMAIN backing' = DOMAIN backing
        /\ \A q \in DOMAIN pools : DOMAIN backing'[q] = DOMAIN backing[q]
        /\ backing'[p][slot] = Zero
        /\ \A q \in DOMAIN pools : \A i \in 0 .. pools[q].max_buffers - 1 :
             <<q, i>> # <<p, slot>> => backing'[q][i] = backing[q][i]
    <2>1. TablesInv
      BY DEF PixelsInv
    <2> HIDE DEF slot
    <2> QED
      BY <1>1, <1>2, <2>1 DEF TablesInv
  <1>6. /\ DOMAIN wrote' = DOMAIN wrote \cup {<<id, 1>>}
        /\ wrote'[<<id, 1>>] = Zero
        /\ \A l \in DOMAIN wrote : l # <<id, 1>> => wrote'[l] = wrote[l]
    BY <1>2 DEF Put
  <1>7. new \in Buffer
    BY <1>1 DEF Buffer
  <1>8. buffers' \in [DOMAIN buffers' -> Buffer]
    BY <1>2, <1>3, <1>7 DEF Put, PixelsInv, TablesInv
  <1>9. pools' \in [DOMAIN pools' -> [session : Nat, max_buffers : Nat, buffer_count : Nat]]
    BY <1>1, <1>2, <1>4 DEF PixelsInv, TablesInv
  <1>10. \A q \in DOMAIN pools : pools'[q].max_buffers = pools[q].max_buffers
                                 /\ pools[q].buffer_count \in Nat
                                 /\ pools[q].buffer_count <= pools'[q].buffer_count
                                 /\ pools'[q].buffer_count \in Nat
                                 /\ pools'[q].buffer_count <= pools'[q].max_buffers
    <2> TAKE q \in DOMAIN pools
    <2>1. /\ pools[q] \in [session : Nat, max_buffers : Nat, buffer_count : Nat]
          /\ pools[q].buffer_count <= pools[q].max_buffers
      BY DEF PixelsInv, TablesInv
    <2>2. CASE q = p
      BY <1>1, <1>4, <2>1, <2>2
    <2>3. CASE q # p
      BY <1>4, <2>1, <2>3
    <2> QED
      BY <2>2, <2>3
  <1>11. /\ buffers'[id].pool = p /\ buffers'[id].slot = slot
         /\ buffers'[id].generation = 1 /\ slot < pools'[p].buffer_count
    BY <1>1, <1>3, <1>4
  <1>12. \A c \in DOMAIN buffers :
           /\ buffers[c].pool \in DOMAIN pools
           /\ buffers[c].slot \in 0 .. pools[buffers[c].pool].max_buffers - 1
           /\ buffers[c].pool = p => buffers[c].slot < slot
           /\ buffers[c].slot < pools[buffers[c].pool].buffer_count
    BY DEF PixelsInv, SlotsInv, TablesInv, Buffer
  <1> HIDE DEF id, slot, new
  <1>13. TablesInv'
    BY <1>1, <1>2, <1>3, <1>4, <1>5, <1>8, <1>9, <1>10 DEF PixelsInv, TablesInv, id
  <1>14. SlotsInv'
    <2>1. \A c \in DOMAIN buffers' : /\ buffers'[c].pool \in DOMAIN pools'
                                     /\ buffers'[c].slot < pools'[buffers'[c].pool].buffer_count
      <3> TAKE c \in DOMAIN buffers'
      <3>1. CASE c = id
        BY <1>4, <1>11, <3>1
      <3>2. CASE c \in DOMAIN buffers
        <4>1. /\ buffers'[c] = buffers[c] /\ buffers[c].pool \in DOMAIN pools
              /\ buffers[c].slot \in Int
              /\ buffers[c].slot < pools[buffers[c].pool].buffer_count
          BY <1>3, <1>12, <3>2
        <4> QED
          BY <1>4, <1>10, <4>1
      <3> QED
        BY <1>3, <3>1, <3>2
    <2>2. \A c, d \in DOMAIN buffers' :
            buffers'[c].pool = buffers'[d].pool /\ buffers'[c].slot = buffers'[d].slot => c = d
      BY <1>1, <1>3, <1>11, <1>12 DEF PixelsInv, SlotsInv
    <2> QED
      BY <2>1, <2>2 DEF SlotsInv
  <1>15. \A o \in DOMAIN outputs : outputs[o].buffer # id
    BY DEF PixelsInv, LeasesInv, id, TablesInv
  <1>16. LeasesInv'
    <2>1. \A c \in DOMAIN buffers' : LeaseOf(c)' \in DOMAIN wrote'
      BY <1>3, <1>6, <1>11 DEF PixelsInv, LeasesInv, LeaseOf
    <2>2. \A o \in DOMAIN outputs : outputs[o].buffer \in DOMAIN buffers' =>
            outputs[o].buffer \in DOMAIN buffers
      BY <1>3, <1>15
    <2> QED
      BY <1>1, <1>2, <1>3, <1>6, <2>1, <2>2 DEF PixelsInv, LeasesInv, Lease, id
  <1>17. PixelsOfTheLease'
    <2>1. ASSUME NEW c \in DOMAIN buffers', buffers'[c].state # RECYCLED
          PROVE  backing'[buffers'[c].pool][buffers'[c].slot] = wrote'[LeaseOf(c)']
      <3>1. CASE c = id
        BY <1>5, <1>6, <1>11, <3>1 DEF LeaseOf
      <3>2. CASE c \in DOMAIN buffers
        <4>1. buffers'[c] = buffers[c] /\ c # id
          BY <1>1, <1>3, <3>2
        <4>2. <<buffers[c].pool, buffers[c].slot>> # <<p, slot>>
          BY <1>1, <1>12, <3>2
        <4>3. backing'[buffers[c].pool][buffers[c].slot]
                = backing[buffers[c].pool][buffers[c].slot]
          BY <1>5, <1>12, <3>2, <4>2
        <4>4. LeaseOf(c)' = LeaseOf(c) /\ LeaseOf(c) \in DOMAIN wrote /\ LeaseOf(c) # <<id, 1>>
          BY <3>2, <4>1 DEF LeaseOf, PixelsInv, LeasesInv
        <4> QED
          BY <1>6, <2>1, <3>2, <4>1, <4>3, <4>4 DEF PixelsInv, PixelsOfTheLease
      <3> QED
        BY <1>3, <3>1, <3>2
    <2>2. ASSUME NEW o \in DOMAIN outputs'
          PROVE  outputs'[o].sample = wrote'[Lease(outputs'[o])]
      <3>1. Lease(outputs[o]) # <<id, 1>> /\ Lease(outputs[o]) \in DOMAIN wrote
        BY <1>2, <1>15 DEF Lease, PixelsInv, LeasesInv
      <3> QED
        BY <1>2, <1>6, <3>1 DEF PixelsInv, PixelsOfTheLease
    <2> QED
      BY <2>1, <2>2 DEF PixelsOfTheLease, LeaseOf
  <1> QED
    BY <1>13, <1>14, <1>16, <1>17 DEF PixelsInv

LEMMA PixelsWrite ==
  ASSUME PixelsInv, NEW b \in DOMAIN buffers, NEW g, NEW pixels, WriteBuffer(b, g, pixels)
  PROVE  PixelsInv'
  <1> DEFINE p == buffers[b].pool
             slot == buffers[b].slot
  <1>1. /\ buffers[b].generation = g /\ buffers[b].state = WRITABLE
        /\ backing' = [backing EXCEPT ![p][slot] = pixels]
        /\ wrote' = [wrote EXCEPT ![<<b, g>>] = pixels]
        /\ UNCHANGED <<next_host_id, pools, buffers, outputs, next_output_id>>
    BY DEF WriteBuffer, outVars
  <1>2. \A c \in DOMAIN buffers :
          /\ buffers[c].pool \in DOMAIN pools
          /\ buffers[c].slot \in 0 .. pools[buffers[c].pool].max_buffers - 1
    BY DEF PixelsInv, SlotsInv, TablesInv, Buffer
  <1>3. TablesInv
    BY DEF PixelsInv
  <1>4. p \in DOMAIN pools /\ slot \in 0 .. pools[p].max_buffers - 1
    BY <1>2
  <1> HIDE DEF p, slot
  <1>5. /\ DOMAIN backing' = DOMAIN backing
        /\ \A q \in DOMAIN pools : DOMAIN backing'[q] = DOMAIN backing[q]
        /\ backing'[p][slot] = pixels
        /\ \A q \in DOMAIN pools : \A i \in 0 .. pools[q].max_buffers - 1 :
             <<q, i>> # <<p, slot>> => backing'[q][i] = backing[q][i]
    BY <1>1, <1>3, <1>4 DEF TablesInv
  <1>6. <<b, g>> \in DOMAIN wrote
    BY <1>1 DEF PixelsInv, LeasesInv, LeaseOf
  <1>7. /\ DOMAIN wrote' = DOMAIN wrote
        /\ wrote'[<<b, g>>] = pixels
        /\ \A l \in DOMAIN wrote : l # <<b, g>> => wrote'[l] = wrote[l]
    BY <1>1, <1>6
  <1>8. TablesInv'
    BY <1>1, <1>3, <1>5 DEF TablesInv
  <1>9. SlotsInv'
    BY <1>1 DEF PixelsInv, SlotsInv
  <1>10. LeasesInv'
    BY <1>1, <1>7 DEF PixelsInv, LeasesInv, LeaseOf, Lease
  <1>11. \A o \in DOMAIN outputs : Lease(outputs[o]) # <<b, g>>
    <2> SUFFICES ASSUME NEW o \in DOMAIN outputs, outputs[o].buffer = b,
                        outputs[o].generation = g
                 PROVE  FALSE
      BY DEF Lease
    <2>1. buffers[b].generation \in Nat
      BY <1>3 DEF TablesInv, Buffer
    <2> QED
      BY <1>1, <2>1 DEF PixelsInv, LeasesInv
  <1>12. PixelsOfTheLease'
    <2>1. ASSUME NEW c \in DOMAIN buffers, buffers[c].state # RECYCLED
          PROVE  backing'[buffers[c].pool][buffers[c].slot] = wrote'[LeaseOf(c)]
      <3>1. CASE c = b
        BY <1>1, <1>5, <1>7, <3>1 DEF LeaseOf, p, slot
      <3>2. CASE c # b
        <4>1. <<buffers[c].pool, buffers[c].slot>> # <<p, slot>>
          BY <3>2 DEF PixelsInv, SlotsInv, p, slot
        <4>2. backing'[buffers[c].pool][buffers[c].slot]
                = backing[buffers[c].pool][buffers[c].slot]
          BY <1>2, <1>5, <4>1
        <4>3. LeaseOf(c) \in DOMAIN wrote /\ LeaseOf(c) # <<b, g>>
          BY <3>2 DEF LeaseOf, PixelsInv, LeasesInv
        <4> QED
          BY <1>7, <2>1, <4>2, <4>3 DEF PixelsInv, PixelsOfTheLease
      <3> QED
        BY <3>1, <3>2
    <2>2. ASSUME NEW o \in DOMAIN outputs
          PROVE  outputs[o].sample = wrote'[Lease(outputs[o])]
      BY <1>7, <1>11 DEF PixelsInv, LeasesInv, PixelsOfTheLease
    <2> QED
      BY <1>1, <2>1, <2>2 DEF PixelsOfTheLease, LeaseOf, Lease
  <1> QED
    BY <1>8, <1>9, <1>10, <1>12 DEF PixelsInv

(* Buffers change state, no other state than to WRITABLE under the lease of *)
(* a stored output.                                                         *)
LEMMA PixelsStates ==
  ASSUME PixelsInv, buffers' \in [DOMAIN buffers -> Buffer],
         \A b \in DOMAIN buffers :
           /\ buffers'[b].pool = buffers[b].pool /\ buffers'[b].slot = buffers[b].slot
           /\ buffers'[b].generation = buffers[b].generation
           /\ buffers[b].state = RECYCLED => buffers'[b].state = RECYCLED,
         DOMAIN outputs' \subseteq DOMAIN outputs,
         \A o \in DOMAIN outputs' : /\ DOMAIN outputs'[o] = DOMAIN outputs[o]
                                    /\ outputs'[o].buffer = outputs[o].buffer
                                    /\ outputs'[o].generation = outputs[o].generation
                                    /\ outputs'[o].sample = outputs[o].sample
                                    /\ \A b \in DOMAIN buffers :
                                         LeaseOf(b) = Lease(outputs[o]) =>
                                           buffers'[b].state # WRITABLE,
         UNCHANGED <<next_host_id, pools, backing, next_output_id, wrote>>
  PROVE  PixelsInv'
  <1>1. DOMAIN buffers' = DOMAIN buffers
    OBVIOUS
  <1>2. TablesInv'
    BY <1>1 DEF PixelsInv, TablesInv
  <1>3. SlotsInv'
    BY <1>1 DEF PixelsInv, SlotsInv
  <1>4. \A o \in DOMAIN outputs' : Lease(outputs'[o]) = Lease(outputs[o])
    BY DEF Lease
  <1>5. \A b \in DOMAIN buffers : LeaseOf(b)' = LeaseOf(b)
    BY DEF LeaseOf
  <1>6. LeasesInv'
    <2>1. ASSUME NEW o \in DOMAIN outputs', outputs[o].buffer \in DOMAIN buffers
          PROVE  LET c == outputs[o].buffer
                 IN  \/ outputs[o].generation < buffers'[c].generation
                     \/ /\ outputs[o].generation = buffers'[c].generation
                        /\ buffers'[c].state # WRITABLE
      BY <2>1, ZenonT(60) DEF PixelsInv, LeasesInv, LeaseOf, Lease
    <2>2. \A b \in DOMAIN buffers' : LeaseOf(b)' \in DOMAIN wrote'
      BY <1>1, <1>5 DEF PixelsInv, LeasesInv
    <2>3. \A o, q \in DOMAIN outputs' : Lease(outputs'[o]) = Lease(outputs'[q]) => o = q
      BY <1>4 DEF PixelsInv, LeasesInv
    <2>4. \A o \in DOMAIN outputs' :
            /\ o \in Nat /\ o < next_output_id' /\ DOMAIN outputs'[o] = OutputFields
            /\ outputs'[o].buffer \in Nat /\ outputs'[o].buffer < next_host_id'
            /\ outputs'[o].generation \in Nat
            /\ Lease(outputs'[o]) \in DOMAIN wrote'
      BY <1>4 DEF PixelsInv, LeasesInv
    <2> QED
      BY <1>1, <2>1, <2>2, <2>3, <2>4 DEF LeasesInv
  <1>7. PixelsOfTheLease'
    BY <1>1, <1>4, <1>5 DEF PixelsInv, PixelsOfTheLease
  <1> QED
    BY <1>2, <1>3, <1>6, <1>7 DEF PixelsInv

LEMMA PixelsRecycle ==
  ASSUME PixelsInv, NEW p, NEW b \in DOMAIN buffers, NEW g, RecycleBuffer(p, b, g)
  PROVE  PixelsInv'
  <1>1. /\ buffers' = [buffers EXCEPT ![b].state = RECYCLED]
        /\ UNCHANGED <<next_host_id, pools, backing, outputs, next_output_id, wrote>>
    BY DEF RecycleBuffer, outVars
  <1>2. \A c \in DOMAIN buffers : buffers[c] \in Buffer
    BY DEF PixelsInv, TablesInv
  <1>3. /\ buffers' \in [DOMAIN buffers -> Buffer]
        /\ \A c \in DOMAIN buffers :
             /\ buffers'[c].pool = buffers[c].pool /\ buffers'[c].slot = buffers[c].slot
             /\ buffers'[c].generation = buffers[c].generation
             /\ buffers'[c].state = IF c = b THEN RECYCLED ELSE buffers[c].state
    BY <1>1, <1>2 DEF PixelsInv, TablesInv, Buffer
  <1>4. ASSUME NEW o \in DOMAIN outputs, NEW c \in DOMAIN buffers,
               LeaseOf(c) = Lease(outputs[o])
        PROVE  buffers'[c].state # WRITABLE
    <2>1. c = outputs[o].buffer /\ buffers[c].generation = outputs[o].generation
      BY <1>4 DEF LeaseOf, Lease
    <2>2. buffers[c].state # WRITABLE
      BY <1>2, <2>1 DEF PixelsInv, LeasesInv, Buffer
    <2> QED
      BY <1>3, <2>2 DEF RECYCLED, WRITABLE
  <1> QED
    BY <1>1, <1>3, <1>4, PixelsStates

LEMMA PixelsDequeue ==
  ASSUME PixelsInv, NEW s, NEW max, DequeueOutputs(s, max)
  PROVE  PixelsInv'
  <1>1. UNCHANGED <<next_host_id, pools, backing, buffers, next_output_id, wrote>>
    BY DEF DequeueOutputs, poolVars
  <1>2. DOMAIN outputs' = DOMAIN outputs
    BY DEF DequeueOutputs
  <1>3. \A o \in DOMAIN outputs : \/ outputs'[o] = outputs[o]
                                  \/ outputs'[o] = [outputs[o] EXCEPT !.dequeued = TRUE]
    BY DEF DequeueOutputs
  <1>4. \A o \in DOMAIN outputs : /\ DOMAIN outputs'[o] = DOMAIN outputs[o]
                                  /\ outputs'[o].buffer = outputs[o].buffer
                                  /\ outputs'[o].generation = outputs[o].generation
                                  /\ outputs'[o].sample = outputs[o].sample
    <2>1. \A o \in DOMAIN outputs : DOMAIN outputs[o] = OutputFields
      BY DEF PixelsInv, LeasesInv
    <2> QED
      BY <1>3, <2>1, ZenonT(60) DEF OutputFields
  <1>5. ASSUME NEW o \in DOMAIN outputs, NEW c \in DOMAIN buffers,
               LeaseOf(c) = Lease(outputs[o])
        PROVE  buffers[c].state # WRITABLE
    <2>1. c = outputs[o].buffer /\ buffers[c].generation = outputs[o].generation
      BY <1>5 DEF LeaseOf, Lease
    <2>2. buffers[c].generation \in Nat
      BY DEF PixelsInv, TablesInv, Buffer
    <2> QED
      BY <2>1, <2>2 DEF PixelsInv, LeasesInv
  <1> QED
    BY <1>1, <1>2, <1>4, <1>5, PixelsStates DEF PixelsInv, TablesInv

LEMMA PixelsRelease ==
  ASSUME PixelsInv, NEW o \in DOMAIN outputs, ReleaseOutput(o)
  PROVE  PixelsInv'
  <1>1. /\ buffers' = [b \in DOMAIN buffers |->
                         IF b \in Source(o) THEN [buffers[b] EXCEPT !.state = WRITABLE]
                                            ELSE buffers[b]]
        /\ outputs' = Without(outputs, {o})
        /\ UNCHANGED <<next_host_id, pools, backing, next_output_id, wrote>>
    BY DEF ReleaseOutput
  <1>2. /\ DOMAIN outputs' = DOMAIN outputs \ {o}
        /\ \A q \in DOMAIN outputs' : outputs'[q] = outputs[q]
    BY <1>1 DEF Without
  <1>3. \A b \in DOMAIN buffers : buffers[b] \in Buffer
    BY DEF PixelsInv, TablesInv
  <1>4. \A b \in Source(o) : LeaseOf(b) = Lease(outputs[o]) /\ buffers[b].state = QUEUED
    BY DEF Source
  <1>5. /\ buffers' \in [DOMAIN buffers -> Buffer]
        /\ \A b \in DOMAIN buffers :
             /\ buffers'[b].pool = buffers[b].pool /\ buffers'[b].slot = buffers[b].slot
             /\ buffers'[b].generation = buffers[b].generation
             /\ buffers'[b].state = IF b \in Source(o) THEN WRITABLE ELSE buffers[b].state
    BY <1>1, <1>3 DEF Buffer
  <1>6. ASSUME NEW q \in DOMAIN outputs', NEW b \in DOMAIN buffers,
               LeaseOf(b) = Lease(outputs[q])
        PROVE  buffers'[b].state # WRITABLE
    <2>1. b \notin Source(o)
      BY <1>2, <1>4, <1>6 DEF PixelsInv, LeasesInv
    <2>2. b = outputs[q].buffer /\ buffers[b].generation = outputs[q].generation
      BY <1>6 DEF LeaseOf, Lease
    <2>3. buffers[b].state # WRITABLE
      BY <1>2, <1>3, <2>2 DEF PixelsInv, LeasesInv, Buffer
    <2> QED
      BY <1>5, <2>1, <2>3
  <1>7. \A b \in DOMAIN buffers : buffers[b].state = RECYCLED => buffers'[b].state = RECYCLED
    BY <1>4, <1>5 DEF RECYCLED, QUEUED
  <1> QED
    BY <1>1, <1>2, <1>5, <1>6, <1>7, PixelsStates, Zenon

LEMMA PixelsEncode ==
  ASSUME PixelsInv, NEW s, NEW b \in DOMAIN buffers, NEW g, EncodeFrame(s, b, g)
  PROVE  PixelsInv'
  <1> DEFINE id == next_output_id
             sample == backing[buffers[b].pool][buffers[b].slot]
             out == [session |-> s, buffer |-> b, generation |-> g,
                     sample |-> sample, dequeued |-> FALSE]
  <1>1. /\ buffers[b].generation = g /\ buffers[b].state = WRITABLE
        /\ outputs' = Put(outputs, id, out)
        /\ next_output_id' = id + 1
        /\ buffers' = [buffers EXCEPT ![b].state = QUEUED]
        /\ UNCHANGED <<next_host_id, pools, backing, wrote>>
    BY DEF EncodeFrame
  <1>2. /\ \A c \in DOMAIN buffers : buffers[c] \in Buffer
        /\ id \in Nat /\ id \notin DOMAIN outputs
        /\ b \in Nat /\ b < next_host_id
    BY DEF PixelsInv, TablesInv, LeasesInv
  <1>3. g \in Nat
    BY <1>1, <1>2 DEF Buffer
  <1>4. /\ DOMAIN outputs' = DOMAIN outputs \cup {id}
        /\ outputs'[id] = out
        /\ \A o \in DOMAIN outputs : outputs'[o] = outputs[o]
    BY <1>1, <1>2 DEF Put
  <1>5. DOMAIN outputs'[id] = OutputFields /\ outputs'[id].buffer = b
        /\ outputs'[id].generation = g /\ outputs'[id].sample = sample
    BY <1>4 DEF OutputFields
  <1> HIDE DEF id, out, sample
  <1>6. /\ buffers' \in [DOMAIN buffers -> Buffer]
        /\ DOMAIN buffers' = DOMAIN buffers
        /\ \A c \in DOMAIN buffers :
             /\ buffers'[c].pool = buffers[c].pool /\ buffers'[c].slot = buffers[c].slot
             /\ buffers'[c].generation = buffers[c].generation
             /\ buffers'[c].state = IF c = b THEN QUEUED ELSE buffers[c].state
    BY <1>1, <1>2 DEF PixelsInv, TablesInv, Buffer
  <1>7. TablesInv'
    BY <1>1, <1>2, <1>6 DEF PixelsInv, TablesInv, id
  <1>8. SlotsInv'
    BY <1>1, <1>6 DEF PixelsInv, SlotsInv
  <1>9. \A c \in DOMAIN buffers : LeaseOf(c)' = LeaseOf(c)
    BY <1>6 DEF LeaseOf
  <1>10. LeaseOf(b) = <<b, g>> /\ Lease(outputs'[id]) = <<b, g>> /\ <<b, g>> \in DOMAIN wrote
    BY <1>1, <1>5 DEF LeaseOf, Lease, PixelsInv, LeasesInv
  <1>11. \A o \in DOMAIN outputs : Lease(outputs[o]) # <<b, g>>
    <2> SUFFICES ASSUME NEW o \in DOMAIN outputs, outputs[o].buffer = b,
                        outputs[o].generation = g
                 PROVE  FALSE
      BY DEF Lease
    <2> QED
      BY <1>1, <1>3 DEF PixelsInv, LeasesInv
  <1>12. LeasesInv'
    <2>1. \A c \in DOMAIN buffers' : LeaseOf(c)' \in DOMAIN wrote'
      BY <1>1, <1>6, <1>9 DEF PixelsInv, LeasesInv
    <2>2. \A o, q \in DOMAIN outputs' : Lease(outputs'[o]) = Lease(outputs'[q]) => o = q
      BY <1>4, <1>10, <1>11 DEF PixelsInv, LeasesInv
    <2>3. ASSUME NEW o \in DOMAIN outputs'
          PROVE  LET w == outputs'[o]
                 IN  /\ o \in Nat /\ o < next_output_id' /\ DOMAIN w = OutputFields
                     /\ w.buffer \in Nat /\ w.buffer < next_host_id' /\ w.generation \in Nat
                     /\ Lease(w) \in DOMAIN wrote'
                     /\ w.buffer \in DOMAIN buffers' =>
                          \/ w.generation < buffers'[w.buffer].generation
                          \/ /\ w.generation = buffers'[w.buffer].generation
                             /\ buffers'[w.buffer].state # WRITABLE
      <3>1. CASE o = id
        <4>1. buffers'[b].generation = g /\ buffers'[b].state = QUEUED
          BY <1>1, <1>6, Zenon
        <4> QED
          BY <1>1, <1>2, <1>3, <1>5, <1>10, <3>1, <4>1 DEF id, QUEUED, WRITABLE
      <3>2. CASE o \in DOMAIN outputs
        <4>1. \/ outputs[o].buffer \notin DOMAIN buffers
              \/ buffers'[outputs[o].buffer].state = WRITABLE
                => buffers[outputs[o].buffer].state = WRITABLE
          BY <1>6 DEF QUEUED, WRITABLE
        <4>2. outputs'[o] = outputs[o]
          BY <1>4, <3>2
        <4> QED
          BY <1>1, <1>2, <1>6, <3>2, <4>1, <4>2 DEF PixelsInv, LeasesInv, id
      <3> QED
        BY <1>4, <3>1, <3>2
    <2> QED
      BY <2>1, <2>2, <2>3 DEF LeasesInv
  <1>13. PixelsOfTheLease'
    <2>1. sample = wrote[<<b, g>>]
      BY <1>1, <1>10 DEF PixelsInv, PixelsOfTheLease, sample, RECYCLED, WRITABLE
    <2>2. \A c \in DOMAIN buffers' : buffers'[c].state # RECYCLED => buffers[c].state # RECYCLED
      BY <1>1, <1>6 DEF RECYCLED, WRITABLE
    <2>3. \A c \in DOMAIN buffers' : buffers'[c].state # RECYCLED =>
            backing'[buffers'[c].pool][buffers'[c].slot] = wrote'[LeaseOf(c)']
      BY <1>1, <1>6, <1>9, <2>2 DEF PixelsInv, PixelsOfTheLease
    <2>4. \A o \in DOMAIN outputs' : outputs'[o].sample = wrote'[Lease(outputs'[o])]
      BY <1>1, <1>4, <1>5, <1>10, <2>1 DEF PixelsInv, PixelsOfTheLease
    <2> QED
      BY <2>3, <2>4 DEF PixelsOfTheLease
  <1> QED
    BY <1>7, <1>8, <1>12, <1>13 DEF PixelsInv

LEMMA PixelsStep == PixelsInv /\ [Next]_vars => PixelsInv'
  <1> SUFFICES ASSUME PixelsInv, [Next]_vars PROVE PixelsInv'
    OBVIOUS
  <1>1. next_host_id \in Nat
    BY DEF PixelsInv, TablesInv
  <1>2. CASE CreateSession
    BY <1>1, <1>2, PixelsKept DEF CreateSession
  <1>3. ASSUME NEW s \in sessions, PrepareSession(s) \/ DestroySession(s) PROVE PixelsInv'
    BY <1>1, <1>3, PixelsKept, PixelsDestroy DEF PrepareSession
  <1>4. ASSUME NEW s \in 0 .. MaxHostId, NEW r \in 0 .. 1, CreateBufferPool(s, r)
        PROVE  PixelsInv'
    BY <1>4, PixelsCreatePool
  <1>5. ASSUME NEW p \in DOMAIN pools, AllocBuffer(p) PROVE PixelsInv'
    <2>1. Recyclable(p) \subseteq Nat
      BY DEF Recyclable, PixelsInv, TablesInv
    <2>2. UNCHANGED outVars
      BY <1>5 DEF AllocBuffer
    <2>3. CASE Recyclable(p) # {}
      <3>1. Min(Recyclable(p)) \in Recyclable(p)
        BY <2>1, <2>3, MinIsMember
      <3>2. Reuse(p, Min(Recyclable(p)))
        BY <1>5, <2>3 DEF AllocBuffer
      <3> QED
        BY <2>2, <3>1, <3>2, PixelsReuse
    <2>4. CASE Recyclable(p) = {}
      BY <1>5, <2>2, <2>4, PixelsCarve DEF AllocBuffer
    <2> QED
      BY <2>3, <2>4
  <1>6. ASSUME NEW b \in DOMAIN buffers, NEW g \in Generations,
               \/ \E pixels \in Pixels : WriteBuffer(b, g, pixels)
               \/ \E p \in DOMAIN pools : RecycleBuffer(p, b, g)
               \/ \E s \in sessions : EncodeFrame(s, b, g)
        PROVE  PixelsInv'
    BY <1>6, PixelsWrite, PixelsRecycle, PixelsEncode
  <1>7. ASSUME NEW s, NEW max, DequeueOutputs(s, max) PROVE PixelsInv'
    BY <1>7, PixelsDequeue
  <1>8. ASSUME NEW o \in DOMAIN outputs, ReleaseOutput(o) PROVE PixelsInv'
    BY <1>8, PixelsRelease
  <1>9. CASE UNCHANGED vars
    BY <1>1, <1>9, PixelsKept DEF vars
  <1> QED
    BY <1>2, <1>3, <1>4, <1>5, <1>6, <1>7, <1>8, <1>9 DEF Next

(***************************************************************************)
(* A slot holds, and an output was made from, what the client last wrote    *)
(* under the lease, whatever it requests in whatever order.                 *)
(***************************************************************************)
THEOREM PixelsStay == Spec => []PixelsOfTheLease
  <1>1. PixelsInv => PixelsOfTheLease
    BY DEF PixelsInv
  <1> QED
    BY <1>1, PixelsInit, PixelsStep, PTL DEF Spec
-----------------------------------------------------------------------------
(* The refinement.  What the mapping needs besides PixelsInv: the bounds,   *)
(* and that every lease issued is of an earlier id, or of a buffer that has *)
(* reached its generation.                                                  *)
IssuedInv ==
  \A l \in DOMAIN wrote :
    /\ l \in Nat \X Nat /\ l[1] < next_host_id
    /\ l[1] \in DOMAIN buffers => l[2] <= buffers[l[1]].generation

BoundInv ==
  /\ next_host_id \in 1 .. MaxHostId + 1
  /\ next_output_id \in 1 .. MaxOutputs + 1
  /\ sessions \subseteq 1 .. MaxHostId
  /\ DOMAIN buffers \subseteq 1 .. MaxHostId

RefinementInv == BudgetInv /\ PixelsInv /\ IssuedInv /\ BoundInv

LEMMA ReadyIs ==
  ASSUME NEW s \in 1 .. MaxHostId
  PROVE  /\ ReadyBySession[s] = ReadyOutputs(s) /\ DOMAIN ReadyOutputs(s) = Waiting(s)
         /\ \A o \in Waiting(s) : ReadyOutputs(s)[o] = Lease(outputs[o])
  BY DEF ReadyBySession, ReadyOutputs

(* A step that changes the outputs of one session.                          *)
LEMMA ReadyUpdate ==
  ASSUME NEW s \in 1 .. MaxHostId, NEW F, ReadyOutputs(s)' = F,
         \A t \in 1 .. MaxHostId : t # s => ReadyOutputs(t)' = ReadyOutputs(t)
  PROVE  ReadyBySession' = [ReadyBySession EXCEPT ![s] = F]
  BY Zenon DEF ReadyBySession

LEMMA ReadySame ==
  ASSUME outputs' = outputs
  PROVE  ReadyBySession' = ReadyBySession
  BY DEF ReadyBySession, ReadyOutputs, Waiting, SessionOutputs, Lease

(* Outputs that are taken away leave the others waiting as they were.       *)
LEMMA ReadyWithout ==
  ASSUME NEW S, outputs' = Without(outputs, S)
  PROVE  \A s \in 1 .. MaxHostId :
           ReadyOutputs(s)' = Encoder!Only(ReadyBySession[s], Waiting(s) \ S)
  <1> SUFFICES ASSUME NEW s \in 1 .. MaxHostId
               PROVE  ReadyOutputs(s)' = Encoder!Only(ReadyBySession[s], Waiting(s) \ S)
    OBVIOUS
  <1>1. /\ DOMAIN outputs' = DOMAIN outputs \ S
        /\ \A o \in DOMAIN outputs \ S : outputs'[o] = outputs[o]
    BY WithoutEffect, Zenon
  <1>2. Waiting(s)' = Waiting(s) \ S
    BY <1>1 DEF Waiting, SessionOutputs
  <1>3. Waiting(s) \subseteq DOMAIN outputs
    BY DEF Waiting, SessionOutputs
  <1>4. \A o \in Waiting(s) \ S : Lease(outputs'[o]) = ReadyBySession[s][o]
    BY <1>1, <1>3, ReadyIs
  <1>5. ReadyOutputs(s)' = [o \in Waiting(s) \ S |-> Lease(outputs'[o])]
    BY <1>2 DEF ReadyOutputs
  <1> QED
    BY <1>4, <1>5, Zenon DEF Encoder!Only

(* A step that takes leases and outputs away, or does nothing.              *)
LEMMA DiscardStep ==
  ASSUME NEW S, outputs' = Without(outputs, S) \/ outputs' = outputs,
         DOMAIN wrote' = DOMAIN wrote, given' = given, HeldLeases' \subseteq HeldLeases
  PROVE  Encoder!Discard
  <1>1. ReadyBySession' = [s \in 1 .. MaxHostId |-> ReadyBySession'[s]]
    BY DEF ReadyBySession
  <1>2. ASSUME NEW s \in 1 .. MaxHostId
        PROVE  \E T \in SUBSET DOMAIN ReadyBySession[s] :
                 ReadyBySession'[s] = Encoder!Only(ReadyBySession[s], T)
    <2>1. CASE outputs' = outputs
      <3>1. ReadyBySession'[s] = Encoder!Only(ReadyBySession[s], DOMAIN ReadyBySession[s])
        BY <2>1, ReadySame, ReadyIs, Zenon DEF Encoder!Only, ReadyOutputs
      <3> QED
        BY <3>1, Zenon
    <2>2. CASE outputs' = Without(outputs, S)
      <3>1. ReadyBySession'[s] = ReadyOutputs(s)'
        BY DEF ReadyBySession
      <3>2. ReadyBySession'[s] = Encoder!Only(ReadyBySession[s], Waiting(s) \ S)
        BY <2>2, <3>1, ReadyWithout, Zenon
      <3>3. Waiting(s) \ S \in SUBSET DOMAIN ReadyBySession[s]
        BY ReadyIs, Zenon
      <3> QED
        BY <3>2, <3>3, Zenon
    <2> QED
      BY <2>1, <2>2
  <1> QED
    BY <1>1, <1>2, Zenon DEF Encoder!Discard, ReadyBySession

(* OP_ALLOC_BUFFER hands out a lease that was never handed out before.      *)
LEMMA AllocLeases ==
  ASSUME RefinementInv, NEW p \in DOMAIN pools, AllocBuffer(p)
  PROVE  Encoder!Next
  <1>1. outputs' = outputs /\ given' = given
    BY DEF AllocBuffer, outVars
  <1>2. ASSUME NEW l \in ((1 .. MaxHostId) \X Generations) \ DOMAIN wrote,
               DOMAIN wrote' = DOMAIN wrote \cup {l}, HeldLeases' = HeldLeases \cup {l}
        PROVE  Encoder!Next
    <2>1. Encoder!Lease(l)
      BY <1>1, <1>2, ReadySame, Zenon DEF Encoder!Lease, ReadyBySession
    <2> QED
      BY <2>1, Zenon DEF Encoder!Next
  <1>3. /\ next_host_id \in Nat /\ MaxHostId \in Nat /\ MaxGeneration \in Nat \ {0}
        /\ buffers \in [DOMAIN buffers -> Buffer]
    BY MockAssumption DEF RefinementInv, PixelsInv, TablesInv
  <1>4. ASSUME NEW b \in Recyclable(p), Reuse(p, b) PROVE Encoder!Next
    <2> DEFINE g == buffers[b].generation + 1
               l == <<b, g>>
    <2>1. b \in DOMAIN buffers /\ buffers[b].state = RECYCLED /\ buffers[b] \in Buffer
      BY <1>3 DEF Recyclable
    <2>2. /\ buffers[b].generation \in Nat /\ g \in Generations
          /\ DOMAIN wrote' = DOMAIN wrote \cup {l}
          /\ DOMAIN buffers' = DOMAIN buffers
          /\ buffers'[b].generation = g /\ buffers'[b].state = WRITABLE
          /\ \A x \in DOMAIN buffers : x # b => buffers'[x] = buffers[x]
      <3>1. buffers[b].generation \in Nat /\ g \in Generations
        BY <1>3, <1>4, <2>1 DEF Reuse, Buffer, Generations
      <3>2. DOMAIN wrote' = DOMAIN wrote \cup {l}
        BY <1>4, PutEffect, Zenon DEF Reuse
      <3>3. /\ DOMAIN buffers' = DOMAIN buffers
            /\ buffers'[b].generation = g /\ buffers'[b].state = WRITABLE
            /\ \A x \in DOMAIN buffers : x # b => buffers'[x] = buffers[x]
        BY <1>4, <2>1, ZenonT(60) DEF Reuse, Buffer
      <3> QED
        BY <3>1, <3>2, <3>3
    <2>3. l \in (1 .. MaxHostId) \X Generations
      BY <2>1, <2>2 DEF RefinementInv, BoundInv
    <2>4. l \notin DOMAIN wrote
      <3> SUFFICES ASSUME l \in DOMAIN wrote PROVE FALSE
        OBVIOUS
      <3>1. g <= buffers[b].generation
        BY <2>1 DEF RefinementInv, IssuedInv
      <3> QED
        BY <2>2, <3>1
    <2>5. HeldLeases' = HeldLeases \cup {l}
      BY <2>1, <2>2 DEF HeldLeases, LeaseOf, WRITABLE, RECYCLED
    <2> HIDE DEF l
    <2> QED
      BY <1>2, <2>2, <2>3, <2>4, <2>5, Zenon
  <1>5. CASE Carve(p)
    <2> DEFINE b == next_host_id
               l == <<b, 1>>
    <2>1. b \notin DOMAIN buffers /\ b <= MaxHostId /\ b \in Nat /\ b >= 1
      BY <1>3, <1>5 DEF RefinementInv, PixelsInv, TablesInv, Carve, BoundInv
    <2>2. /\ DOMAIN wrote' = DOMAIN wrote \cup {l}
          /\ DOMAIN buffers' = DOMAIN buffers \cup {b}
          /\ buffers'[b].generation = 1 /\ buffers'[b].state = WRITABLE
          /\ \A x \in DOMAIN buffers : buffers'[x] = buffers[x]
      BY <1>5, <2>1 DEF Carve, Put
    <2>3. l \in (1 .. MaxHostId) \X Generations
      BY <1>3, <2>1 DEF Generations
    <2>4. l \notin DOMAIN wrote
      BY <1>3 DEF RefinementInv, IssuedInv
    <2>5. HeldLeases' = HeldLeases \cup {l}
      BY <2>1, <2>2 DEF HeldLeases, LeaseOf
    <2> HIDE DEF l
    <2> QED
      BY <1>2, <2>2, <2>3, <2>4, <2>5, Zenon
  <1>6. Recyclable(p) # {} => Min(Recyclable(p)) \in Recyclable(p)
    <2>1. Recyclable(p) \in SUBSET Nat
      BY DEF Recyclable, RefinementInv, PixelsInv, TablesInv
    <2> QED
      BY <2>1, MinIsMember
  <1> QED
    BY <1>4, <1>5, <1>6, Zenon DEF AllocBuffer

(* OP_ENCODE_FRAME ends the client's hold and queues the output last.       *)
LEMMA EncodeEncodes ==
  ASSUME RefinementInv, NEW s \in sessions, NEW b \in DOMAIN buffers, NEW g,
         EncodeFrame(s, b, g)
  PROVE  Encoder!Next
  <1> DEFINE l == <<b, g>>
             o == next_output_id
             out == [session |-> s, buffer |-> b, generation |-> g,
                     sample |-> backing[buffers[b].pool][buffers[b].slot], dequeued |-> FALSE]
  <1>1. /\ buffers[b].generation = g /\ buffers[b].state = WRITABLE
        /\ outputs' = Put(outputs, o, out)
        /\ buffers' = [buffers EXCEPT ![b].state = QUEUED]
        /\ wrote' = wrote /\ given' = given
    BY DEF EncodeFrame
  <1>2. s \in 1 .. MaxHostId /\ o \in 1 .. MaxOutputs
    BY MockAssumption DEF RefinementInv, BoundInv, EncodeFrame
  <1>3. \A u \in DOMAIN outputs : u \in Nat /\ u < o
    BY DEF RefinementInv, BudgetInv
  <1>4. l \in HeldLeases
    BY <1>1 DEF HeldLeases, LeaseOf
  <1>5. HeldLeases' = HeldLeases \ {l}
    <2>1. buffers \in [DOMAIN buffers -> Buffer]
      BY DEF RefinementInv, PixelsInv, TablesInv
    <2>2. /\ DOMAIN buffers' = DOMAIN buffers /\ buffers'[b].state = QUEUED
          /\ \A x \in DOMAIN buffers : x # b => buffers'[x] = buffers[x]
      BY <1>1, <2>1 DEF Buffer
    <2> QED
      BY <1>1, <2>2 DEF HeldLeases, LeaseOf, WRITABLE, QUEUED
  <1>6. /\ out.session = s /\ Lease(out) = l /\ ~ out.dequeued
    BY DEF Lease
  <1> HIDE DEF out
  <1>7. /\ DOMAIN outputs' = DOMAIN outputs \cup {o} /\ outputs'[o] = out
        /\ \A u \in DOMAIN outputs : outputs'[u] = outputs[u]
        /\ o \notin DOMAIN outputs
    <2>1. o \notin DOMAIN outputs
      BY <1>3
    <2>2. /\ DOMAIN Put(outputs, o, out) = DOMAIN outputs \cup {o}
          /\ Put(outputs, o, out)[o] = out
          /\ \A u \in DOMAIN outputs : u # o => Put(outputs, o, out)[u] = outputs[u]
      BY DEF Put
    <2> HIDE DEF o
    <2> QED
      BY <1>1, <2>1, <2>2
  <1>8. /\ Waiting(s)' = Waiting(s) \cup {o}
        /\ \A t \in 1 .. MaxHostId : t # s => Waiting(t)' = Waiting(t)
        /\ \A t : Waiting(t) \subseteq DOMAIN outputs
    BY <1>6, <1>7, ZenonT(60) DEF Waiting, SessionOutputs
  <1>9. \A t \in 1 .. MaxHostId : t # s => ReadyOutputs(t)' = ReadyOutputs(t)
    BY <1>7, <1>8 DEF ReadyOutputs
  <1>10. ReadyOutputs(s)' = Encoder!Queued(ReadyBySession[s], o, l)
    <2>1. ReadyOutputs(s)' = [u \in Waiting(s) \cup {o} |-> Lease(outputs'[u])]
      BY <1>8, Zenon DEF ReadyOutputs
    <2>2. \A u \in Waiting(s) \cup {o} :
            Lease(outputs'[u]) = IF u = o THEN l ELSE ReadyBySession[s][u]
      <3>1. o \notin Waiting(s) /\ Lease(outputs'[o]) = l
        BY <1>6, <1>7, <1>8
      <3>2. \A u \in Waiting(s) : Lease(outputs'[u]) = ReadyBySession[s][u]
        BY <1>2, <1>7, <1>8, ReadyIs
      <3> HIDE DEF o, l
      <3> QED
        BY <3>1, <3>2
    <2>3. DOMAIN ReadyBySession[s] = Waiting(s)
      BY <1>2, ReadyIs, Zenon
    <2> HIDE DEF o, l
    <2> QED
      BY <2>1, <2>2, <2>3, Zenon DEF Encoder!Queued
  <1>11. ReadyBySession' = [ReadyBySession EXCEPT ![s] = Encoder!Queued(ReadyBySession[s], o, l)]
    BY <1>2, <1>9, <1>10, ReadyUpdate
  <1>12. Encoder!Last(ReadyBySession[s], o)
    BY <1>2, <1>3, <1>8, ReadyIs DEF Encoder!Last
  <1> HIDE DEF o, l
  <1>13. Encoder!Encode(s, l, o)
    BY <1>1, <1>5, <1>11, <1>12, Zenon DEF Encoder!Encode, ReadyBySession
  <1> QED
    BY <1>2, <1>4, <1>13, Zenon DEF Encoder!Next

(* The oldest outputs: with one of them, all that are older.                *)
LEMMA FirstIsClosed ==
  ASSUME BudgetInv, NEW s, NEW n \in Nat, NEW t \in First(s, n), NEW u \in Waiting(s), u < t
  PROVE  u \in First(s, n)
  <1> DEFINE A == {w \in Waiting(s) : w < u}
             B == {w \in Waiting(s) : w < t}
  <1>1. Waiting(s) \subseteq DOMAIN outputs
    BY DEF Waiting, SessionOutputs
  <1>2. \A w \in Waiting(s) : w \in Nat
    BY <1>1 DEF BudgetInv
  <1>3. t \in Waiting(s) /\ Cardinality(B) < n
    BY DEF First
  <1>4. A \subseteq B
    BY <1>2, <1>3
  <1>5. IsFiniteSet(B)
    <2>1. B \subseteq DOMAIN outputs
      BY <1>1
    <2> QED
      BY <2>1, FS_Subset DEF BudgetInv
  <1>6. IsFiniteSet(A) /\ Cardinality(A) <= Cardinality(B)
    BY <1>4, <1>5, FS_Subset
  <1>7. Cardinality(A) \in Nat /\ Cardinality(B) \in Nat
    BY <1>5, <1>6, FS_CardinalityType
  <1> HIDE DEF A, B
  <1>8. Cardinality(A) < n
    BY <1>3, <1>6, <1>7
  <1> QED
    BY <1>8 DEF First, A

(* A dequeue asks for at least one output.                                  *)
LEMMA BatchSize ==
  ASSUME NEW max \in Nat
  PROVE  Max({Min({max, MAX_OUTPUT_BATCH}), 1}) \in Nat
  <1> DEFINE m == Min({max, MAX_OUTPUT_BATCH})
  <1>1. m \in Nat
    <2>1. {max, MAX_OUTPUT_BATCH} \in SUBSET Nat
      BY MockAssumption
    <2> QED
      BY <2>1, MinIsMember
  <1> HIDE DEF m
  <1>2. \E x \in {m, 1} : \A y \in {m, 1} : x >= y
    BY <1>1
  <1>3. Max({m, 1}) \in {m, 1}
    BY <1>2 DEF Max
  <1> QED
    BY <1>1, <1>3 DEF m

(* A dequeue gives out the oldest outputs of its session.                   *)
LEMMA DequeueDelivers ==
  ASSUME RefinementInv, NEW s \in sessions, NEW max \in Nat, DequeueOutputs(s, max)
  PROVE  Encoder!Next
  <1> DEFINE n == Max({Min({max, MAX_OUTPUT_BATCH}), 1})
             T == First(s, n)
  <1>1. /\ outputs' = [o \in DOMAIN outputs |->
                         IF o \in T THEN [outputs[o] EXCEPT !.dequeued = TRUE] ELSE outputs[o]]
        /\ given' = given \cup {[session |-> s, lease |-> Lease(outputs[o])] : o \in T}
        /\ buffers' = buffers /\ wrote' = wrote
    BY DEF DequeueOutputs, poolVars
  <1>2. s \in 1 .. MaxHostId
    BY DEF RefinementInv, BoundInv
  <1>3. T \subseteq Waiting(s) /\ \A t : Waiting(t) \subseteq DOMAIN outputs
    BY DEF First, Waiting, SessionOutputs
  <1>4. \A t \in T, u \in Waiting(s) : u < t => u \in T
    BY BatchSize, FirstIsClosed DEF RefinementInv
  <1> HIDE DEF T
  <1>5. /\ DOMAIN outputs' = DOMAIN outputs
        /\ \A o \in DOMAIN outputs \ T : outputs'[o] = outputs[o]
        /\ \A o \in T : outputs'[o].dequeued
        /\ \A o \in T : outputs'[o].session = outputs[o].session
    <2>1. \A o \in DOMAIN outputs : DOMAIN outputs[o] = OutputFields
      BY DEF RefinementInv, PixelsInv, LeasesInv
    <2>2. \A o \in T : outputs'[o] = [outputs[o] EXCEPT !.dequeued = TRUE]
      BY <1>1, <1>3, Zenon
    <2> QED
      BY <1>1, <1>3, <2>1, <2>2 DEF OutputFields
  <1>6. /\ Waiting(s)' = Waiting(s) \ T
        /\ \A t \in 1 .. MaxHostId : t # s => Waiting(t)' = Waiting(t)
    <2>1. \A o \in T : outputs[o].session = s /\ ~ outputs[o].dequeued
      BY <1>3 DEF Waiting, SessionOutputs
    <2> QED
      BY <1>3, <1>5, <2>1, Zenon DEF Waiting, SessionOutputs
  <1>7. \A t \in 1 .. MaxHostId : t # s => ReadyOutputs(t)' = ReadyOutputs(t)
    <2> SUFFICES ASSUME NEW t \in 1 .. MaxHostId, t # s
                 PROVE  ReadyOutputs(t)' = ReadyOutputs(t)
      OBVIOUS
    <2>1. \A o \in Waiting(t) : o \in DOMAIN outputs \ T
      BY <1>3 DEF Waiting, SessionOutputs
    <2> QED
      BY <1>5, <1>6, <2>1 DEF ReadyOutputs
  <1>8. DOMAIN ReadyBySession[s] = Waiting(s)
    BY <1>2, ReadyIs, Zenon
  <1>9. ReadyOutputs(s)' =
          Encoder!Only(ReadyBySession[s], DOMAIN ReadyBySession[s] \ T)
    <2>1. ReadyOutputs(s)' = [o \in Waiting(s) \ T |-> Lease(outputs'[o])]
      BY <1>6, ZenonT(60) DEF ReadyOutputs
    <2>2. \A o \in Waiting(s) \ T : Lease(outputs'[o]) = ReadyBySession[s][o]
      BY <1>2, <1>3, <1>5, ReadyIs
    <2> QED
      BY <1>8, <2>1, <2>2, Zenon DEF Encoder!Only
  <1>10. ReadyBySession' =
           [ReadyBySession EXCEPT
              ![s] = Encoder!Only(ReadyBySession[s], DOMAIN ReadyBySession[s] \ T)]
    BY <1>2, <1>7, <1>9, ReadyUpdate
  <1>11. given' = given \cup {Encoder!Frame(s, ReadyBySession[s][t]) : t \in T}
    <2>1. \A t \in T : Encoder!Frame(s, ReadyBySession[s][t])
                         = [session |-> s, lease |-> Lease(outputs[t])]
      BY <1>2, <1>3, ReadyIs DEF Encoder!Frame
    <2> QED
      BY <1>1, <2>1, Zenon
  <1>12. HeldLeases' = HeldLeases
    BY <1>1 DEF HeldLeases, LeaseOf
  <1>13. Encoder!Deliver(s, T)
    BY <1>1, <1>4, <1>8, <1>10, <1>11, <1>12, Zenon DEF Encoder!Deliver
  <1> QED
    BY <1>2, <1>3, <1>8, <1>13, Zenon DEF Encoder!Next

(* OP_RELEASE_OUTPUT gives the lease back to the client if the slot is      *)
(* still queued under it, and drops the output.                             *)
LEMMA ReleaseReturns ==
  ASSUME RefinementInv, NEW o \in DOMAIN outputs, ReleaseOutput(o)
  PROVE  Encoder!Next
  <1> DEFINE l == Lease(outputs[o])
  <1>1. /\ DOMAIN buffers' = DOMAIN buffers
        /\ \A b \in Source(o) : buffers'[b] = [buffers[b] EXCEPT !.state = WRITABLE]
        /\ \A b \in DOMAIN buffers \ Source(o) : buffers'[b] = buffers[b]
        /\ outputs' = Without(outputs, {o})
        /\ wrote' = wrote /\ given' = given
    BY DEF ReleaseOutput, Source
  <1>2. CASE Source(o) = {}
    <2>1. HeldLeases' = HeldLeases
      BY <1>1, <1>2 DEF HeldLeases, LeaseOf
    <2>2. Encoder!Discard
      BY <1>1, <2>1, DiscardStep, Zenon
    <2> QED
      BY <2>2, Zenon DEF Encoder!Next
  <1>3. CASE Source(o) # {}
    <2>1. PICK b \in DOMAIN buffers : /\ b \in Source(o) /\ LeaseOf(b) = l
                                      /\ buffers[b].state = QUEUED
      BY <1>3 DEF Source
    <2>2. \A x \in Source(o) : x = b
      BY <2>1 DEF Source, LeaseOf
    <2>3. buffers[b] \in Buffer
      BY DEF RefinementInv, PixelsInv, TablesInv
    <2>4. /\ buffers'[b].state = WRITABLE /\ buffers'[b].generation = buffers[b].generation
          /\ \A x \in DOMAIN buffers : x # b => buffers'[x] = buffers[x]
      BY <1>1, <2>1, <2>2, <2>3, Zenon DEF Buffer
    <2>5. HeldLeases' = HeldLeases \cup {l}
      BY <1>1, <2>1, <2>4 DEF HeldLeases, LeaseOf
    <2>6. l \notin HeldLeases
      BY <2>1 DEF HeldLeases, LeaseOf, WRITABLE, QUEUED
    <2>7. l \in DOMAIN wrote
      BY DEF RefinementInv, PixelsInv, LeasesInv
    <2>8. ASSUME NEW s \in 1 .. MaxHostId
          PROVE  ReadyOutputs(s)' =
                   Encoder!Only(ReadyBySession[s],
                     {t \in DOMAIN ReadyBySession[s] : ReadyBySession[s][t] # l})
      <3>1. \A t \in Waiting(s) : Lease(outputs[t]) = l <=> t = o
        BY DEF RefinementInv, PixelsInv, LeasesInv, Waiting, SessionOutputs
      <3>2. {t \in DOMAIN ReadyBySession[s] : ReadyBySession[s][t] # l} = Waiting(s) \ {o}
        BY <3>1, ReadyIs, ZenonT(60)
      <3> QED
        BY <1>1, <3>2, ReadyWithout, ZenonT(60)
    <2> HIDE DEF l
    <2>9. ReadyBySession' =
            [s \in 1 .. MaxHostId |->
               Encoder!Only(ReadyBySession[s],
                 {t \in DOMAIN ReadyBySession[s] : ReadyBySession[s][t] # l})]
      BY <2>8, Zenon DEF ReadyBySession
    <2>10. Encoder!Return(l)
      BY <1>1, <2>5, <2>9, Zenon DEF Encoder!Return
    <2> QED
      BY <2>6, <2>7, <2>10, Zenon DEF Encoder!Next
  <1> QED
    BY <1>2, <1>3

(* The bounds hold, and so does what is said of the leases issued.          *)
LEMMA BoundStep == PixelsInv /\ BoundInv /\ [Next]_vars => BoundInv'
  <1> SUFFICES ASSUME PixelsInv, BoundInv, [Next]_vars PROVE BoundInv'
    OBVIOUS
  <1>0. /\ next_host_id \in Nat /\ next_output_id \in Nat /\ MaxHostId \in Nat
        /\ MaxOutputs \in Nat
    BY MockAssumption DEF PixelsInv, TablesInv
  <1> USE DEF BoundInv, poolVars, outVars
  <1>1. ASSUME UNCHANGED <<next_host_id, next_output_id>>, sessions' \subseteq sessions,
               DOMAIN buffers' \subseteq DOMAIN buffers
        PROVE  BoundInv'
    BY <1>1
  <1>2. CASE CreateSession
    BY <1>0, <1>2 DEF CreateSession
  <1>3. ASSUME NEW s \in sessions, PrepareSession(s) PROVE BoundInv'
    BY <1>1, <1>3 DEF PrepareSession
  <1>4. ASSUME NEW s \in sessions, DestroySession(s) PROVE BoundInv'
    BY <1>1, <1>4, WithoutEffect, ZenonT(60) DEF DestroySession
  <1>5. ASSUME NEW s, NEW requested, CreateBufferPool(s, requested) PROVE BoundInv'
    BY <1>0, <1>5 DEF CreateBufferPool
  <1>6. ASSUME NEW p \in DOMAIN pools, AllocBuffer(p) PROVE BoundInv'
    <2>1. CASE Carve(p)
      <3>1. DOMAIN buffers' = DOMAIN buffers \cup {next_host_id}
        BY <2>1, PutEffect, Zenon DEF Carve
      <3> QED
        BY <1>0, <1>6, <2>1, <3>1 DEF Carve, AllocBuffer
    <2>2. ASSUME NEW b, Reuse(p, b) PROVE BoundInv'
      BY <1>1, <1>6, <2>2 DEF Reuse, AllocBuffer
    <2> QED
      BY <1>6, <2>1, <2>2, Zenon DEF AllocBuffer
  <1>7. ASSUME NEW b \in DOMAIN buffers, NEW g, NEW pixels, WriteBuffer(b, g, pixels)
        PROVE  BoundInv'
    BY <1>1, <1>7 DEF WriteBuffer
  <1>8. ASSUME NEW p, NEW b \in DOMAIN buffers, NEW g, RecycleBuffer(p, b, g) PROVE BoundInv'
    BY <1>1, <1>8 DEF RecycleBuffer
  <1>9. ASSUME NEW s, NEW b \in DOMAIN buffers, NEW g, EncodeFrame(s, b, g) PROVE BoundInv'
    BY <1>0, <1>9 DEF EncodeFrame
  <1>10. ASSUME NEW s, NEW max, DequeueOutputs(s, max) PROVE BoundInv'
    BY <1>1, <1>10 DEF DequeueOutputs
  <1>11. ASSUME NEW o \in DOMAIN outputs, ReleaseOutput(o) PROVE BoundInv'
    BY <1>1, <1>11 DEF ReleaseOutput
  <1>12. CASE UNCHANGED vars
    BY <1>1, <1>12 DEF vars
  <1> QED
    BY <1>2, <1>3, <1>4, <1>5, <1>6, <1>7, <1>8, <1>9, <1>10, <1>11, <1>12, Zenon DEF Next

LEMMA IssuedStep == PixelsInv /\ IssuedInv /\ [Next]_vars => IssuedInv'
  <1> SUFFICES ASSUME PixelsInv, IssuedInv, [Next]_vars PROVE IssuedInv'
    OBVIOUS
  <1>0. /\ next_host_id \in Nat /\ buffers \in [DOMAIN buffers -> Buffer]
        /\ \A b \in DOMAIN buffers : b \in Nat /\ b < next_host_id
    BY DEF PixelsInv, TablesInv
  <1>1. ASSUME next_host_id' \in Nat, next_host_id <= next_host_id',
               DOMAIN wrote' = DOMAIN wrote, DOMAIN buffers' \subseteq DOMAIN buffers,
               \A b \in DOMAIN buffers' : buffers'[b].generation = buffers[b].generation
        PROVE  IssuedInv'
    BY <1>0, <1>1 DEF IssuedInv
  <1> USE DEF poolVars, outVars
  <1>2. CASE CreateSession
    BY <1>0, <1>1, <1>2 DEF CreateSession
  <1>3. ASSUME NEW s \in sessions, PrepareSession(s) PROVE IssuedInv'
    BY <1>0, <1>1, <1>3 DEF PrepareSession
  <1>4. ASSUME NEW s \in sessions, DestroySession(s) PROVE IssuedInv'
    <2>1. /\ DOMAIN buffers' \subseteq DOMAIN buffers
          /\ \A b \in DOMAIN buffers' : buffers'[b] = buffers[b]
          /\ UNCHANGED <<wrote, next_host_id>>
      BY <1>4 DEF DestroySession, Without
    <2> QED
      BY <1>0, <1>1, <2>1
  <1>5. ASSUME NEW s, NEW requested, CreateBufferPool(s, requested) PROVE IssuedInv'
    BY <1>0, <1>1, <1>5 DEF CreateBufferPool
  <1>6. ASSUME NEW p \in DOMAIN pools, AllocBuffer(p) PROVE IssuedInv'
    <2>1. CASE Carve(p)
      <3>1. /\ DOMAIN wrote' = DOMAIN wrote \cup {<<next_host_id, 1>>}
            /\ DOMAIN buffers' = DOMAIN buffers \cup {next_host_id}
            /\ buffers'[next_host_id].generation = 1
            /\ \A b \in DOMAIN buffers : buffers'[b] = buffers[b]
            /\ next_host_id' = next_host_id + 1
        BY <1>0, <2>1 DEF Carve, Put
      <3> QED
        BY <1>0, <3>1 DEF IssuedInv
    <2>2. ASSUME NEW b \in Recyclable(p), Reuse(p, b) PROVE IssuedInv'
      <3> DEFINE g == buffers[b].generation + 1
      <3>1. /\ b \in DOMAIN buffers /\ buffers[b] \in Buffer
            /\ buffers[b].generation \in Nat /\ g \in Nat
        BY <1>0 DEF Recyclable, Buffer
      <3>2. /\ DOMAIN wrote' = DOMAIN wrote \cup {<<b, g>>}
            /\ DOMAIN buffers' = DOMAIN buffers /\ buffers'[b].generation = g
            /\ \A x \in DOMAIN buffers : x # b => buffers'[x] = buffers[x]
            /\ next_host_id' = next_host_id
        BY <2>2, <3>1 DEF Reuse, Put, Buffer
      <3> QED
        BY <1>0, <3>1, <3>2 DEF IssuedInv
    <2>3. Recyclable(p) # {} => Min(Recyclable(p)) \in Recyclable(p)
      <3>1. Recyclable(p) \in SUBSET Nat
        BY <1>0 DEF Recyclable
      <3> QED
        BY <3>1, MinIsMember
    <2> QED
      BY <1>6, <2>1, <2>2, <2>3, Zenon DEF AllocBuffer
  <1>7. ASSUME NEW b \in DOMAIN buffers, NEW g, NEW pixels, WriteBuffer(b, g, pixels)
        PROVE  IssuedInv'
    BY <1>0, <1>1, <1>7 DEF WriteBuffer
  <1>8. ASSUME NEW p, NEW b \in DOMAIN buffers, NEW g, RecycleBuffer(p, b, g) PROVE IssuedInv'
    BY <1>0, <1>1, <1>8 DEF RecycleBuffer, Buffer
  <1>9. ASSUME NEW s, NEW b \in DOMAIN buffers, NEW g, EncodeFrame(s, b, g) PROVE IssuedInv'
    BY <1>0, <1>1, <1>9 DEF EncodeFrame, Buffer
  <1>10. ASSUME NEW s, NEW max, DequeueOutputs(s, max) PROVE IssuedInv'
    BY <1>0, <1>1, <1>10 DEF DequeueOutputs
  <1>11. ASSUME NEW o \in DOMAIN outputs, ReleaseOutput(o) PROVE IssuedInv'
    BY <1>0, <1>1, <1>11 DEF ReleaseOutput, Buffer
  <1>12. CASE UNCHANGED vars
    BY <1>0, <1>1, <1>12 DEF vars
  <1> QED
    BY <1>2, <1>3, <1>4, <1>5, <1>6, <1>7, <1>8, <1>9, <1>10, <1>11, <1>12, ZenonT(60) DEF Next

(* Every step of the mock is a step of AbstractEncoder.                     *)
LEMMA EncoderStep ==
  ASSUME RefinementInv, [Next]_vars
  PROVE  Encoder!Next
  <1>0. buffers \in [DOMAIN buffers -> Buffer]
    BY DEF RefinementInv, PixelsInv, TablesInv
  <1>1. ASSUME NEW S, outputs' = Without(outputs, S) \/ outputs' = outputs,
               DOMAIN wrote' = DOMAIN wrote, given' = given,
               DOMAIN buffers' \subseteq DOMAIN buffers,
               \A b \in DOMAIN buffers' : \/ buffers'[b] = buffers[b]
                                          \/ buffers'[b].state = RECYCLED
        PROVE  Encoder!Next
    <2>1. HeldLeases' \subseteq HeldLeases
      BY <1>1 DEF HeldLeases, LeaseOf, WRITABLE, RECYCLED
    <2>2. Encoder!Discard
      BY <1>1, <2>1, DiscardStep, Zenon
    <2> QED
      BY <2>2, ZenonT(60) DEF Encoder!Next
  <1>2. ASSUME outputs' = outputs, DOMAIN wrote' = DOMAIN wrote, given' = given,
               buffers' = buffers
        PROVE  Encoder!Next
    BY <1>1, <1>2, Zenon
  <1> USE DEF poolVars, outVars
  <1>3. CASE CreateSession
    BY <1>2, <1>3 DEF CreateSession
  <1>4. ASSUME NEW s \in sessions, PrepareSession(s) PROVE Encoder!Next
    BY <1>2, <1>4 DEF PrepareSession
  <1>5. ASSUME NEW s \in sessions, DestroySession(s) PROVE Encoder!Next
    <2>1. /\ DOMAIN buffers' \subseteq DOMAIN buffers
          /\ \A b \in DOMAIN buffers' : buffers'[b] = buffers[b]
          /\ UNCHANGED <<wrote, given>>
          /\ outputs' = Without(outputs, SessionOutputs(s))
      BY <1>5, Zenon DEF DestroySession, Without
    <2> QED
      BY <1>1, <2>1, Zenon
  <1>6. ASSUME NEW s, NEW requested, CreateBufferPool(s, requested) PROVE Encoder!Next
    BY <1>2, <1>6 DEF CreateBufferPool
  <1>7. ASSUME NEW b \in DOMAIN buffers, NEW g, NEW pixels, WriteBuffer(b, g, pixels)
        PROVE  Encoder!Next
    BY <1>2, <1>7 DEF WriteBuffer
  <1>8. ASSUME NEW p, NEW b \in DOMAIN buffers, NEW g, RecycleBuffer(p, b, g)
        PROVE  Encoder!Next
    <2>1. /\ DOMAIN buffers' = DOMAIN buffers /\ buffers'[b].state = RECYCLED
          /\ \A x \in DOMAIN buffers : x # b => buffers'[x] = buffers[x]
          /\ outputs' = outputs /\ wrote' = wrote /\ given' = given
      BY <1>0, <1>8 DEF RecycleBuffer, Buffer
    <2> QED
      BY <1>1, <2>1, Zenon
  <1>9. ASSUME NEW s \in sessions, NEW max \in {0, MAX_OUTPUT_BATCH + 1},
               DequeueOutputs(s, max)
        PROVE  Encoder!Next
    <2>1. max \in Nat
      BY MockAssumption
    <2> QED
      BY <1>9, <2>1, DequeueDelivers
  <1>10. CASE UNCHANGED vars
    BY <1>2, <1>10 DEF vars
  <1> QED
    BY <1>3, <1>4, <1>5, <1>6, <1>7, <1>8, <1>9, <1>10, AllocLeases, EncodeEncodes,
       ReleaseReturns, ZenonT(60) DEF Next

(* The mock implements AbstractEncoder for any client, any limits and any   *)
(* number of sessions, pools and buffers: what CI runs the shim against     *)
(* keeps the promises that vt-real keeps, and returns the lease of an       *)
(* output that is released, and no other.                                   *)
THEOREM MockRefinesEncoder == Spec => ImplementsEncoder
  <1>1. Init => RefinementInv
    <2> SUFFICES ASSUME Init PROVE RefinementInv
      OBVIOUS
    <2>1. DOMAIN wrote = {} /\ DOMAIN buffers = {}
      BY DEF Init, EmptyMap
    <2>2. IssuedInv /\ BoundInv
      BY <2>1, MockAssumption DEF Init, IssuedInv, BoundInv
    <2> QED
      BY <2>2, BudgetInit, PixelsInit DEF RefinementInv
  <1>2. RefinementInv /\ [Next]_vars => RefinementInv'
    BY BudgetStep, PixelsStep, IssuedStep, BoundStep, Zenon DEF RefinementInv
  <1>3. Init => Encoder!Init
    <2> SUFFICES ASSUME Init PROVE Encoder!Init
      OBVIOUS
    <2>1. HeldLeases = {} /\ DOMAIN wrote = {} /\ given = {}
      BY DEF Init, EmptyMap, HeldLeases
    <2>2. \A s : Waiting(s) = {}
      BY DEF Init, EmptyMap, Waiting, SessionOutputs
    <2>3. ReadyBySession = [s \in 1 .. MaxHostId |-> [t \in {} |-> t]]
      BY <2>2 DEF ReadyBySession, ReadyOutputs
    <2> QED
      BY <2>1, <2>3, Zenon DEF Encoder!Init
  <1>4. RefinementInv /\ [Next]_vars => Encoder!Next
    BY EncoderStep
  <1> QED
    BY <1>1, <1>2, <1>3, <1>4, PTL DEF Spec, ImplementsEncoder, Encoder!Spec
=============================================================================
