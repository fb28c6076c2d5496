----------------------------- MODULE MockBackend -----------------------------
(***************************************************************************)
(* The mock backend of the worker, which CI and the shim's own tests run    *)
(* against: every request is handled in the dispatch call, a frame is       *)
(* encoded within OP_ENCODE_FRAME, and the pixels live in a backing vector  *)
(* per pool.  Unlike vt-real it limits every table, and releasing an output *)
(* returns its slot to the client under the lease it was encoded from.      *)
(*                                                                         *)
(* The client is arbitrary: any handle, any generation, any order.  A       *)
(* request refused by the checks of its handler is a stuttering step.  The  *)
(* requests that change nothing (HELLO, GET_CAPS, READ_BUFFER, READ_OUTPUT, *)
(* SET_PROPERTY, DRAIN) are left out.  A slot's bytes are one cell.         *)
(***************************************************************************)
EXTENDS Naturals, Sequences, FiniteSets, FiniteSetsExt

CONSTANTS
  MAX_SESSIONS, MAX_POOLS, MAX_BUFFERS, MAX_OUTPUTS,
  DEFAULT_POOL_BUFFERS, MAX_OUTPUT_BATCH,
  SAMPLE_SIZE,    \* 4 + 24: every sample the mock makes has this size
  EnvLimits,      \* what the environment may set: [count, bytes]
  Pixels,         \* what a client may write into a slot
  MaxHostId,      \* bound: host ids handed out
  MaxGeneration,  \* bound: leases per slot
  MaxOutputs      \* bound: output ids handed out

ASSUME MockAssumption ==
  /\ {MAX_SESSIONS, MAX_POOLS, MAX_BUFFERS, MAX_OUTPUTS} \subseteq Nat
  /\ {DEFAULT_POOL_BUFFERS, MAX_OUTPUT_BATCH, SAMPLE_SIZE} \subseteq Nat \ {0}
  /\ EnvLimits \subseteq [count : Nat, bytes : Nat]
  /\ {MaxHostId, MaxOutputs} \subseteq Nat /\ MaxGeneration \in Nat \ {0}

VARIABLES
  limits,              \* max_output_count, max_output_bytes
  next_host_id,
  sessions,            \* ids of live sessions
  prepared,            \* those with `prepared` set
  pools,               \* pool id -> [session, max_buffers, buffer_count]
  backing,             \* pool id -> the contents of its slots
  buffers,             \* buffer id -> [pool, slot, generation, state]
  outputs,             \* output id -> [session, buffer, generation, sample, dequeued]
  next_output_id,
  output_bytes_total,
  wrote,               \* history: lease -> what the client last wrote under it
  given                \* history: the outputs given out, [session, lease]

outVars == <<outputs, next_output_id, output_bytes_total>>
poolVars == <<pools, backing, buffers>>
vars == <<limits, next_host_id, sessions, prepared, poolVars, outVars, wrote, given>>

RECYCLED == "recycled"
WRITABLE == "guest_writable"
QUEUED   == "queued_to_host"
Zero     == "zero"   \* a slot filled with zeroes

Put(f, k, v) == [x \in DOMAIN f \cup {k} |-> IF x = k THEN v ELSE f[x]]
Without(f, S) == [x \in DOMAIN f \ S |-> f[x]]
EmptyMap == [x \in {} |-> 0]

Lease(x) == <<x.buffer, x.generation>>
LeaseOf(b) == <<b, buffers[b].generation>>
SessionOutputs(s) == {o \in DOMAIN outputs : outputs[o].session = s}
Count(requested) == IF requested = 0 THEN DEFAULT_POOL_BUFFERS ELSE requested

-----------------------------------------------------------------------------
(* reset_from_env.  (Ids start at 1000 and 5000; 1 here.)                   *)
Init ==
  /\ \E env \in EnvLimits :
       limits = [count |-> Min({env.count, MAX_OUTPUTS}), bytes |-> env.bytes]
  /\ next_host_id = 1 /\ next_output_id = 1
  /\ sessions = {} /\ prepared = {}
  /\ pools = EmptyMap /\ backing = EmptyMap /\ buffers = EmptyMap
  /\ outputs = EmptyMap /\ output_bytes_total = 0
  /\ wrote = EmptyMap /\ given = {}

-----------------------------------------------------------------------------
(* Sessions and pools.                                                      *)

CreateSession ==
  /\ next_host_id <= MaxHostId
  /\ Cardinality(sessions) < MAX_SESSIONS
  /\ sessions' = sessions \cup {next_host_id}
  /\ next_host_id' = next_host_id + 1
  /\ UNCHANGED <<limits, prepared, poolVars, outVars, wrote, given>>

PrepareSession(s) ==
  /\ prepared' = prepared \cup {s}
  /\ UNCHANGED <<limits, next_host_id, sessions, poolVars, outVars, wrote, given>>

(* session 0: a pool of no session, which nothing removes.                  *)
CreateBufferPool(s, requested) ==
  /\ next_host_id <= MaxHostId
  /\ Cardinality(DOMAIN pools) < MAX_POOLS
  /\ s \in sessions \cup {0}
  /\ pools' = Put(pools, next_host_id,
       [session |-> s, max_buffers |-> Count(requested), buffer_count |-> 0])
  /\ backing' = Put(backing, next_host_id, [i \in 0 .. Count(requested) - 1 |-> Zero])
  /\ next_host_id' = next_host_id + 1
  /\ UNCHANGED <<limits, sessions, prepared, buffers, outVars, wrote, given>>

(* Mutant: the outputs go, their bytes stay on the account.                 *)
RemovedBytesForgotten(s) == 0

RemovedBytes(s) == SAMPLE_SIZE * Cardinality(SessionOutputs(s))

(* saturating_sub                                                           *)
Less(total, bytes) == IF total < bytes THEN 0 ELSE total - bytes

DestroySession(s) ==
  LET P == {p \in DOMAIN pools : pools[p].session = s}
  IN  /\ outputs' = Without(outputs, SessionOutputs(s))
      /\ output_bytes_total' = Less(output_bytes_total, RemovedBytes(s))
      /\ pools' = Without(pools, P) /\ backing' = Without(backing, P)
      /\ buffers' = Without(buffers, {b \in DOMAIN buffers : buffers[b].pool \in P})
      /\ sessions' = sessions \ {s} /\ prepared' = prepared \ {s}
      /\ UNCHANGED <<limits, next_host_id, next_output_id, wrote, given>>

-----------------------------------------------------------------------------
(* Slots.                                                                   *)

Recyclable(p) ==
  {b \in DOMAIN buffers : buffers[b].pool = p /\ buffers[b].state = RECYCLED}

(* Mutant: the slot keeps what its last lease left there.                   *)
ZeroedNot(p, slot) == backing

Zeroed(p, slot) == [backing EXCEPT ![p][slot] = Zero]

(* find_recyclable_buffer_idx: buffers are kept in the order of their ids.  *)
Reuse(p, b) ==
  /\ buffers[b].generation < MaxGeneration
  /\ buffers' = [buffers EXCEPT ![b].generation = @ + 1, ![b].state = WRITABLE]
  /\ backing' = Zeroed(p, buffers[b].slot)
  /\ wrote' = Put(wrote, <<b, buffers[b].generation + 1>>, Zero)
  /\ UNCHANGED <<next_host_id, pools>>

Carve(p) ==
  /\ next_host_id <= MaxHostId
  /\ pools[p].buffer_count < pools[p].max_buffers
  /\ Cardinality(DOMAIN buffers) < MAX_BUFFERS
  /\ buffers' = Put(buffers, next_host_id,
       [pool |-> p, slot |-> pools[p].buffer_count, generation |-> 1, state |-> WRITABLE])
  /\ pools' = [pools EXCEPT ![p].buffer_count = @ + 1]
  /\ backing' = Zeroed(p, pools[p].buffer_count)
  /\ wrote' = Put(wrote, <<next_host_id, 1>>, Zero)
  /\ next_host_id' = next_host_id + 1

AllocBuffer(p) ==
  /\ IF Recyclable(p) # {} THEN Reuse(p, Min(Recyclable(p))) ELSE Carve(p)
  /\ UNCHANGED <<limits, sessions, prepared, outVars, given>>

WriteBuffer(b, generation, pixels) ==
  /\ buffers[b].generation = generation /\ buffers[b].state = WRITABLE
  /\ backing' = [backing EXCEPT ![buffers[b].pool][buffers[b].slot] = pixels]
  /\ wrote' = [wrote EXCEPT ![<<b, generation>>] = pixels]
  /\ UNCHANGED <<limits, next_host_id, sessions, prepared, pools, buffers, outVars, given>>

RecycleBuffer(p, b, generation) ==
  /\ buffers[b].pool = p
  /\ buffers[b].generation = generation /\ buffers[b].state # RECYCLED
  /\ buffers' = [buffers EXCEPT ![b].state = RECYCLED]
  /\ UNCHANGED <<limits, next_host_id, sessions, prepared, pools, backing, outVars,
                 wrote, given>>

-----------------------------------------------------------------------------
(* Frames and outputs.                                                      *)

Room ==
  /\ Cardinality(DOMAIN outputs) < limits.count
  /\ SAMPLE_SIZE <= limits.bytes
  /\ output_bytes_total <= Less(limits.bytes, SAMPLE_SIZE)

EncodeFrame(s, b, generation) ==
  /\ next_output_id <= MaxOutputs
  /\ s \in prepared
  /\ buffers[b].generation = generation /\ buffers[b].state = WRITABLE
  /\ Room
  /\ outputs' = Put(outputs, next_output_id,
       [session |-> s, buffer |-> b, generation |-> generation,
        sample |-> backing[buffers[b].pool][buffers[b].slot], dequeued |-> FALSE])
  /\ next_output_id' = next_output_id + 1
  /\ output_bytes_total' = output_bytes_total + SAMPLE_SIZE
  /\ buffers' = [buffers EXCEPT ![b].state = QUEUED]
  /\ UNCHANGED <<limits, next_host_id, sessions, prepared, pools, backing, wrote, given>>

Waiting(s) == {o \in SessionOutputs(s) : ~outputs[o].dequeued}

(* dequeue_output_idx, `max` times: outputs are kept in the order of their  *)
(* ids.                                                                     *)
First(s, max) == {o \in Waiting(s) : Cardinality({w \in Waiting(s) : w < o}) < max}

(* OP_DEQUEUE_OUTPUT (as max = 0) and OP_DEQUEUE_OUTPUT_BATCH.              *)
DequeueOutputs(s, max) ==
  LET taken == First(s, Max({Min({max, MAX_OUTPUT_BATCH}), 1}))
  IN  /\ taken # {}
      /\ outputs' = [o \in DOMAIN outputs |->
                       IF o \in taken THEN [outputs[o] EXCEPT !.dequeued = TRUE]
                                      ELSE outputs[o]]
      /\ given' = given \cup {[session |-> s, lease |-> Lease(outputs[o])] : o \in taken}
      /\ UNCHANGED <<limits, next_host_id, sessions, prepared, poolVars, next_output_id,
                     output_bytes_total, wrote>>

(* Mutant: a release frees the slot whatever lease it is under by now.      *)
SourceUnderAnyLease(o) ==
  {b \in DOMAIN buffers : b = outputs[o].buffer /\ buffers[b].state = QUEUED}

(* The slot a release makes writable again.                                 *)
Source(o) ==
  {b \in DOMAIN buffers : LeaseOf(b) = Lease(outputs[o]) /\ buffers[b].state = QUEUED}

ReleaseOutput(o) ==
  /\ buffers' = [b \in DOMAIN buffers |->
                   IF b \in Source(o) THEN [buffers[b] EXCEPT !.state = WRITABLE]
                                      ELSE buffers[b]]
  /\ outputs' = Without(outputs, {o})
  /\ output_bytes_total' = Less(output_bytes_total, SAMPLE_SIZE)
  /\ UNCHANGED <<limits, next_host_id, sessions, prepared, pools, backing,
                 next_output_id, wrote, given>>

-----------------------------------------------------------------------------
Generations == 1 .. MaxGeneration

Next ==
  \/ CreateSession
  \/ \E s \in sessions : PrepareSession(s) \/ DestroySession(s)
  \/ \E s \in 0 .. MaxHostId, requested \in 0 .. 1 : CreateBufferPool(s, requested)
  \/ \E p \in DOMAIN pools : AllocBuffer(p)
  \/ \E b \in DOMAIN buffers, g \in Generations :
       \/ \E pixels \in Pixels : WriteBuffer(b, g, pixels)
       \/ \E p \in DOMAIN pools : RecycleBuffer(p, b, g)
       \/ \E s \in sessions : EncodeFrame(s, b, g)
  \/ \E s \in sessions, max \in {0, MAX_OUTPUT_BATCH + 1} : DequeueOutputs(s, max)
  \/ \E o \in DOMAIN outputs : ReleaseOutput(o)

Spec == Init /\ [][Next]_vars

-----------------------------------------------------------------------------
(* The refinement mapping.  Ids of outputs grow, so they are the tickets.   *)
HeldLeases == {LeaseOf(b) : b \in {b \in DOMAIN buffers : buffers[b].state = WRITABLE}}
ReadyOutputs(s) == [o \in Waiting(s) |-> Lease(outputs[o])]
ReadyBySession == [s \in 1 .. MaxHostId |-> ReadyOutputs(s)]

Encoder == INSTANCE AbstractEncoder WITH
  Sessions <- 1 .. MaxHostId,
  Leases <- (1 .. MaxHostId) \X Generations,
  Tickets <- 1 .. MaxOutputs,
  Returns <- TRUE,
  issued <- DOMAIN wrote,
  held <- HeldLeases,
  encoding <- {},
  ready <- ReadyBySession,
  given <- given

(* The mock keeps the promises of a backend that the shim is written        *)
(* against, with leases that come back: no lease is issued twice, a frame   *)
(* takes a lease the client holds, outputs are given out once, in order,    *)
(* and a release returns the lease of the output it releases and no other,  *)
(* however late it comes (release_output's generation check).               *)
ImplementsEncoder == Encoder!Spec

(* Pixels stay with their lease: a slot the client holds reads what it      *)
(* wrote under this lease, nothing of an earlier one (bytes.fill(0) in      *)
(* OP_ALLOC_BUFFER, slot_index), and an output was made from what was last  *)
(* written under its lease, also once the slot is recycled and leased anew. *)
PixelsOfTheLease ==
  /\ \A b \in DOMAIN buffers : buffers[b].state # RECYCLED =>
       backing[buffers[b].pool][buffers[b].slot] = wrote[LeaseOf(b)]
  /\ \A o \in DOMAIN outputs : outputs[o].sample = wrote[Lease(outputs[o])]

(* The output budget: output_bytes_total is what the stored outputs amount  *)
(* to, through releases and session ends, so that the limits of the         *)
(* environment are never exceeded and never used up by outputs that are     *)
(* gone (saturating_sub would hide a total that is off).                    *)
OutputBudget ==
  /\ output_bytes_total = SAMPLE_SIZE * Cardinality(DOMAIN outputs)
  /\ output_bytes_total <= limits.bytes
  /\ Cardinality(DOMAIN outputs) <= limits.count
=============================================================================
