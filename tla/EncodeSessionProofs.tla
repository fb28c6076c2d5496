------------------------ MODULE EncodeSessionProofs -------------------------
(***************************************************************************)
(* Theorems about the way of an output to the compression callback, for any *)
(* number of sessions, slots, leases and frames, any batch sizes and any    *)
(* faults.  The outputs of a session stay in line on their way (PathAt), an *)
(* entry is popped for each delivery (PendingAt), and the delivered frames  *)
(* are counted against the entries.  The lemmas that count assume Counting, *)
(* the facts about cardinalities they need, which CountingHolds proves.     *)
(***************************************************************************)
EXTENDS EncodeSession, Integers, TLAPS

(* A leaf that the provers do not settle in their usual time gets more.     *)
USE SMTT(60), SMT, SMTT(30), ZenonT(60)

-----------------------------------------------------------------------------
(* Queues.                                                                  *)

LEMMA AppendElements ==
  ASSUME NEW T, NEW q \in Seq(T), NEW e \in T
  PROVE  Append(q, e) \in Seq(T) /\ Elements(Append(q, e)) = Elements(q) \cup {e}
  <1>1. Append(q, e) \in Seq(T) /\ Len(Append(q, e)) = Len(q) + 1 /\ Len(q) \in Nat
    OBVIOUS
  <1>2. \A i \in DOMAIN q : i \in DOMAIN Append(q, e) /\ Append(q, e)[i] = q[i]
    OBVIOUS
  <1>3. Len(q) + 1 \in DOMAIN Append(q, e) /\ Append(q, e)[Len(q) + 1] = e
    OBVIOUS
  <1>4. \A i \in DOMAIN Append(q, e) : i \in DOMAIN q \/ Append(q, e)[i] = e
    OBVIOUS
  <1>5. \A a \in Elements(Append(q, e)) : a \in Elements(q) \cup {e}
    BY <1>2, <1>4 DEF Elements
  <1>6. \A a \in Elements(q) \cup {e} : a \in Elements(Append(q, e))
    BY <1>2, <1>3 DEF Elements
  <1> QED
    BY <1>1, <1>5, <1>6

LEMMA TailElements ==
  ASSUME NEW T, NEW q \in Seq(T), q # << >>
  PROVE  /\ Tail(q) \in Seq(T) /\ Head(q) \in T /\ Head(q) \in Elements(q)
         /\ Len(q) \in Nat \ {0} /\ Len(Tail(q)) = Len(q) - 1
         /\ Head(q) = q[1] /\ \A i \in DOMAIN Tail(q) : i + 1 \in DOMAIN q /\ Tail(q)[i] = q[i + 1]
         /\ Elements(Tail(q)) \subseteq Elements(q)
         /\ \A e \in Elements(q) : e = Head(q) \/ e \in Elements(Tail(q))
  <1>1. /\ Tail(q) \in Seq(T) /\ Head(q) \in T /\ Head(q) = q[1] /\ 1 \in DOMAIN q
        /\ Len(q) \in Nat \ {0} /\ Len(Tail(q)) = Len(q) - 1
    OBVIOUS
  <1>2. \A i \in DOMAIN Tail(q) : i + 1 \in DOMAIN q /\ Tail(q)[i] = q[i + 1]
    OBVIOUS
  <1>3. \A i \in DOMAIN q : i = 1 \/ (i - 1 \in DOMAIN Tail(q) /\ Tail(q)[i - 1] = q[i])
    BY <1>1
  <1>4. Head(q) \in Elements(q)
    BY <1>1 DEF Elements
  <1>5. \A e \in Elements(Tail(q)) : e \in Elements(q)
    BY <1>2 DEF Elements
  <1>6. \A e \in Elements(q) : e = Head(q) \/ e \in Elements(Tail(q))
    BY <1>1, <1>3 DEF Elements
  <1> QED
    BY <1>1, <1>2, <1>4, <1>5, <1>6

LEMMA SubSeqElements ==
  ASSUME NEW T, NEW q \in Seq(T), NEW n \in 0 .. Len(q)
  PROVE  Elements(q) = Elements(SubSeq(q, 1, n)) \cup Elements(SubSeq(q, n + 1, Len(q)))
  <1> DEFINE a == SubSeq(q, 1, n)
             b == SubSeq(q, n + 1, Len(q))
  <1>1. a \in Seq(T) /\ Len(a) = n /\ \A i \in DOMAIN a : i \in DOMAIN q /\ a[i] = q[i]
    OBVIOUS
  <1>2. /\ b \in Seq(T) /\ Len(b) = Len(q) - n
        /\ \A i \in DOMAIN b : n + i \in DOMAIN q /\ b[i] = q[n + i]
    OBVIOUS
  <1> HIDE DEF a, b
  <1>3. \A e \in Elements(a) \cup Elements(b) : e \in Elements(q)
    BY <1>1, <1>2 DEF Elements
  <1>4. ASSUME NEW i \in DOMAIN q
        PROVE  (i \in DOMAIN a /\ a[i] = q[i]) \/ (\E j \in DOMAIN b : b[j] = q[i])
    <2>1. CASE i <= n
      BY <1>1, <2>1
    <2>2. CASE ~ (i <= n)
      <3>1. PICK j : j = i - n
        OBVIOUS
      <3>2. j \in DOMAIN b /\ n + j = i
        BY <1>2, <2>2, <3>1
      <3> QED
        BY <1>2, <3>2
    <2> QED
      BY <2>1, <2>2
  <1>5. \A e \in Elements(q) : e \in Elements(a) \cup Elements(b)
    BY <1>4 DEF Elements
  <1> QED
    BY <1>3, <1>5 DEF a, b

LEMMA WithoutElements ==
  ASSUME NEW T, NEW q \in Seq(T), NEW i \in DOMAIN q, NEW r, r = Without(q, i)
  PROVE  /\ r \in Seq(T)
         /\ \A j \in DOMAIN r : LET k == IF j < i THEN j ELSE j + 1
                                IN  k \in DOMAIN q /\ k # i /\ r[j] = q[k]
         /\ Elements(r) \subseteq Elements(q)
         /\ \A e \in Elements(q) : e = q[i] \/ e \in Elements(r)
  <1>1. PICK n : n = Len(q)
    OBVIOUS
  <1>2. n \in Nat \ {0} /\ DOMAIN q = 1 .. n /\ i \in 1 .. n
    BY <1>1
  <1>3. r = [j \in 1 .. n - 1 |-> IF j < i THEN q[j] ELSE q[j + 1]]
    BY <1>1 DEF Without
  <1>4. r \in [1 .. n - 1 -> T]
    BY <1>2, <1>3
  <1>5. r \in Seq(T) /\ DOMAIN r = 1 .. n - 1
    BY <1>2, <1>4
  <1>6. \A j \in 1 .. n - 1 : LET k == IF j < i THEN j ELSE j + 1
                              IN  k \in DOMAIN q /\ k # i /\ r[j] = q[k]
    BY <1>2, <1>3
  <1>7. \A e \in Elements(r) : e \in Elements(q)
    BY <1>5, <1>6 DEF Elements
  <1>8. \A k \in 1 .. n : \/ k = i
                          \/ k \in 1 .. n - 1 /\ r[k] = q[k]
                          \/ k - 1 \in 1 .. n - 1 /\ r[k - 1] = q[k]
    BY <1>2, <1>3
  <1>9. \A e \in Elements(q) : e = q[i] \/ e \in Elements(r)
    BY <1>2, <1>5, <1>8, Zenon DEF Elements
  <1> QED
    BY <1>5, <1>6, <1>7, <1>9

-----------------------------------------------------------------------------
(* Type correctness.                                                        *)

LEMMA TypeInit == Init => TypeOK
  BY DEF Init, TypeOK

\* The end of a session clears its queues, or leaves them when nothing is sent.
LEMMA Ends ==
  ASSUME NEW s \in Sessions, VTCompressionSessionInvalidate(s) \/ ReleaseSession(s)
  PROVE  \/ encoding' = [encoding EXCEPT ![s] = << >>] /\ fifo' = [fifo EXCEPT ![s] = << >>]
         \/ encoding' = encoding /\ fifo' = fifo
  BY DEF VTCompressionSessionInvalidate, ReleaseSession, FinalizeSession, DestroySession,
         queues, outputs

LEMMA DequeueSplits ==
  ASSUME TypeOK, NEW s \in Sessions, vtf_dequeue_ready_outputs(s)
  PROVE  \E n \in 1 .. Len(fifo[s]) :
            /\ batch' = [batch EXCEPT ![s] = SubSeq(fifo[s], 1, n)]
            /\ fifo' = [fifo EXCEPT ![s] = SubSeq(fifo[s], n + 1, Len(fifo[s]))]
  <1>1. PICK n : n = IF Len(fifo[s]) < OutputBatch THEN Len(fifo[s]) ELSE OutputBatch
    OBVIOUS
  <1>2. fifo[s] \in Seq(Output) /\ fifo[s] # << >>
    BY DEF TypeOK, vtf_dequeue_ready_outputs
  <1>3. n \in 1 .. Len(fifo[s])
    BY <1>1, <1>2, SessionAssumption
  <1>4. /\ batch' = [batch EXCEPT ![s] = SubSeq(fifo[s], 1, n)]
        /\ fifo' = [fifo EXCEPT ![s] = SubSeq(@, n + 1, Len(@))]
    BY <1>1, Zenon DEF vtf_dequeue_ready_outputs
  <1> QED
    BY <1>3, <1>4, Zenon

\* An output that is delivered finds an entry to be paired with.
Ready == \A s \in Sessions : session[s] = "live" /\ batch[s] # << >> => pending[s] # << >>

LEMMA TypeCalls ==
  ASSUME TypeOK, NEW s \in Sessions,
         \/ VTCompressionSessionCreate(s)
         \/ VTCompressionSessionGetPixelBufferPool(s)
         \/ \E x \in Slots : CVPixelBufferPoolCreatePixelBuffer(s, x)
         \/ \E l \in app : VTCompressionSessionEncodeFrame(s, l)
         \/ RetainSample(s)
         \/ VTCompressionSessionInvalidate(s)
         \/ ReleaseSession(s)
         \/ VTCompressionSessionCompleteFrames(s)
  PROVE  TypeOK'
  <1>1. CASE VTCompressionSessionCreate(s)
    BY <1>1 DEF VTCompressionSessionCreate, TypeOK, held, queues, history
  <1>2. CASE VTCompressionSessionGetPixelBufferPool(s)
    BY <1>2 DEF VTCompressionSessionGetPixelBufferPool, TypeOK, thread, held, outputs, history
  <1>3. ASSUME NEW x \in Slots, CVPixelBufferPoolCreatePixelBuffer(s, x) PROVE TypeOK'
    BY <1>3, Zenon DEF CVPixelBufferPoolCreatePixelBuffer, TypeOK, thread, outputs, history
  <1>4. ASSUME NEW l \in app, VTCompressionSessionEncodeFrame(s, l) PROVE TypeOK'
    <2>1. PICK f : f = << s, submitted[s] + 1 >>
      BY Zenon
    <2>2. f \in Frame /\ l \in Leases
      BY <2>1 DEF TypeOK, Frame
    <2>7. encoding' \in [Sessions -> Seq(Output)]
      <3>1. PICK o : o = [frame |-> f, source |-> l]
        BY Zenon
      <3>2. o \in Output
        BY <2>2, <3>1 DEF Output
      <3>3. encoding' = encoding \/ encoding' = [encoding EXCEPT ![s] = Append(@, o)]
        BY <1>4, <2>1, <3>1 DEF VTCompressionSessionEncodeFrame
      <3>4. encoding \in [Sessions -> Seq(Output)]
        BY DEF TypeOK
      <3>5. Append(encoding[s], o) \in Seq(Output)
        BY <3>2, <3>4, AppendElements
      <3> QED
        BY <3>3, <3>4, <3>5, Zenon
    <2>8. pending' \in [Sessions -> Seq(Pending)]
      <3>1. PICK e : e = [source |-> l, refcon |-> f]
        BY Zenon
      <3>2. e \in Pending
        BY <2>2, <3>1 DEF Pending
      <3>3. pending' = [pending EXCEPT ![s] = Append(@, e)]
        BY <1>4, <2>1, <3>1 DEF VTCompressionSessionEncodeFrame, PushPending
      <3> QED
        BY <3>2, <3>3 DEF TypeOK
    <2>9. /\ submitted' = [submitted EXCEPT ![s] = @ + 1]
          /\ result' = [result EXCEPT ![s] = "none"]
          /\ pc' = pc \/ \E next \in {"idle", "polling"} : pc' = [pc EXCEPT ![s] = next]
          /\ session[s] = "live" /\ pc[s] = "idle"
          /\ UNCHANGED << session, batch, sample, held, delivered, fifo >>
      BY <1>4 DEF VTCompressionSessionEncodeFrame, PushPending, Idle
    <2>10. submitted' \in [Sessions -> Nat] /\ result' \in [Sessions -> {"none", "ok", "error"}]
      BY <2>9 DEF TypeOK
    <2>11. /\ pc \in [Sessions -> {"idle", "polling", "draining", "completing"}]
           /\ \A t \in Sessions : /\ pc[t] # "idle" => session[t] = "live"
                                  /\ sample[t] # NoSample => pc[t] \in {"polling", "completing"}
      BY DEF TypeOK
    <2>12. /\ pc' \in [Sessions -> {"idle", "polling", "draining", "completing"}]
           /\ \A t \in Sessions : /\ pc'[t] # "idle" => session'[t] = "live"
                                  /\ sample'[t] # NoSample => pc'[t] \in {"polling", "completing"}
      BY <2>9, <2>11
    <2> QED
      BY <2>7, <2>8, <2>9, <2>10, <2>12 DEF TypeOK, held
  <1>5. CASE RetainSample(s)
    BY <1>5 DEF RetainSample, TypeOK, thread, outputs, history
  <1>6. CASE VTCompressionSessionInvalidate(s) \/ ReleaseSession(s)
    <2>1. encoding \in [Sessions -> Seq(Output)] /\ fifo \in [Sessions -> Seq(Output)]
      BY DEF TypeOK
    <2>2. << >> \in Seq(Output)
      OBVIOUS
    <2>3. encoding' \in [Sessions -> Seq(Output)] /\ fifo' \in [Sessions -> Seq(Output)]
      BY <1>6, <2>1, <2>2, Ends, Zenon
    <2>4. /\ session' \in [Sessions -> {"none", "live", "invalidated", "finalized"}]
          /\ pc[s] = "idle" /\ \A t \in Sessions \ {s} : session'[t] = session[t]
          /\ UNCHANGED << pc, result, submitted, pending, batch, sample, held, history >>
      BY <1>6, Zenon DEF VTCompressionSessionInvalidate, ReleaseSession, Idle, TypeOK
    <2> QED
      BY <2>3, <2>4 DEF TypeOK, held, history
  <1>7. CASE VTCompressionSessionCompleteFrames(s)
    BY <1>7 DEF VTCompressionSessionCompleteFrames, Idle, TypeOK, held, outputs, history
  <1> QED
    BY <1>1, <1>2, <1>3, <1>4, <1>5, <1>6, <1>7

LEMMA TypeDelivery ==
  ASSUME TypeOK, Ready, NEW s \in Sessions,
         \/ Works(s)
         \/ ReadOutputFails(s)
         \/ \E i \in DOMAIN encoding[s] : VTEmits(s, i)
         \/ VTDrops(s)
  PROVE  TypeOK'
  <1>0. /\ encoding[s] \in Seq(Output) /\ fifo[s] \in Seq(Output)
        /\ encoding \in [Sessions -> Seq(Output)] /\ fifo \in [Sessions -> Seq(Output)]
        /\ batch \in [Sessions -> Seq(Output)]
    BY DEF TypeOK
  <1>1. CASE Drain(s)
    BY <1>1, ZenonT(60) DEF Drain, Return, TypeOK, held, outputs, history
  <1>2. CASE vtf_dequeue_ready_outputs(s)
    <2>1. PICK n \in 1 .. Len(fifo[s]) :
             /\ batch' = [batch EXCEPT ![s] = SubSeq(fifo[s], 1, n)]
             /\ fifo' = [fifo EXCEPT ![s] = SubSeq(fifo[s], n + 1, Len(fifo[s]))]
      BY <1>2, DequeueSplits
    <2>2. /\ SubSeq(fifo[s], 1, n) \in Seq(Output)
          /\ SubSeq(fifo[s], n + 1, Len(fifo[s])) \in Seq(Output)
      BY <1>0, <2>1
    <2>3. batch' \in [Sessions -> Seq(Output)] /\ fifo' \in [Sessions -> Seq(Output)]
      BY <1>0, <2>1, <2>2
    <2> QED
      BY <1>2, <2>3, Zenon DEF vtf_dequeue_ready_outputs, TypeOK, held, history
  <1>3. CASE vtf_handle_dequeue_status(s)
    BY <1>3 DEF vtf_handle_dequeue_status, NothingReady, Delivering, Return, TypeOK, held,
                outputs, history
  <1>4. CASE vtf_deliver_one_output(s)
    <2>1. session[s] = "live" /\ batch[s] # << >> /\ pc[s] \in {"polling", "completing"}
      BY <1>4 DEF vtf_deliver_one_output, Delivering, TypeOK
    <2>2. pending[s] # << >> /\ pending[s] \in Seq(Pending) /\ batch[s] \in Seq(Output)
      BY <2>1 DEF Ready, TypeOK
    <2>3. PICK e : e = Head(pending[s])
      OBVIOUS
    <2>4. PICK o : o = Head(batch[s])
      OBVIOUS
    <2>5. e \in Pending /\ o \in Output
      BY <2>1, <2>2, <2>3, <2>4, TailElements
    <2>6. PICK x : x = NewSample(o, e)
      OBVIOUS
    <2>7. x \in Sample /\ o.frame \in Frame
      BY <2>5, <2>6 DEF Sample, Pending, Output, NewSample
    <2>8. /\ sample' = [sample EXCEPT ![s] = x]
          /\ delivered' = delivered \cup {o.frame}
          /\ pending' = [pending EXCEPT ![s] = Tail(@)]
          /\ batch' = [batch EXCEPT ![s] = Tail(@)]
          /\ UNCHANGED << releases, session, pc, result, submitted, held, buffers, outputs >>
      BY <1>4, <2>3, <2>4, <2>6 DEF vtf_deliver_one_output, Entry
    <2>9. pending' \in [Sessions -> Seq(Pending)] /\ batch' \in [Sessions -> Seq(Output)]
      BY <2>1, <2>2, <2>8, TailElements DEF TypeOK
    <2>10. /\ sample' \in [Sessions -> Sample \cup {NoSample}]
           /\ \A t \in Sessions : t # s => sample'[t] = sample[t]
      BY <2>7, <2>8 DEF TypeOK
    <2> QED
      BY <2>1, <2>7, <2>8, <2>9, <2>10 DEF TypeOK, held, outputs
  <1>5. CASE CallbackReturns(s)
    <2>1. UNCHANGED << encoding, fifo >>
      BY <1>5 DEF CallbackReturns, FinalizeSample, ReleaseOutput, outputs, queues
    <2> QED
      BY <1>5, <2>1 DEF CallbackReturns, TypeOK, held, history
  <1>6. CASE FinalizePending(s)
    <2>1. pending' \in [Sessions -> Seq(Pending)]
      BY <1>6, TailElements DEF FinalizePending, TypeOK
    <2> QED
      BY <1>6, <2>1 DEF FinalizePending, TypeOK, held, outputs, history
  <1>7. CASE ReadOutputFails(s)
    <2>1. batch' \in [Sessions -> Seq(Output)]
      <3>1. << >> \in Seq(Output)
        OBVIOUS
      <3> QED
        BY <1>0, <1>7, <3>1, ZenonT(60) DEF ReadOutputFails
    <2> QED
      BY <1>7, <2>1 DEF ReadOutputFails, Delivering, Return, TypeOK, held, outputs
  <1>8. ASSUME NEW i \in DOMAIN encoding[s], VTEmits(s, i) PROVE TypeOK'
    <2>1. encoding[s][i] \in Output /\ Without(encoding[s], i) \in Seq(Output)
      BY <1>0, WithoutElements
    <2>2. encoding' \in [Sessions -> Seq(Output)] /\ fifo' \in [Sessions -> Seq(Output)]
      BY <1>8, <2>1 DEF VTEmits, TypeOK
    <2> QED
      BY <1>8, <2>2 DEF VTEmits, TypeOK, thread, held
  <1>9. CASE VTDrops(s)
    <2>1. /\ encoding' = [encoding EXCEPT ![s] = Tail(@)] /\ encoding[s] # << >>
          /\ UNCHANGED << thread, held, fifo, delivered >>
      BY <1>9 DEF VTDrops
    <2>2. Tail(encoding[s]) \in Seq(Output)
      BY <1>0, <2>1, TailElements
    <2>3. encoding' \in [Sessions -> Seq(Output)]
      BY <1>0, <2>1, <2>2
    <2> QED
      BY <2>1, <2>3 DEF TypeOK, thread, held
  <1> QED
    BY <1>1, <1>2, <1>3, <1>4, <1>5, <1>6, <1>7, <1>8, <1>9 DEF Works

LEMMA TypeReleases ==
  ASSUME TypeOK,
         \/ \E l \in app : CVPixelBufferRelease(l)
         \/ \E x \in samples : ReleaseSample(x)
  PROVE  TypeOK'
  <1>1. ASSUME NEW l \in app, CVPixelBufferRelease(l) PROVE TypeOK'
    BY <1>1 DEF CVPixelBufferRelease, TypeOK, thread, outputs, history
  <1>2. ASSUME NEW x \in samples, ReleaseSample(x) PROVE TypeOK'
    <2>1. UNCHANGED << encoding, fifo >>
      BY <1>2 DEF ReleaseSample, FinalizeSample, ReleaseOutput, outputs, queues
    <2> QED
      BY <1>2, <2>1 DEF ReleaseSample, TypeOK, thread, history
  <1> QED
    BY <1>1, <1>2
-----------------------------------------------------------------------------
(* The line of outputs.                                                     *)

LEMMA AppendLine ==
  ASSUME NEW late, NEW T, NEW q \in Seq(T), NEW o \in T, InLine(late, q),
         \A u \in Elements(q) : Ahead(late, u, o)
  PROVE  InLine(late, Append(q, o))
  <1>1. PICK r : r = Append(q, o)
    BY Zenon
  <1>2. \A j \in DOMAIN r : (j \in DOMAIN q /\ r[j] = q[j]) \/ (j = Len(q) + 1 /\ r[j] = o)
    BY <1>1
  <1>3. ASSUME NEW i \in DOMAIN r, NEW j \in DOMAIN r, i < j PROVE Ahead(late, r[i], r[j])
    <2>1. i \in DOMAIN q /\ r[i] = q[i] /\ q[i] \in Elements(q)
      <3>1. j <= Len(q) + 1 /\ Len(q) \in Nat
        BY <1>2
      <3> QED
        BY <1>2, <1>3, <3>1 DEF Elements
    <2> QED
      BY <1>2, <1>3, <2>1 DEF InLine
  <1> QED
    BY <1>1, <1>3 DEF InLine

LEMMA TailLine ==
  ASSUME NEW late, NEW T, NEW q \in Seq(T), q # << >>, InLine(late, q)
  PROVE  InLine(late, Tail(q)) /\ \A u \in Elements(Tail(q)) : Ahead(late, Head(q), u)
  <1>1. PICK r : r = Tail(q)
    BY Zenon
  <1>2. \A i \in DOMAIN r : i \in Nat /\ i > 0 /\ i + 1 \in DOMAIN q /\ r[i] = q[i + 1]
    BY <1>1
  <1>3. 1 \in DOMAIN q /\ Head(q) = q[1]
    OBVIOUS
  <1>4. ASSUME NEW i \in DOMAIN r, NEW j \in DOMAIN r, i < j PROVE Ahead(late, r[i], r[j])
    <2>1. i + 1 < j + 1
      BY <1>2, <1>4
    <2> QED
      BY <1>2, <2>1 DEF InLine
  <1>5. ASSUME NEW i \in DOMAIN r PROVE Ahead(late, q[1], r[i])
    <2>1. 1 < i + 1
      BY <1>2
    <2> QED
      BY <1>2, <1>3, <2>1 DEF InLine
  <1> QED
    BY <1>1, <1>3, <1>4, <1>5 DEF InLine, Elements

LEMMA SplitLine ==
  ASSUME NEW late, NEW T, NEW q \in Seq(T), NEW n \in 0 .. Len(q), InLine(late, q),
         NEW a, a = SubSeq(q, 1, n), NEW b, b = SubSeq(q, n + 1, Len(q))
  PROVE  InLine(late, a) /\ InLine(late, b) /\ Follows(late, b, a)
  <1>1. /\ \A i \in DOMAIN a : i \in Nat /\ i <= n /\ i \in DOMAIN q /\ a[i] = q[i]
        /\ \A i \in DOMAIN b : i \in Nat /\ i > 0 /\ n + i \in DOMAIN q /\ b[i] = q[n + i]
    OBVIOUS
  <1>2. InLine(late, a)
    BY <1>1 DEF InLine
  <1>3. ASSUME NEW i \in DOMAIN b, NEW j \in DOMAIN b, i < j PROVE Ahead(late, b[i], b[j])
    <2>1. n + i < n + j
      BY <1>1, <1>3
    <2> QED
      BY <1>1, <2>1 DEF InLine
  <1>4. ASSUME NEW i \in DOMAIN a, NEW j \in DOMAIN b PROVE Ahead(late, a[i], b[j])
    <2>1. i < n + j
      BY <1>1
    <2> QED
      BY <1>1, <2>1 DEF InLine
  <1> QED
    BY <1>2, <1>3, <1>4 DEF InLine, Follows, Elements

LEMMA WithoutLine ==
  ASSUME NEW late, NEW late2, NEW T, NEW q \in Seq(T), NEW i \in DOMAIN q, InLine(late, q),
         late => late2, i = 1 \/ late2, NEW r, r = Without(q, i)
  PROVE  InLine(late2, r) /\ \A u \in Elements(r) : Ahead(late2, q[i], u)
  <1>1. /\ \A j \in DOMAIN r : LET k == IF j < i THEN j ELSE j + 1
                               IN  k \in DOMAIN q /\ k # i /\ r[j] = q[k]
        /\ r \in Seq(T) /\ i \in Nat \ {0} /\ \A k \in DOMAIN q : k \in Nat \ {0}
    BY WithoutElements
  <1>2. ASSUME NEW j \in DOMAIN r, NEW m \in DOMAIN r, j < m PROVE Ahead(late2, r[j], r[m])
    <2>1. j \in Nat /\ m \in Nat
      BY <1>1
    <2>2. PICK k \in DOMAIN q : k = (IF j < i THEN j ELSE j + 1) /\ r[j] = q[k]
      BY <1>1
    <2>3. PICK l \in DOMAIN q : l = (IF m < i THEN m ELSE m + 1) /\ r[m] = q[l]
      BY <1>1
    <2>4. k < l
      BY <1>1, <1>2, <2>1, <2>2, <2>3
    <2> QED
      BY <2>2, <2>3, <2>4 DEF InLine, Ahead
  <1>3. ASSUME NEW j \in DOMAIN r PROVE Ahead(late2, q[i], r[j])
    <2>1. PICK k \in DOMAIN q : k # i /\ r[j] = q[k]
      BY <1>1
    <2>2. k < i \/ i < k
      BY <1>1, <2>1
    <2>3. i = 1 => i < k
      BY <1>1, <2>2
    <2>4. q[i].frame # q[k].frame
      BY <2>2 DEF InLine, Ahead
    <2> QED
      BY <2>1, <2>2, <2>3, <2>4 DEF InLine, Ahead
  <1> QED
    BY <1>2, <1>3 DEF InLine, Elements
-----------------------------------------------------------------------------
(* Deliveries and pending entries.                                          *)

\* What the invariant says of a session is about this.
Flow(s) == << session[s], submitted[s], pending[s], batch[s], fifo[s], encoding[s],
              DeliveredOf(s) >>
Grows(s) == /\ delivered \subseteq delivered' /\ lost \subseteq lost'
            /\ s \in reordered' <=> s \in reordered

LEMMA FlowSame ==
  ASSUME NEW s, PathAt(s), PendingAt(s), Flow(s)' = Flow(s), Grows(s)
  PROVE  PathAt(s)' /\ PendingAt(s)'
  <1>1. /\ session'[s] = session[s] /\ submitted'[s] = submitted[s] /\ pending'[s] = pending[s]
        /\ batch'[s] = batch[s] /\ fifo'[s] = fifo[s]
        /\ encoding'[s] = encoding[s] /\ DeliveredOf(s)' = DeliveredOf(s)
    BY DEF Flow
  <1>2. OnTheWay(s)' = OnTheWay(s)
    BY <1>1 DEF OnTheWay
  <1>3. \A o : Travels(s, o) => Travels(s, o)'
    BY <1>1 DEF Travels, Grows
  <1>4. PathAt(s)'
    BY <1>1, <1>2, <1>3 DEF PathAt, Grows
  <1>5. PendingAt(s)'
    BY <1>1, <1>2, Zenon DEF PendingAt, Grows
  <1> QED
    BY <1>4, <1>5

\* What is used about cardinalities, with the first n frames of a session.  It
\* is proved at the end, where the theorems about finite sets are in scope.
Counting ==
    /\ \A S, T : IsFiniteSet(S) /\ T \in SUBSET S =>
                    /\ IsFiniteSet(T) /\ Cardinality(T) \in Nat
                    /\ Cardinality(S) = Cardinality(T) => S = T
    /\ \A S, x : IsFiniteSet(S) /\ x \notin S =>
                    Cardinality(S \cup {x}) = Cardinality(S) + 1
    /\ \A s : \A n \in Nat : /\ IsFiniteSet({s} \X (1 .. n))
                             /\ Cardinality({s} \X (1 .. n)) = n
    /\ Cardinality({}) = 0

LEMMA DeliveredCount ==
  ASSUME Counting, TypeOK, NEW s \in Sessions, PendingAt(s)
  PROVE  /\ IsFiniteSet(DeliveredOf(s)) /\ Cardinality(DeliveredOf(s)) \in Nat
         /\ DeliveredOf(s) \in SUBSET ({s} \X (1 .. submitted[s]))
         /\ submitted[s] \in Nat /\ pending[s] \in Seq(Pending) /\ Len(pending[s]) \in Nat
  <1>1. submitted[s] \in Nat /\ pending[s] \in Seq(Pending) /\ Len(pending[s]) \in Nat
    BY DEF TypeOK
  <1>2. ASSUME NEW f \in DeliveredOf(s) PROVE f \in {s} \X (1 .. submitted[s])
    <2>1. f \in Frame /\ f[1] = s /\ f[2] <= submitted[s]
      BY DEF TypeOK, DeliveredOf, PendingAt
    <2> QED
      BY <1>1, <2>1 DEF Frame
  <1>3. IsFiniteSet({s} \X (1 .. submitted[s]))
    BY <1>1, Zenon DEF Counting
  <1>4. DeliveredOf(s) \in SUBSET ({s} \X (1 .. submitted[s]))
    BY <1>2, Zenon
  <1>5. IsFiniteSet(DeliveredOf(s)) /\ Cardinality(DeliveredOf(s)) \in Nat
    BY <1>3, <1>4, Zenon DEF Counting
  <1> QED
    BY <1>1, <1>4, <1>5, Zenon

\* No entry pending: everything was delivered, and nothing is on its way.
LEMMA AllDelivered ==
  ASSUME Counting, TypeOK, NEW s \in Sessions, PathAt(s), PendingAt(s), session[s] # "finalized",
         pending[s] = << >>
  PROVE  (\A n \in 1 .. submitted[s] : << s, n >> \in delivered) /\ batch[s] = << >>
  <1>1. /\ Cardinality(DeliveredOf(s)) \in Nat /\ submitted[s] \in Nat
        /\ DeliveredOf(s) \in SUBSET ({s} \X (1 .. submitted[s]))
    BY DeliveredCount
  <1>2. Cardinality(DeliveredOf(s)) = submitted[s]
    <2>1. Len(pending[s]) = 0
      OBVIOUS
    <2>2. Cardinality(DeliveredOf(s)) + Len(pending[s]) = submitted[s]
      BY DEF PendingAt
    <2> QED
      BY <1>1, <2>1, <2>2
  <1>3. DeliveredOf(s) = {s} \X (1 .. submitted[s])
    <2>1. PICK P : P = {s} \X (1 .. submitted[s])
      BY ZenonT(60)
    <2>2. IsFiniteSet(P) /\ Cardinality(P) = submitted[s]
      BY <1>1, <2>1, ZenonT(60) DEF Counting
    <2>3. DeliveredOf(s) \in SUBSET P
      BY <1>1, <2>1
    <2>4. P = DeliveredOf(s)
      <3>1. Cardinality(P) = Cardinality(DeliveredOf(s))
        BY <1>2, <2>2, Zenon
      <3> QED
        BY <2>2, <2>3, <3>1, SMT DEF Counting
    <2> QED
      BY <2>1, <2>4
  <1>4. \A n \in 1 .. submitted[s] : << s, n >> \in delivered
    BY <1>3 DEF DeliveredOf
  <1>5. ASSUME batch[s] # << >> PROVE FALSE
    <2>1. batch[s] \in Seq(Output)
      BY DEF TypeOK
    <2>2. PICK o : o = Head(batch[s])
      OBVIOUS
    <2>3. o \in Output /\ o \in OnTheWay(s)
      BY <1>5, <2>1, <2>2, TailElements DEF OnTheWay
    <2>4. o.frame \in Frame
      BY <2>3 DEF Output
    <2>5. o.frame[1] = s /\ o.frame[2] <= submitted[s] /\ o.frame \notin DeliveredOf(s)
      BY <2>3 DEF PathAt, Travels
    <2>6. o.frame \in {s} \X (1 .. submitted[s])
      BY <1>1, <2>4, <2>5 DEF Frame
    <2> QED
      BY <1>3, <2>5, <2>6
  <1> QED
    BY <1>4, <1>5

\* Nothing stands before the first output of the batch.
LEMMA HeadFirst ==
  ASSUME TypeOK, NEW s \in Sessions, PathAt(s), batch[s] # << >>, NEW h, h = Head(batch[s])
  PROVE  /\ h.frame \in Frame /\ h \in OnTheWay(s) /\ Travels(s, h)
         /\ \A u \in OnTheWay(s) : u = h \/ Ahead(s \in reordered, h, u)
         /\ \A u \in Elements(Tail(batch[s])) \cup Elements(fifo[s])
                     \cup Elements(encoding[s]) :
               u \in OnTheWay(s) /\ Ahead(s \in reordered, h, u)
         /\ InLine(s \in reordered, Tail(batch[s]))
  <1>1. batch[s] \in Seq(Output)
    BY DEF TypeOK
  <1>2. /\ h \in Output /\ h \in Elements(batch[s])
        /\ Elements(Tail(batch[s])) \subseteq Elements(batch[s])
        /\ \A u \in Elements(batch[s]) : u = h \/ u \in Elements(Tail(batch[s]))
    BY <1>1, TailElements
  <1>3. /\ InLine(s \in reordered, Tail(batch[s]))
        /\ \A u \in Elements(Tail(batch[s])) : Ahead(s \in reordered, h, u)
    BY <1>1, TailLine DEF PathAt, Lined
  <1>4. \A u \in Elements(fifo[s]) \cup Elements(encoding[s]) :
           Ahead(s \in reordered, h, u)
    BY <1>2 DEF PathAt, Lined, Follows
  <1>5. h.frame \in Frame /\ h \in OnTheWay(s)
    BY <1>2 DEF Output, OnTheWay
  <1>6. Travels(s, h)
    BY <1>5 DEF PathAt
  <1> QED
    BY <1>2, <1>3, <1>4, <1>5, <1>6, ZenonT(60) DEF OnTheWay
\* A step of one session leaves the others alone.
LEMMA OneFlows ==
  ASSUME DeliveryInv, NEW s \in Sessions, PathAt(s)' /\ PendingAt(s)',
         \A t \in Sessions \ {s} : Flow(t)' = Flow(t) /\ Grows(t)
  PROVE  DeliveryInv'
  <1>1. ASSUME NEW t \in Sessions \ {s} PROVE PathAt(t)' /\ PendingAt(t)'
    BY FlowSame DEF DeliveryInv
  <1> QED
    BY <1>1 DEF DeliveryInv

LEMMA CreateFlows ==
  ASSUME TypeOK, DeliveryInv, NEW s \in Sessions, VTCompressionSessionCreate(s)
  PROVE  DeliveryInv'
  <1>1. /\ session' = [session EXCEPT ![s] = "live"] /\ session[s] = "none"
        /\ UNCHANGED << submitted, pending, batch, delivered, lost, reordered >>
        /\ fifo' = fifo /\ encoding' = encoding
        /\ PathAt(s) /\ PendingAt(s)
    BY DEF VTCompressionSessionCreate, queues, history, DeliveryInv
  <1>2. session'[s] = "live" /\ \A t \in Sessions \ {s} : session'[t] = session[t]
    BY <1>1 DEF TypeOK
  <1>3. \A t \in Sessions \ {s} : Flow(t)' = Flow(t) /\ Grows(t)
    BY <1>1, <1>2 DEF Flow, Grows, DeliveredOf
  <1>4. OnTheWay(s)' = OnTheWay(s) /\ DeliveredOf(s)' = DeliveredOf(s)
    BY <1>1 DEF OnTheWay, DeliveredOf
  <1>5. \A o : Travels(s, o) => Travels(s, o)'
    BY <1>1, <1>4 DEF Travels
  <1>6. PathAt(s)'
    BY <1>1, <1>2, <1>4, <1>5 DEF PathAt
  <1>7. PendingAt(s)'
    <2>1. submitted'[s] = 0
      BY <1>1, Zenon DEF PathAt
    <2>2. \A n \in 1 .. submitted'[s] : FALSE
      BY <2>1
    <2> QED
      BY <1>1, <1>2, <1>4, <2>2 DEF PendingAt
  <1> QED
    BY <1>3, <1>6, <1>7, OneFlows

LEMMA EncodeFlows ==
  ASSUME Counting, TypeOK, DeliveryInv, NEW s \in Sessions, NEW l \in app,
         VTCompressionSessionEncodeFrame(s, l)
  PROVE  DeliveryInv'
  <1>1. PICK f : f = << s, submitted[s] + 1 >>
    BY Zenon
  <1>2. PICK o : o = [frame |-> f, source |-> l]
    BY ZenonT(60)
  <1>3. PICK n : n = submitted[s]
    OBVIOUS
  <1>4. /\ o \in Output /\ fifo' = fifo
        /\ \/ encoding' = [encoding EXCEPT ![s] = Append(@, o)] /\ lost' = lost
           \/ encoding' = encoding /\ lost' = lost \cup {f}
    <2>1. f \in Frame /\ l \in Leases
      BY <1>1 DEF TypeOK, Frame
    <2> QED
      BY <1>1, <1>2, <2>1 DEF Output, VTCompressionSessionEncodeFrame
  <1>5. /\ submitted' = [submitted EXCEPT ![s] = @ + 1]
        /\ pending' = [pending EXCEPT ![s] = Append(@, [source |-> l, refcon |-> f])]
        /\ UNCHANGED << session, batch, delivered, reordered >> /\ session[s] = "live"
    BY <1>1 DEF VTCompressionSessionEncodeFrame, PushPending, Idle
  <1>6. /\ n \in Nat /\ pending[s] \in Seq(Pending) /\ encoding[s] \in Seq(Output)
        /\ fifo[s] \in Seq(Output) /\ batch[s] \in Seq(Output)
        /\ PathAt(s) /\ PendingAt(s)
    BY <1>3 DEF TypeOK, DeliveryInv
  <1>7. /\ submitted \in [Sessions -> Nat] /\ pending \in [Sessions -> Seq(Pending)]
        /\ encoding \in [Sessions -> Seq(Output)] /\ delivered \subseteq Frame
    BY DEF TypeOK
  <1>8. /\ submitted'[s] = n + 1
        /\ pending'[s] = Append(pending[s], [source |-> l, refcon |-> f])
        /\ \/ encoding'[s] = Append(encoding[s], o) /\ lost' = lost
           \/ encoding'[s] = encoding[s] /\ lost' = lost \cup {f}
    BY <1>7, <1>3, <1>4, <1>5
  <1>9. \A t \in Sessions \ {s} : Flow(t)' = Flow(t) /\ Grows(t)
    <2>1. \A t \in Sessions \ {s} : /\ submitted'[t] = submitted[t] /\ pending'[t] = pending[t]
                                    /\ encoding'[t] = encoding[t]
      BY <1>7, <1>4, <1>5
    <2> QED
      BY <1>4, <1>5, <2>1, ZenonT(60) DEF Flow, Grows, DeliveredOf
  <1>10. DeliveredOf(s)' = DeliveredOf(s) /\ f[1] = s /\ f[2] = n + 1 /\ o.frame = f
    BY <1>1, <1>2, <1>3, <1>5 DEF DeliveredOf
  <1>11. n \in Nat
    BY <1>6
  <1>12. /\ \A u \in OnTheWay(s) : u \in Output
         /\ \A d \in DeliveredOf(s) : d \in Frame /\ d[2] <= n
    <2>1. \A u \in OnTheWay(s) : u \in Output
      BY <1>6 DEF OnTheWay, Elements
    <2> QED
      BY <1>7, <1>3, <1>6, <2>1 DEF DeliveredOf, PendingAt
  <1>13. ASSUME NEW u \in OnTheWay(s)
         PROVE  Travels(s, u)' /\ Ahead(s \in reordered, u, o)
    <2>0. Travels(s, u) /\ u.frame[2] <= n
      BY <1>3, <1>6 DEF PathAt, Travels
    <2>1. u.frame \in Frame /\ u.frame[2] \in Nat /\ u.frame[2] <= n /\ Travels(s, u)
      BY <1>12, <2>0 DEF Output, Frame
    <2>2. u.frame[2] <= n + 1 /\ u.frame[2] < n + 1
      BY <1>11, <2>1
    <2>3. Travels(s, u)'
      BY <1>5, <1>8, <1>10, <2>1, <2>2, ZenonT(60) DEF Travels
    <2>4. u.frame # f
      BY <1>11, <1>10, <2>1, <2>2
    <2> QED
      BY <1>10, <2>2, <2>3, <2>4, ZenonT(60) DEF Ahead
  <1>14. Travels(s, o)'
    <2>1. \A d \in DeliveredOf(s) : d[2] < n + 1
      BY <1>11, <1>12 DEF Frame
    <2>2. \A d \in DeliveredOf(s) : d # f
      BY <1>11, <1>10, <2>1
    <2>3. n + 1 <= n + 1
      BY <1>11
    <2> QED
      BY <1>8, <1>10, <2>1, <2>2, <2>3 DEF Travels
  <1>15. Elements(Append(encoding[s], o)) = Elements(encoding[s]) \cup {o}
    BY <1>4, <1>6, AppendElements
  <1>16. \/ Elements(encoding'[s]) = Elements(encoding[s]) \cup {o}
         \/ Elements(encoding'[s]) = Elements(encoding[s]) /\ f \in lost'
    <2>1. f \in lost \cup {f}
      OBVIOUS
    <2> QED
      BY <1>15, <1>8, <2>1, Zenon
  <1>17. /\ OnTheWay(s) \subseteq OnTheWay(s)' /\ OnTheWay(s)' \subseteq OnTheWay(s) \cup {o}
         /\ f \in lost' \/ o \in OnTheWay(s)'
    BY <1>4, <1>5, <1>16 DEF OnTheWay
  <1>18. PathAt(s)'
    <2>1. Lined(s \in reordered, batch[s], fifo[s], Append(encoding[s], o))
      <3>1. PICK q : q = encoding[s]
        OBVIOUS
      <3>2. /\ q \in Seq(Output) /\ o \in Output /\ InLine(s \in reordered, q)
            /\ \A u \in Elements(q) : Ahead(s \in reordered, u, o)
        BY <1>4, <1>6, <1>13, <3>1, ZenonT(60) DEF OnTheWay, PathAt, Lined
      <3>3. InLine(s \in reordered, Append(q, o))
        BY <3>2, AppendLine, ZenonT(60)
      <3>4. \A u \in Elements(batch[s]) \cup Elements(fifo[s]) : Ahead(s \in reordered, u, o)
        BY <1>13 DEF OnTheWay
      <3> QED
        BY <1>15, <1>6, <3>1, <3>3, <3>4, ZenonT(60) DEF PathAt, Lined, Follows
    <2>2. Lined(s \in reordered, batch[s], fifo[s], encoding'[s])
      BY <1>6, <1>8, <2>1, ZenonT(60) DEF PathAt
    <2>3. \A u \in OnTheWay(s)' : Travels(s, u)'
      BY <1>13, <1>14, <1>17
    <2> QED
      BY <1>4, <1>5, <2>2, <2>3, ZenonT(60) DEF PathAt
  <1>19. PendingAt(s)'
    <2>1. PICK p : p = pending[s]
      OBVIOUS
    <2>2. PICK r : r = Append(p, [source |-> l, refcon |-> f])
      BY ZenonT(60)
    <2>3. /\ p \in Seq(Pending) /\ Len(p) \in Nat /\ Len(r) = Len(p) + 1
          /\ \A i \in DOMAIN r : \/ i \in DOMAIN p /\ r[i] = p[i]
                                 \/ i = Len(p) + 1 /\ r[i].refcon = f
      BY <1>6, <2>1, <2>2
    <2>4. \A i \in DOMAIN p : i \in Nat /\ p[i].refcon = << s, n - Len(p) + i >>
      BY <1>3, <1>6, <2>1, <2>3 DEF PendingAt
    <2>5. ASSUME NEW i \in DOMAIN r PROVE r[i].refcon = << s, (n + 1) - Len(r) + i >>
      <3>1. CASE i \in DOMAIN p /\ r[i] = p[i]
        <4>1. (n + 1) - Len(r) + i = n - Len(p) + i
          BY <1>11, <2>3, <2>4, <3>1
        <4> QED
          BY <2>4, <3>1, <4>1
      <3>2. CASE i = Len(p) + 1 /\ r[i].refcon = f
        <4>1. (n + 1) - Len(r) + i = n + 1
          BY <1>11, <2>3, <3>2
        <4> QED
          BY <1>1, <1>3, <3>2, <4>1
      <3> QED
        BY <2>3, <3>1, <3>2
    <2>6. Cardinality(DeliveredOf(s)) + Len(r) = n + 1
      <3>1. Cardinality(DeliveredOf(s)) + Len(p) = n /\ Cardinality(DeliveredOf(s)) \in Nat
        BY <1>3, <1>5, <1>6, <2>1, DeliveredCount, ZenonT(60) DEF PendingAt
      <3> QED
        BY <1>11, <2>3, <3>1
    <2>7. \A d \in DeliveredOf(s) : d[2] <= n + 1
      BY <1>11, <1>12 DEF Frame
    <2>8. ASSUME NEW k \in 1 .. n + 1
          PROVE  << s, k >> \in delivered \cup lost' \cup {u.frame : u \in OnTheWay(s)'}
      <3>1. CASE k = n + 1
        BY <1>1, <1>3, <1>10, <1>17, <3>1
      <3>2. CASE k # n + 1
        <4>1. k \in 1 .. n
          BY <1>11, <3>2
        <4>2. << s, k >> \in delivered \cup lost \cup {u.frame : u \in OnTheWay(s)}
          BY <1>3, <1>5, <1>6, <4>1, ZenonT(60) DEF PendingAt
        <4> QED
          BY <1>4, <1>17, <4>2
      <3> QED
        BY <3>1, <3>2
    <2>9. pending'[s] = r
      BY <1>8, <2>1, <2>2
    <2> QED
      BY <1>5, <1>8, <1>10, <2>5, <2>6, <2>7, <2>8, <2>9, ZenonT(60) DEF PendingAt
  <1> QED
    BY <1>9, <1>18, <1>19, OneFlows

\* Outputs move along the line or leave it, and nothing is delivered.
LEMMA FlowMoves ==
  ASSUME NEW s, PathAt(s), PendingAt(s), pending'[s] = pending[s], submitted'[s] = submitted[s],
         delivered' = delivered, lost \subseteq lost', s \in reordered => s \in reordered',
         session'[s] = session[s] \/ (session'[s] \in {"invalidated", "finalized"}
                                      /\ session[s] # "finalized"),
         OnTheWay(s)' \subseteq OnTheWay(s),
         session'[s] = "live" => \A u \in OnTheWay(s) : u \in OnTheWay(s)' \/ u.frame \in lost',
         Lined(s \in reordered', batch'[s], fifo'[s], encoding'[s])
  PROVE  PathAt(s)' /\ PendingAt(s)'
  <1>1. DeliveredOf(s)' = DeliveredOf(s)
    BY DEF DeliveredOf
  <1>2. \A o : Travels(s, o) => Travels(s, o)'
    BY <1>1, ZenonT(60) DEF Travels
  <1>3. session'[s] = "none" => submitted'[s] = 0
    BY ZenonT(60) DEF PathAt
  <1>4. PathAt(s)'
    BY <1>2, <1>3, ZenonT(60) DEF PathAt
  <1>5. ASSUME session'[s] = "live", NEW n \in 1 .. submitted[s]
        PROVE  << s, n >> \in delivered' \cup lost' \cup {o.frame : o \in OnTheWay(s)'}
    <2>1. << s, n >> \in delivered \cup lost \cup {o.frame : o \in OnTheWay(s)}
      BY <1>5, ZenonT(60) DEF PendingAt
    <2> QED
      BY <1>5, <2>1, ZenonT(60)
  <1>6. PendingAt(s)'
    BY <1>1, <1>5, Zenon DEF PendingAt
  <1> QED
    BY <1>4, <1>6

LEMMA EmptyLine == Elements(<< >>) = {} /\ \A late : InLine(late, << >>)
  BY DEF Elements, InLine

LEMMA EndFlows ==
  ASSUME TypeOK, DeliveryInv, NEW s \in Sessions,
         VTCompressionSessionInvalidate(s) \/ ReleaseSession(s)
  PROVE  DeliveryInv'
  <1>3. /\ \/ session' = [session EXCEPT ![s] = "invalidated"]
           \/ session' = [session EXCEPT ![s] = "finalized"]
        /\ session[s] # "finalized"
        /\ UNCHANGED << submitted, pending, batch, delivered, lost, reordered >>
    BY DEF VTCompressionSessionInvalidate, ReleaseSession, Idle, history
  <1>4. /\ session'[s] \in {"invalidated", "finalized"}
        /\ \A t \in Sessions \ {s} : session'[t] = session[t]
    BY <1>3 DEF TypeOK
  <1>5. /\ \/ encoding'[s] = << >> /\ fifo'[s] = << >>
           \/ encoding'[s] = encoding[s] /\ fifo'[s] = fifo[s]
        /\ \A t \in Sessions \ {s} : encoding'[t] = encoding[t] /\ fifo'[t] = fifo[t]
    BY Ends DEF TypeOK
  <1>6. \A t \in Sessions \ {s} : Flow(t)' = Flow(t) /\ Grows(t)
    BY <1>3, <1>4, <1>5 DEF Flow, Grows, DeliveredOf
  <1>7. PathAt(s) /\ PendingAt(s)
    BY DEF DeliveryInv
  <1>8. OnTheWay(s)' \subseteq OnTheWay(s)
    BY <1>3, <1>5, EmptyLine, ZenonT(60) DEF OnTheWay
  <1>9. Lined(s \in reordered, batch[s], fifo'[s], encoding'[s])
    BY <1>5, <1>7, EmptyLine, ZenonT(60) DEF PathAt, Lined, Follows
  <1>10. PathAt(s)' /\ PendingAt(s)'
    BY <1>3, <1>4, <1>7, <1>8, <1>9, FlowMoves, ZenonT(60)
  <1> QED
    BY <1>6, <1>10, OneFlows

\* A failed read, and a frame that VideoToolbox drops.
LEMMA LossFlows ==
  ASSUME TypeOK, DeliveryInv, NEW s \in Sessions, ReadOutputFails(s) \/ VTDrops(s)
  PROVE  DeliveryInv'
  <1>1. /\ PathAt(s) /\ PendingAt(s) /\ encoding[s] \in Seq(Output)
        /\ encoding \in [Sessions -> Seq(Output)] /\ batch \in [Sessions -> Seq(Output)]
    BY DEF DeliveryInv, TypeOK
  <1>2. /\ UNCHANGED << session, submitted, pending, delivered, reordered, fifo >>
        /\ \/ /\ batch' = [batch EXCEPT ![s] = << >>] /\ encoding' = encoding
              /\ lost' = lost \cup {o.frame : o \in Elements(batch[s])}
           \/ /\ batch' = batch /\ encoding' = [encoding EXCEPT ![s] = Tail(@)]
              /\ encoding[s] # << >> /\ lost' = lost \cup {Head(encoding[s]).frame}
    BY DEF ReadOutputFails, VTDrops, thread, outputs
  <1>3. \A t \in Sessions \ {s} : batch'[t] = batch[t] /\ encoding'[t] = encoding[t]
    BY <1>1, <1>2
  <1>4. \A t \in Sessions \ {s} : Flow(t)' = Flow(t) /\ Grows(t)
    BY <1>2, <1>3 DEF Flow, Grows, DeliveredOf
  <1>5. /\ OnTheWay(s)' \subseteq OnTheWay(s)
        /\ \A u \in OnTheWay(s) : u \in OnTheWay(s)' \/ u.frame \in lost'
        /\ Lined(s \in reordered, batch'[s], fifo[s], encoding'[s])
    <2>1. CASE /\ batch' = [batch EXCEPT ![s] = << >>] /\ encoding' = encoding
               /\ lost' = lost \cup {o.frame : o \in Elements(batch[s])}
      <3>1. batch'[s] = << >>
        BY <1>1, <2>1, ZenonT(60)
      <3> QED
        BY <1>1, <1>2, <2>1, <3>1, EmptyLine, ZenonT(60) DEF OnTheWay, PathAt, Lined, Follows
    <2>2. CASE /\ batch' = batch /\ encoding' = [encoding EXCEPT ![s] = Tail(@)]
               /\ encoding[s] # << >> /\ lost' = lost \cup {Head(encoding[s]).frame}
      <3>1. encoding'[s] = Tail(encoding[s])
        BY <1>1, <2>2
      <3>2. /\ Elements(Tail(encoding[s])) \subseteq Elements(encoding[s])
            /\ \A e \in Elements(encoding[s]) :
                  e = Head(encoding[s]) \/ e \in Elements(Tail(encoding[s]))
        BY <1>1, <2>2, TailElements
      <3>3. InLine(s \in reordered, Tail(encoding[s]))
        BY <1>1, <2>2, TailLine, ZenonT(60) DEF PathAt, Lined
      <3>4. Lined(s \in reordered, batch'[s], fifo[s], encoding'[s])
        BY <1>1, <2>2, <3>1, <3>2, <3>3, ZenonT(60) DEF PathAt, Lined, Follows
      <3> QED
        BY <1>2, <2>2, <3>1, <3>2, <3>4, ZenonT(60) DEF OnTheWay
    <2> QED
      BY <1>2, <2>1, <2>2, ZenonT(60)
  <1>6. PathAt(s)' /\ PendingAt(s)'
    <2>1. lost \subseteq lost'
      BY <1>2
    <2> QED
      BY <1>1, <1>2, <1>5, <2>1, FlowMoves, ZenonT(60)
  <1> QED
    BY <1>4, <1>6, OneFlows

LEMMA DequeueFlows ==
  ASSUME TypeOK, DeliveryInv, NEW s \in Sessions, vtf_dequeue_ready_outputs(s)
  PROVE  DeliveryInv'
  <1>1. /\ PathAt(s) /\ PendingAt(s) /\ fifo[s] \in Seq(Output)
        /\ fifo \in [Sessions -> Seq(Output)] /\ batch \in [Sessions -> Seq(Output)]
    BY DEF DeliveryInv, TypeOK
  <1>2. PICK n \in 1 .. Len(fifo[s]) :
           /\ batch' = [batch EXCEPT ![s] = SubSeq(fifo[s], 1, n)]
           /\ fifo' = [fifo EXCEPT ![s] = SubSeq(fifo[s], n + 1, Len(fifo[s]))]
    BY DequeueSplits
  <1>3. /\ UNCHANGED << session, submitted, pending, delivered, lost, reordered, encoding >>
        /\ batch[s] = << >>
    BY DEF vtf_dequeue_ready_outputs, history
  <1>4. /\ batch'[s] = SubSeq(fifo[s], 1, n)
        /\ fifo'[s] = SubSeq(fifo[s], n + 1, Len(fifo[s]))
        /\ \A t \in Sessions \ {s} : batch'[t] = batch[t] /\ fifo'[t] = fifo[t]
    BY <1>1, <1>2
  <1>5. \A t \in Sessions \ {s} : Flow(t)' = Flow(t) /\ Grows(t)
    BY <1>3, <1>4 DEF Flow, Grows, DeliveredOf
  <1>6. n \in 0 .. Len(fifo[s])
    BY <1>1, <1>2
  <1>7. Elements(fifo[s]) = Elements(batch'[s]) \cup Elements(fifo'[s])
    <2>1. PICK q : q = fifo[s]
      OBVIOUS
    <2>2. q \in Seq(Output) /\ n \in 0 .. Len(q)
      BY <1>1, <1>6, <2>1
    <2>3. Elements(q) = Elements(SubSeq(q, 1, n)) \cup Elements(SubSeq(q, n + 1, Len(q)))
      BY <2>2, SubSeqElements, Zenon
    <2> QED
      BY <1>4, <2>1, <2>3, Zenon
  <1>8. /\ InLine(s \in reordered, batch'[s]) /\ InLine(s \in reordered, fifo'[s])
        /\ Follows(s \in reordered, fifo'[s], batch'[s])
    BY <1>1, <1>4, <1>6, SplitLine, ZenonT(60) DEF PathAt, Lined
  <1>9. Lined(s \in reordered, batch'[s], fifo'[s], encoding[s])
    BY <1>1, <1>7, <1>8, ZenonT(60) DEF PathAt, Lined, Follows
  <1>10. OnTheWay(s)' = OnTheWay(s)
    BY <1>3, <1>7, EmptyLine, ZenonT(60) DEF OnTheWay
  <1>11. PathAt(s)' /\ PendingAt(s)'
    BY <1>1, <1>3, <1>9, <1>10, FlowMoves, ZenonT(60)
  <1> QED
    BY <1>5, <1>11, OneFlows

LEMMA EmitsFlows ==
  ASSUME TypeOK, DeliveryInv, NEW s \in Sessions, NEW i \in DOMAIN encoding[s], VTEmits(s, i)
  PROVE  DeliveryInv'
  <1>1. /\ PathAt(s) /\ PendingAt(s) /\ fifo[s] \in Seq(Output) /\ encoding[s] \in Seq(Output)
        /\ fifo \in [Sessions -> Seq(Output)] /\ encoding \in [Sessions -> Seq(Output)]
    BY DEF DeliveryInv, TypeOK
  <1>2. PICK o : o = encoding[s][i]
    OBVIOUS
  <1>3. PICK r : r = Without(encoding[s], i)
    OBVIOUS
  <1>4. /\ encoding' = [encoding EXCEPT ![s] = r] /\ fifo' = [fifo EXCEPT ![s] = Append(@, o)]
        /\ UNCHANGED << session, submitted, pending, batch, delivered, lost >>
        /\ reordered' = (IF i = 1 THEN reordered ELSE reordered \cup {s})
    BY <1>2, <1>3 DEF VTEmits, thread
  <1>5. /\ encoding'[s] = r /\ fifo'[s] = Append(fifo[s], o)
        /\ \A t \in Sessions \ {s} : encoding'[t] = encoding[t] /\ fifo'[t] = fifo[t]
    BY <1>1, <1>4
  <1>6. \A t \in Sessions \ {s} : Flow(t)' = Flow(t) /\ Grows(t)
    BY <1>4, <1>5, Zenon DEF Flow, Grows, DeliveredOf
  <1>7. (s \in reordered => s \in reordered') /\ (i = 1 \/ s \in reordered')
    BY <1>4
  <1>8. /\ o \in Output /\ o \in Elements(encoding[s])
        /\ Elements(r) \subseteq Elements(encoding[s])
        /\ \A e \in Elements(encoding[s]) : e = o \/ e \in Elements(r)
    <2>1. PICK q : q = encoding[s]
      OBVIOUS
    <2>2. q \in Seq(Output) /\ i \in DOMAIN q
      BY <1>1, <2>1
    <2>3. q[i] \in Output /\ q[i] \in Elements(q)
      BY <2>2 DEF Elements
    <2>4. /\ Elements(Without(q, i)) \subseteq Elements(q)
          /\ \A e \in Elements(q) : e = q[i] \/ e \in Elements(Without(q, i))
      BY <2>2, WithoutElements, Zenon
    <2> QED
      BY <1>2, <1>3, <2>1, <2>3, <2>4, Zenon
  <1>9. Elements(Append(fifo[s], o)) = Elements(fifo[s]) \cup {o}
    BY <1>1, <1>8, AppendElements
  <1>10. InLine(s \in reordered', r) /\ \A u \in Elements(r) : Ahead(s \in reordered', o, u)
    <2>1. PICK q : q = encoding[s]
      OBVIOUS
    <2>2. q \in Seq(Output) /\ i \in DOMAIN q /\ InLine(s \in reordered, q)
      BY <1>1, <2>1, ZenonT(60) DEF PathAt, Lined
    <2>3. /\ InLine(s \in reordered', Without(q, i))
          /\ \A u \in Elements(Without(q, i)) : Ahead(s \in reordered', q[i], u)
      BY <1>7, <2>2, WithoutLine, Zenon
    <2> QED
      BY <1>2, <1>3, <2>1, <2>3, Zenon
  <1>11. Lined(s \in reordered', batch[s], fifo[s], encoding[s])
    BY <1>1, <1>7, ZenonT(60) DEF PathAt, Lined, InLine, Follows, Ahead
  <1>12. InLine(s \in reordered', Append(fifo[s], o))
    BY <1>1, <1>8, <1>11, AppendLine DEF Lined, Follows
  <1>13. Lined(s \in reordered', batch'[s], fifo'[s], encoding'[s])
    BY <1>4, <1>5, <1>8, <1>9, <1>10, <1>11, <1>12, ZenonT(60) DEF Lined, Follows
  <1>14. OnTheWay(s)' = OnTheWay(s)
    BY <1>4, <1>5, <1>8, <1>9 DEF OnTheWay
  <1>15. PathAt(s)' /\ PendingAt(s)'
    BY <1>1, <1>4, <1>7, <1>13, <1>14, FlowMoves, ZenonT(60)
  <1> QED
    BY <1>6, <1>15, OneFlows

LEMMA FinalizePendingFlows ==
  ASSUME TypeOK, DeliveryInv, NEW s \in Sessions, FinalizePending(s)
  PROVE  DeliveryInv'
  <1>1. /\ pending \in [Sessions -> Seq(Pending)] /\ submitted[s] \in Nat
        /\ PathAt(s) /\ PendingAt(s)
    BY DEF TypeOK, DeliveryInv
  <1>2. /\ pending' = [pending EXCEPT ![s] = Tail(@)] /\ pending[s] # << >>
        /\ UNCHANGED << session, submitted, batch, fifo, encoding, delivered, lost, reordered >>
        /\ session[s] = "finalized"
    BY DEF FinalizePending, outputs, history
  <1>3. \A t \in Sessions \ {s} : Flow(t)' = Flow(t) /\ Grows(t)
    BY <1>1, <1>2 DEF Flow, Grows, DeliveredOf
  <1>4. PathAt(s)'
    BY <1>1, <1>2, ZenonT(60) DEF PathAt, Lined, OnTheWay, Travels, DeliveredOf
  <1>5. PICK r, n, m : r = Tail(pending[s]) /\ n = submitted[s] /\ m = Len(pending[s])
    BY ZenonT(60)
  <1>6. /\ pending'[s] = r /\ n \in Nat /\ m \in Nat /\ Len(r) = m - 1
        /\ \A i \in DOMAIN r : /\ i \in Nat /\ r[i] = pending[s][i + 1]
                               /\ i + 1 \in DOMAIN pending[s]
    BY <1>1, <1>2, <1>5
  <1>7. ASSUME NEW i \in DOMAIN r PROVE r[i].refcon = << s, n - Len(r) + i >>
    <2>1. n - m + (i + 1) = n - Len(r) + i
      BY <1>6
    <2> QED
      BY <1>1, <1>5, <1>6, <2>1, ZenonT(60) DEF PendingAt
  <1>8. PendingAt(s)'
    BY <1>1, <1>2, <1>5, <1>6, <1>7, ZenonT(60) DEF PendingAt, DeliveredOf
  <1> QED
    BY <1>3, <1>4, <1>8, OneFlows

LEMMA DeliverFlows ==
  ASSUME Counting, TypeOK, DeliveryInv, OutputsPaired, NEW s \in Sessions, vtf_deliver_one_output(s)
  PROVE  DeliveryInv' /\ OutputsPaired'
  <1>1. /\ session[s] = "live" /\ batch[s] # << >> /\ batch[s] \in Seq(Output)
        /\ pending \in [Sessions -> Seq(Pending)] /\ batch \in [Sessions -> Seq(Output)]
        /\ sample \in [Sessions -> Sample \cup {NoSample}] /\ delivered \subseteq Frame
        /\ PathAt(s) /\ PendingAt(s)
    BY DEF vtf_deliver_one_output, Delivering, TypeOK, DeliveryInv
  <1>2. pending[s] # << >> /\ pending[s] \in Seq(Pending)
    BY <1>1, AllDelivered, Zenon
  <1>3. PICK h : h = Head(batch[s])
    OBVIOUS
  <1>4. PICK g : g = h.frame
    OBVIOUS
  <1>5. PICK p : p = pending[s]
    OBVIOUS
  <1>6. PICK n : n = submitted[s]
    OBVIOUS
  <1>7. PICK D : D = DeliveredOf(s)
    OBVIOUS
  <1>8. /\ sample' = [sample EXCEPT ![s] = NewSample(h, Head(p))]
        /\ pending' = [pending EXCEPT ![s] = Tail(@)] /\ batch' = [batch EXCEPT ![s] = Tail(@)]
        /\ delivered' = delivered \cup {g}
        /\ UNCHANGED << session, submitted, lost, reordered, fifo, encoding >>
    <2>1. /\ sample' = [sample EXCEPT ![s] = NewSample(Head(batch[s]), Head(pending[s]))]
          /\ pending' = [pending EXCEPT ![s] = Tail(@)] /\ batch' = [batch EXCEPT ![s] = Tail(@)]
          /\ delivered' = delivered \cup {Head(batch[s]).frame}
          /\ UNCHANGED << session, submitted, lost, reordered, fifo, encoding >>
      BY DEF vtf_deliver_one_output, Entry, outputs
    <2> QED
      BY <1>3, <1>4, <1>5, <2>1
  <1>9. /\ pending'[s] = Tail(p) /\ batch'[s] = Tail(batch[s])
        /\ sample'[s] = NewSample(h, Head(p))
        /\ \A t \in Sessions \ {s} : /\ pending'[t] = pending[t] /\ batch'[t] = batch[t]
                                     /\ sample'[t] = sample[t]
    BY <1>1, <1>5, <1>8
  <1>10. /\ g \in Frame /\ h \in OnTheWay(s) /\ Travels(s, h)
         /\ \A u \in OnTheWay(s) : u = h \/ Ahead(s \in reordered, h, u)
         /\ \A u \in Elements(Tail(batch[s])) \cup Elements(fifo[s]) \cup Elements(encoding[s]) :
               u \in OnTheWay(s) /\ Ahead(s \in reordered, h, u)
         /\ InLine(s \in reordered, Tail(batch[s]))
    BY <1>1, <1>3, <1>4, HeadFirst, ZenonT(60)
  <1>11. /\ g[1] = s /\ g[2] <= n /\ g \notin D
         /\ \A d \in D : s \in reordered \/ d[2] < g[2]
    BY <1>4, <1>6, <1>7, <1>10 DEF Travels
  <1>12. DeliveredOf(s)' = D \cup {g} /\ \A t \in Sessions \ {s} : DeliveredOf(t)' = DeliveredOf(t)
    BY <1>7, <1>8, <1>11 DEF DeliveredOf
  <1>13. \A t \in Sessions \ {s} : Flow(t)' = Flow(t) /\ Grows(t)
    BY <1>8, <1>9, <1>12, ZenonT(60) DEF Flow, Grows
  <1>14. /\ Elements(Tail(batch[s])) \subseteq Elements(batch[s])
         /\ \A u \in Elements(batch[s]) : u = h \/ u \in Elements(Tail(batch[s]))
    BY <1>1, <1>3, TailElements
  <1>15. OnTheWay(s)' = Elements(Tail(batch[s])) \cup Elements(fifo[s]) \cup Elements(encoding[s])
    BY <1>8, <1>9 DEF OnTheWay
  <1>16. ASSUME NEW u \in OnTheWay(s)' PROVE Travels(s, u)'
    <2>1. u \in OnTheWay(s) /\ Ahead(s \in reordered, h, u)
      BY <1>10, <1>15
    <2>2. Travels(s, u)
      BY <1>1, <2>1, ZenonT(60) DEF PathAt
    <2> QED
      BY <1>4, <1>7, <1>8, <1>12, <2>1, <2>2, ZenonT(60) DEF Travels, Ahead
  <1>17. Lined(s \in reordered, Tail(batch[s]), fifo[s], encoding[s])
    BY <1>1, <1>10, <1>14, ZenonT(60) DEF PathAt, Lined, Follows
  <1>18. PathAt(s)'
    BY <1>1, <1>8, <1>9, <1>16, <1>17, ZenonT(60) DEF PathAt
  <1>19. /\ n \in Nat /\ IsFiniteSet(D) /\ Cardinality(D) \in Nat
         /\ D \in SUBSET ({s} \X (1 .. n)) /\ Cardinality(D) + Len(p) = n
    BY <1>1, <1>5, <1>6, <1>7, DeliveredCount, ZenonT(60) DEF PendingAt
  <1>20. Cardinality(D \cup {g}) = Cardinality(D) + 1
    BY <1>11, <1>19, ZenonT(60) DEF Counting
  <1>21. PICK r : r = Tail(p)
    BY Zenon
  <1>22. /\ Len(p) \in Nat \ {0} /\ Len(r) = Len(p) - 1 /\ Head(p) = p[1]
         /\ 1 \in DOMAIN p
         /\ \A i \in DOMAIN r : i \in Nat /\ r[i] = p[i + 1] /\ i + 1 \in DOMAIN p
    BY <1>2, <1>5, <1>21
  <1>23. \A i \in DOMAIN p : p[i].refcon = << s, n - Len(p) + i >>
    BY <1>1, <1>5, <1>6, Zenon DEF PendingAt
  <1>24. PendingAt(s)'
    <2>1. ASSUME NEW i \in DOMAIN r PROVE r[i].refcon = << s, n - Len(r) + i >>
      <3>1. n - Len(p) + (i + 1) = n - Len(r) + i
        BY <1>19, <1>22
      <3> QED
        BY <1>22, <1>23, <3>1
    <2>2. Cardinality(D \cup {g}) + Len(r) = n
      BY <1>19, <1>20, <1>22
    <2>3. \A f \in D \cup {g} : f[2] <= n
      BY <1>1, <1>6, <1>7, <1>11, ZenonT(60) DEF PendingAt
    <2>4. ASSUME NEW k \in 1 .. n
          PROVE  << s, k >> \in delivered' \cup lost \cup {u.frame : u \in OnTheWay(s)'}
      <3>1. << s, k >> \in delivered \cup lost \cup {u.frame : u \in OnTheWay(s)}
        BY <1>1, <1>6, ZenonT(60) DEF PendingAt
      <3>2. \A u \in OnTheWay(s) : u = h \/ u \in OnTheWay(s)'
        BY <1>14, <1>15, ZenonT(60) DEF OnTheWay
      <3> QED
        BY <1>4, <1>8, <3>1, <3>2, ZenonT(60)
    <2>5. pending'[s] = r /\ submitted'[s] = n /\ session'[s] = session[s] /\ lost' = lost
      BY <1>6, <1>8, <1>9, <1>21
    <2> QED
      BY <1>12, <2>1, <2>2, <2>3, <2>4, <2>5, ZenonT(60) DEF PendingAt
  <1>25. DeliveryInv'
    BY <1>13, <1>18, <1>24, OneFlows
  \* The entry popped is that of the frame, because what was delivered before
  \* is exactly the frames before it.
  <1>26. ASSUME s \notin reordered, \A f \in lost : ~ (f[1] = s /\ f[2] < g[2])
         PROVE  Head(p).refcon = g
    <2>1. PICK m : m = g[2] - 1
      OBVIOUS
    <2>2. m \in Nat /\ g = << s, m + 1 >> /\ g[2] = m + 1 /\ m < n
      BY <1>10, <1>11, <1>19, <2>1 DEF Frame
    <2>3. ASSUME NEW d \in D PROVE d \in {s} \X (1 .. m)
      <3>1. d \in {s} \X (1 .. n) /\ d[2] < m + 1
        BY <1>11, <1>19, <1>26, <2>2
      <3> QED
        BY <1>19, <2>2, <3>1
    <2>4. ASSUME NEW k \in 1 .. m PROVE << s, k >> \in D
      <3>1. k \in 1 .. n /\ k < m + 1
        BY <1>19, <2>2
      <3>2. << s, k >> \in delivered \cup lost \cup {u.frame : u \in OnTheWay(s)}
        BY <1>1, <1>6, <3>1, ZenonT(60) DEF PendingAt
      <3>3. << s, k >> \notin lost
        BY <1>26, <2>2, <3>1
      <3>4. ASSUME NEW u \in OnTheWay(s), u.frame = << s, k >> PROVE FALSE
        <4>1. g[2] = k \/ g[2] < k
          BY <1>4, <1>10, <1>26, <3>4 DEF Ahead
        <4> QED
          BY <2>2, <3>1, <4>1
      <3> QED
        BY <1>7, <3>2, <3>3, <3>4 DEF DeliveredOf
    <2>5. D = {s} \X (1 .. m)
      BY <2>3, <2>4
    <2>6. Cardinality(D) = m
      BY <2>2, <2>5, ZenonT(60) DEF Counting
    <2>7. n - Len(p) + 1 = m + 1
      BY <1>19, <1>22, <2>2, <2>6
    <2> QED
      BY <1>22, <1>23, <2>2, <2>7
  <1>27. OutputsPaired'
    <2>1. sample'[s].frame = g /\ sample'[s].refcon = Head(p).refcon
      BY <1>4, <1>9 DEF NewSample
    <2>2. lost' = lost /\ reordered' = reordered
      BY <1>8
    <2>3. \/ sample'[s].refcon = g \/ s \in reordered
          \/ \E f \in lost : f[1] = s /\ f[2] < g[2]
      BY <1>26, <2>1, ZenonT(60)
    <2>4. \A t \in Sessions \ {s} : sample'[t] = sample[t]
      BY <1>9
    <2> QED
      BY <2>1, <2>2, <2>3, <2>4, ZenonT(60) DEF OutputsPaired
  <1> QED
    BY <1>25, <1>27
-----------------------------------------------------------------------------
(* Every step.                                                              *)

LEMMA QuietFlows ==
  ASSUME DeliveryInv, UNCHANGED << session, submitted, pending, batch, fifo, encoding, history >>
  PROVE  DeliveryInv'
  <1>1. \A s \in Sessions : Flow(s)' = Flow(s) /\ Grows(s)
    BY DEF Flow, Grows, DeliveredOf, history
  <1> QED
    BY <1>1, FlowSame DEF DeliveryInv

\* What the other steps do to the results of the calls and to the callbacks.
Keeps ==
    /\ delivered \subseteq delivered' /\ lost \subseteq lost' /\ reordered \subseteq reordered'
    /\ \A t \in Sessions : /\ sample'[t] \in {sample[t], NoSample}
                           /\ \/ result'[t] = result[t] /\ submitted'[t] = submitted[t]
                              \/ result'[t] # "ok"

LEMMA KeepsResults ==
  ASSUME CompleteMeansDelivered, OutputsPaired, Keeps
  PROVE  CompleteMeansDelivered' /\ OutputsPaired'
  <1>1. CompleteMeansDelivered'
    BY DEF Keeps, CompleteMeansDelivered
  <1>2. NoSample.refcon = NoSample.frame
    BY DEF NoSample
  <1>3. OutputsPaired'
    BY <1>2 DEF Keeps, OutputsPaired
  <1> QED
    BY <1>1, <1>3

DeliveryOK == TypeOK /\ DeliveryInv /\ CompleteMeansDelivered /\ OutputsPaired

LEMMA CallsDeliver ==
  ASSUME Counting, DeliveryOK, NEW s \in Sessions,
         \/ VTCompressionSessionCreate(s)
         \/ VTCompressionSessionGetPixelBufferPool(s)
         \/ \E x \in Slots : CVPixelBufferPoolCreatePixelBuffer(s, x)
         \/ \E l \in app : VTCompressionSessionEncodeFrame(s, l)
         \/ RetainSample(s)
         \/ VTCompressionSessionInvalidate(s)
         \/ ReleaseSession(s)
         \/ VTCompressionSessionCompleteFrames(s)
  PROVE  DeliveryInv' /\ Keeps
  <1>0. /\ TypeOK /\ DeliveryInv /\ result \in [Sessions -> {"none", "ok", "error"}]
        /\ submitted \in [Sessions -> Nat]
    BY DEF DeliveryOK, TypeOK
  <1>1. CASE VTCompressionSessionCreate(s)
    BY <1>0, <1>1, CreateFlows, ZenonT(60) DEF VTCompressionSessionCreate, Keeps, history
  <1>2. CASE \/ VTCompressionSessionGetPixelBufferPool(s) \/ RetainSample(s)
             \/ \E x \in Slots : CVPixelBufferPoolCreatePixelBuffer(s, x)
    <2>1. UNCHANGED << thread, outputs, history >>
      BY <1>2, Zenon DEF VTCompressionSessionGetPixelBufferPool, RetainSample,
                  CVPixelBufferPoolCreatePixelBuffer
    <2>2. Keeps
      BY <2>1, Zenon DEF Keeps, thread, history
    <2> QED
      BY <1>0, <2>1, <2>2, QuietFlows DEF thread, outputs
  <1>3. ASSUME NEW l \in app, VTCompressionSessionEncodeFrame(s, l) PROVE DeliveryInv' /\ Keeps
    <2>1. /\ result' = [result EXCEPT ![s] = "none"]
          /\ submitted' = [submitted EXCEPT ![s] = @ + 1]
          /\ lost \subseteq lost' /\ UNCHANGED << sample, delivered, reordered >>
      BY <1>3 DEF VTCompressionSessionEncodeFrame, PushPending
    <2>2. Keeps
      BY <1>0, <2>1 DEF Keeps
    <2> QED
      BY <1>0, <1>3, <2>2, EncodeFlows
  <1>4. CASE VTCompressionSessionInvalidate(s) \/ ReleaseSession(s)
    <2>1. UNCHANGED << result, submitted, sample, history >>
      BY <1>4 DEF VTCompressionSessionInvalidate, ReleaseSession
    <2>2. Keeps
      BY <2>1, ZenonT(60) DEF Keeps, history
    <2> QED
      BY <1>0, <1>4, <2>2, EndFlows
  <1>5. CASE VTCompressionSessionCompleteFrames(s)
    <2>1. /\ result' = [result EXCEPT ![s] = "none"] /\ UNCHANGED << sample, submitted >>
          /\ UNCHANGED << session, pending, batch, outputs, history >>
      BY <1>5 DEF VTCompressionSessionCompleteFrames
    <2>2. Keeps
      BY <1>0, <2>1 DEF Keeps, history
    <2> QED
      BY <1>0, <2>1, <2>2, QuietFlows DEF outputs
  <1> QED
    BY <1>1, <1>2, <1>3, <1>4, <1>5

\* vtf_handle_dequeue_status reports success only with nothing pending.
LEMMA StatusDelivers ==
  ASSUME Counting, DeliveryOK, NEW s \in Sessions, vtf_handle_dequeue_status(s)
  PROVE  DeliveryInv' /\ CompleteMeansDelivered' /\ OutputsPaired'
  <1>1. /\ TypeOK /\ DeliveryInv /\ OutputsPaired /\ CompleteMeansDelivered
        /\ result \in [Sessions -> {"none", "ok", "error"}] /\ PathAt(s) /\ PendingAt(s)
    BY DEF DeliveryOK, TypeOK, DeliveryInv
  <1>2. /\ UNCHANGED << session, submitted, pending, batch, sample, outputs, history >>
        /\ session[s] = "live"
        /\ \E x : /\ result' = [result EXCEPT ![s] = x]
                  /\ x = "error" \/ x = result[s] \/ (x = "ok" /\ pending[s] = << >>)
    <2>1. PICK x : x = IF pc[s] = "polling" THEN result[s]
                       ELSE IF pending[s] = << >> THEN "ok" ELSE "error"
      OBVIOUS
    <2>2. result' = [result EXCEPT ![s] = x]
      BY <2>1 DEF vtf_handle_dequeue_status, Return
    <2>3. session[s] = "live"
      BY DEF vtf_handle_dequeue_status, NothingReady, Delivering, TypeOK, DeliveryOK
    <2> QED
      BY <2>1, <2>2, <2>3, ZenonT(60) DEF vtf_handle_dequeue_status
  <1>3. pending[s] = << >> => \A n \in 1 .. submitted[s] : << s, n >> \in delivered
    BY <1>1, <1>2, AllDelivered, ZenonT(60)
  <1>4. CompleteMeansDelivered'
    BY <1>1, <1>2, <1>3, ZenonT(60) DEF CompleteMeansDelivered, history
  <1>5. OutputsPaired'
    BY <1>1, <1>2 DEF OutputsPaired, history
  <1> QED
    BY <1>1, <1>2, <1>4, <1>5, QuietFlows, ZenonT(60) DEF outputs

LEMMA WorksDeliver ==
  ASSUME Counting, DeliveryOK, NEW s \in Sessions,
         \/ Works(s)
         \/ ReadOutputFails(s)
         \/ \E i \in DOMAIN encoding[s] : VTEmits(s, i)
         \/ VTDrops(s)
  PROVE  DeliveryInv' /\ CompleteMeansDelivered' /\ OutputsPaired'
  <1>0. /\ TypeOK /\ DeliveryInv /\ CompleteMeansDelivered /\ OutputsPaired
        /\ result \in [Sessions -> {"none", "ok", "error"}]
        /\ sample \in [Sessions -> Sample \cup {NoSample}]
    BY DEF DeliveryOK, TypeOK
  <1> SUFFICES \/ DeliveryInv' /\ Keeps
               \/ DeliveryInv' /\ CompleteMeansDelivered' /\ OutputsPaired'
    BY <1>0, KeepsResults
  <1>1. CASE Drain(s)
    <2>1. /\ result' = result \/ \E x : result' = [result EXCEPT ![s] = x] /\ x # "ok"
          /\ UNCHANGED << session, submitted, pending, batch, sample, outputs, history >>
      BY <1>1, ZenonT(60) DEF Drain, Return
    <2>2. Keeps
      BY <1>0, <2>1, ZenonT(60) DEF Keeps, history
    <2> QED
      BY <1>0, <2>1, <2>2, QuietFlows DEF outputs
  <1>2. CASE vtf_dequeue_ready_outputs(s)
    BY <1>0, <1>2, DequeueFlows, ZenonT(60) DEF vtf_dequeue_ready_outputs, Keeps, history
  <1>3. CASE vtf_handle_dequeue_status(s)
    BY <1>3, StatusDelivers
  <1>4. CASE vtf_deliver_one_output(s)
    <2>1. CompleteMeansDelivered'
      BY <1>0, <1>4, ZenonT(60) DEF vtf_deliver_one_output, CompleteMeansDelivered
    <2> QED
      BY <1>0, <1>4, <2>1, DeliverFlows
  <1>5. CASE CallbackReturns(s)
    <2>1. /\ sample' = [sample EXCEPT ![s] = NoSample]
          /\ UNCHANGED << session, result, submitted, pending, batch, fifo, encoding, history >>
      BY <1>5 DEF CallbackReturns, FinalizeSample, ReleaseOutput, outputs, queues
    <2>2. Keeps
      BY <1>0, <2>1, ZenonT(60) DEF Keeps, history
    <2> QED
      BY <1>0, <2>1, <2>2, QuietFlows
  <1>6. CASE FinalizePending(s)
    BY <1>0, <1>6, FinalizePendingFlows, ZenonT(60) DEF FinalizePending, Keeps, history
  <1>7. CASE ReadOutputFails(s)
    <2>1. /\ \A t \in Sessions : result'[t] = result[t] \/ result'[t] = "error"
          /\ UNCHANGED << sample, submitted, delivered, reordered >> /\ lost \subseteq lost'
      BY <1>0, <1>7, ZenonT(60) DEF ReadOutputFails, Return
    <2>2. Keeps
      BY <1>0, <2>1, ZenonT(60) DEF Keeps
    <2> QED
      BY <1>0, <1>7, <2>2, LossFlows
  <1>8. ASSUME NEW i \in DOMAIN encoding[s], VTEmits(s, i) PROVE DeliveryInv' /\ Keeps
    BY <1>0, <1>8, EmitsFlows, ZenonT(60) DEF VTEmits, Keeps, thread
  <1>9. CASE VTDrops(s)
    BY <1>0, <1>9, LossFlows, ZenonT(60) DEF VTDrops, Keeps, thread
  <1> QED
    BY <1>1, <1>2, <1>3, <1>4, <1>5, <1>6, <1>7, <1>8, <1>9 DEF Works

LEMMA DeliveryStart ==
  ASSUME Counting, Init
  PROVE  DeliveryOK
  <1>1. TypeOK
    BY TypeInit
  <1>2. ASSUME NEW s \in Sessions PROVE PathAt(s) /\ PendingAt(s)
    <2>1. /\ submitted[s] = 0 /\ pending[s] = << >> /\ batch[s] = << >> /\ fifo[s] = << >>
          /\ encoding[s] = << >> /\ session[s] = "none" /\ DeliveredOf(s) = {}
      BY DEF Init, DeliveredOf
    <2>2. OnTheWay(s) = {}
      BY <2>1, EmptyLine DEF OnTheWay
    <2>3. Lined(s \in reordered, << >>, << >>, << >>)
      BY EmptyLine DEF Lined, Follows
    <2>4. Cardinality({}) + Len(<< >>) = 0
      BY DEF Counting
    <2> QED
      BY <2>1, <2>2, <2>3, <2>4 DEF PathAt, PendingAt
  <1>3. CompleteMeansDelivered /\ OutputsPaired
    BY DEF Init, CompleteMeansDelivered, OutputsPaired, NoSample
  <1> QED
    BY <1>1, <1>2, <1>3 DEF DeliveryOK, DeliveryInv

LEMMA DeliveryStep ==
  ASSUME Counting, DeliveryOK, [Next]_vars
  PROVE  DeliveryOK'
  <1>0. TypeOK /\ DeliveryInv /\ CompleteMeansDelivered /\ OutputsPaired
    BY DEF DeliveryOK
  <1>1. Ready
    BY <1>0, AllDelivered, ZenonT(60) DEF Ready, DeliveryInv
  <1>2. ASSUME NEW s \in Sessions,
               \/ VTCompressionSessionCreate(s)
               \/ VTCompressionSessionGetPixelBufferPool(s)
               \/ \E x \in Slots : CVPixelBufferPoolCreatePixelBuffer(s, x)
               \/ \E l \in app : VTCompressionSessionEncodeFrame(s, l)
               \/ RetainSample(s)
               \/ VTCompressionSessionInvalidate(s)
               \/ ReleaseSession(s)
               \/ VTCompressionSessionCompleteFrames(s)
        PROVE  DeliveryOK'
    <2>1. DeliveryInv' /\ Keeps
      BY <1>2, CallsDeliver
    <2>2. TypeOK'
      BY <1>0, <1>2, TypeCalls
    <2> QED
      BY <1>0, <2>1, <2>2, KeepsResults DEF DeliveryOK
  <1>3. ASSUME NEW s \in Sessions,
               \/ Works(s)
               \/ ReadOutputFails(s)
               \/ \E i \in DOMAIN encoding[s] : VTEmits(s, i)
               \/ VTDrops(s)
        PROVE  DeliveryOK'
    BY <1>0, <1>1, <1>3, WorksDeliver, TypeDelivery DEF DeliveryOK
  <1>4. CASE (\E l \in app : CVPixelBufferRelease(l)) \/ (\E x \in samples : ReleaseSample(x))
    <2>1. UNCHANGED << thread, fifo, encoding, history >>
      BY <1>4, Zenon DEF CVPixelBufferRelease, ReleaseSample, FinalizeSample, ReleaseOutput,
                  outputs, queues
    <2>2. DeliveryInv' /\ Keeps
      BY <1>0, <2>1, QuietFlows, Zenon DEF Keeps, thread, history
    <2> QED
      BY <1>0, <1>4, <2>2, TypeReleases, KeepsResults DEF DeliveryOK
  <1>5. CASE UNCHANGED vars
    <2>1. UNCHANGED << thread, fifo, encoding, history >>
      BY <1>5 DEF vars, outputs
    <2>2. DeliveryInv' /\ Keeps
      BY <1>0, <2>1, QuietFlows DEF Keeps, thread, history
    <2>3. TypeOK'
      BY <1>0, <1>5 DEF TypeOK, vars, thread, held, outputs, history
    <2> QED
      BY <1>0, <2>2, <2>3, KeepsResults DEF DeliveryOK
  <1> QED
    BY <1>2, <1>3, <1>4, <1>5 DEF Next

-----------------------------------------------------------------------------
(* The theorems.                                                            *)

INSTANCE FiniteSetTheorems

LEMMA CountingHolds == Counting
  <1>1. ASSUME NEW s, NEW n \in Nat
        PROVE  IsFiniteSet({s} \X (1 .. n)) /\ Cardinality({s} \X (1 .. n)) = n
    <2>1. IsFiniteSet({s}) /\ Cardinality({s}) = 1
      BY FS_Singleton, Zenon
    <2>2. IsFiniteSet(1 .. n) /\ Cardinality(1 .. n) = n
      BY FS_Interval
    <2>3. /\ IsFiniteSet({s} \X (1 .. n))
          /\ Cardinality({s} \X (1 .. n)) = Cardinality({s}) * Cardinality(1 .. n)
      BY <2>1, <2>2, FS_Product, Zenon
    <2>4. Cardinality({s}) * Cardinality(1 .. n) = n
      BY <2>1, <2>2
    <2> QED
      BY <2>3, <2>4, Zenon
  <1>2. ASSUME NEW S, IsFiniteSet(S), NEW T \in SUBSET S
        PROVE  /\ IsFiniteSet(T) /\ Cardinality(T) \in Nat
               /\ Cardinality(S) = Cardinality(T) => S = T
    BY <1>2, FS_Subset, FS_CardinalityType, Zenon
  <1>3. ASSUME NEW S, NEW x, IsFiniteSet(S), x \notin S
        PROVE  Cardinality(S \cup {x}) = Cardinality(S) + 1
    BY <1>3, FS_AddElement, Zenon
  <1>4. Cardinality({}) = 0
    BY FS_EmptySet
  <1> QED
    BY <1>1, <1>2, <1>3, <1>4, Zenon DEF Counting

\* The pairing by position is right for every number of sessions, frames and
\* slots, every batch size and every fault, as far as it is right at all: in
\* every behaviour the output handed to the callback comes with the refcon of
\* its own frame, unless the session's outputs came out of order or an earlier
\* frame of it got no output (vtf_pop_pending_image_buffer).
THEOREM Paired == Spec => []OutputsPaired
  <1>1. Init => DeliveryOK
    BY CountingHolds, DeliveryStart
  <1>2. DeliveryOK /\ [Next]_vars => DeliveryOK'
    BY CountingHolds, DeliveryStep
  <1>3. DeliveryOK => OutputsPaired
    BY DEF DeliveryOK
  <1> QED
    BY <1>1, <1>2, <1>3, PTL DEF Spec

\* VTCompressionSessionCompleteFrames returns success only when every frame
\* pushed before has been handed to the callback: that no entry is pending
\* (vtf_handle_dequeue_status) means that as many outputs were delivered as
\* frames pushed, and no output is delivered twice.
THEOREM Complete == Spec => []CompleteMeansDelivered
  <1>1. Init => DeliveryOK
    BY CountingHolds, DeliveryStart
  <1>2. DeliveryOK /\ [Next]_vars => DeliveryOK'
    BY CountingHolds, DeliveryStep
  <1>3. DeliveryOK => CompleteMeansDelivered
    BY DEF DeliveryOK
  <1> QED
    BY <1>1, <1>2, <1>3, PTL DEF Spec
=============================================================================
