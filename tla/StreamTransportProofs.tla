----------------------- MODULE StreamTransportProofs ------------------------
(***************************************************************************)
(* Proofs about StreamTransport, for any threads, any payload sizes, any   *)
(* number of handles and connections and any window of request ids, and    *)
(* whatever the worker does.                                               *)
(***************************************************************************)
EXTENDS StreamTransport, SequenceTheorems, TLAPS

(* A leaf that the provers do not settle in their usual time gets more.     *)
USE SMTT(60), SMT, SMTT(30), ZenonT(60)

(* What the proofs use of the constants.                                   *)
LEMMA Names == NoOne \notin Callers /\ Threads \subseteq Callers /\ "heartbeat" \in Callers
<1>1. "no one" \notin Threads
  BY TransportAssumption, Zenon
<1> QED
  BY <1>1, Zenon DEF NoOne, Callers

(* Payload sizes and request ids are numbers.                              *)
LEMMA Numbers == Sizes \subseteq Nat /\ IdWindow \in Nat /\ IdWindow # 0
  BY TransportAssumption, Zenon

-----------------------------------------------------------------------------
(* What the updates of a connection do to its fields. *)

(* A request written to an empty stream is the only one on it.             *)
LEMMA RequestedFields ==
    ASSUME NEW k \in Connection, k.up = << >>, NEW r \in Request
    PROVE  /\ Requested(k, r) \in Connection
           /\ Requested(k, r).up = << r >>
           /\ Requested(k, r).down = k.down
           /\ Requested(k, r).open = k.open
<1>1. Requested(k, r) \in Connection
  BY DEF Requested, Stream, Connection
<1>2. Requested(k, r).up = << r >>
  BY DEF Requested, Stream
<1>3. Requested(k, r).down = k.down /\ Requested(k, r).open = k.open
  BY DEF Requested, Stream
<1> QED
  BY <1>1, <1>2, <1>3

(* Reading a reply takes it off the stream.                                *)
LEMMA ReplyTakenFields ==
    ASSUME NEW k \in Connection, k.down # << >>
    PROVE  /\ ReplyTaken(k) \in Connection
           /\ ReplyTaken(k).up = k.up
           /\ ReplyTaken(k).down = Tail(k.down)
           /\ ReplyTaken(k).open = k.open
<1>1. ReplyTaken(k) \in Connection
  BY DEF ReplyTaken, Stream, Connection
<1>2. /\ ReplyTaken(k).up = k.up
      /\ ReplyTaken(k).down = Tail(k.down)
      /\ ReplyTaken(k).open = k.open
  BY DEF ReplyTaken, Stream
<1> QED
  BY <1>1, <1>2

(* Dropping a poisoned backend leaves the requests on their way.           *)
LEMMA DroppedFields ==
    ASSUME NEW k \in Connection
    PROVE  Dropped(k) \in Connection /\ Dropped(k).up = k.up
<1>1. Dropped(k) \in Connection
  BY EmptySeq DEF Dropped, Stream, Connection
<1>2. Dropped(k).up = k.up
  BY DEF Dropped, Stream
<1> QED
  BY <1>1, <1>2

(* The worker's end of a connection discards its requests.                 *)
LEMMA EndedFields ==
    ASSUME NEW k \in Connection
    PROVE  /\ Ended(k) \in Connection
           /\ Ended(k).up = << >>
           /\ Ended(k).down = k.down
           /\ Ended(k).open = k.open
<1>1. Ended(k) \in Connection
  BY EmptySeq DEF Ended, Stream, Connection
<1>2. Ended(k).up = << >> /\ Ended(k).down = k.down /\ Ended(k).open = k.open
  BY DEF Ended, Stream
<1> QED
  BY <1>1, <1>2

(* A hung dispatch moves nothing on the stream.                            *)
LEMMA HungFields ==
    ASSUME NEW k \in Connection
    PROVE  /\ Hung(k) \in Connection
           /\ Hung(k).up = k.up
           /\ Hung(k).down = k.down
           /\ Hung(k).open = k.open
<1>1. Hung(k) \in Connection
  BY DEF Hung, Stream, Connection
<1>2. Hung(k).up = k.up /\ Hung(k).down = k.down /\ Hung(k).open = k.open
  BY DEF Hung, Stream
<1> QED
  BY <1>1, <1>2

(* A reply replaces its request on an open stream.                         *)
LEMMA AnsweredFields ==
    ASSUME NEW k \in Connection, k.up # << >>, NEW reply \in Reply, NEW issued \in Nat
    PROVE  /\ Answered(k, reply, issued) \in Connection
           /\ Answered(k, reply, issued).up = Tail(k.up)
           /\ Answered(k, reply, issued).down
                = IF k.open THEN Append(k.down, reply) ELSE k.down
           /\ Answered(k, reply, issued).open = k.open
<1>1. Answered(k, reply, issued) \in Connection
  <2>1. CASE k.open
    BY <2>1 DEF Answered, Stream, Connection
  <2>2. CASE ~ k.open
    BY <2>2 DEF Answered, Stream, Connection
  <2> QED
    BY <2>1, <2>2
<1>2. /\ Answered(k, reply, issued).up = Tail(k.up)
      /\ Answered(k, reply, issued).down = IF k.open THEN Append(k.down, reply) ELSE k.down
      /\ Answered(k, reply, issued).open = k.open
  BY DEF Answered, Stream
<1> QED
  BY <1>1, <1>2

(* Numbering a request keeps its handle.                                   *)
LEMMA NumberedFields ==
    ASSUME NEW r \in Request, NEW id \in Nat
    PROVE  /\ Numbered(r, id) \in Request
           /\ Numbered(r, id).id = id
           /\ Numbered(r, id).handle = r.handle
  BY DEF Numbered, Request

-----------------------------------------------------------------------------
(* The one connection. *)

(* A member of a sequence of connections.                                  *)
LEMMA Member ==
    ASSUME NEW S, NEW s \in Seq(S), Len(s) = 1
    PROVE  s[1] \in S
  OBVIOUS

(* The tail of a sequence of one.                                          *)
LEMMA TailOfOne ==
    ASSUME NEW S, NEW s \in Seq(S), Len(s) = 1
    PROVE  Tail(s) = << >>
<1>1. Tail(s) \in Seq(S) /\ Len(Tail(s)) = 0
  OBVIOUS
<1> QED
  BY <1>1, EmptySeq, Zenon

(* A sequence of one connection, with that connection replaced.            *)
LEMMA Replaced ==
    ASSUME NEW S, NEW s \in Seq(S), Len(s) = 1, NEW k \in S
    PROVE  /\ [s EXCEPT ![1] = k] \in Seq(S)
           /\ Len([s EXCEPT ![1] = k]) = 1
           /\ [s EXCEPT ![1] = k][1] = k
  BY ExceptSeq

(* A guest with an open backend, or a connection at all, has connection 1. *)
LEMMA TheConnection ==
    ASSUME TypeOK, DialledOnce, backend # 0 \/ DOMAIN conns # {}
    PROVE  Len(conns) = 1 /\ DOMAIN conns = {1} /\ conns[1] \in Connection
<1>1. DOMAIN conns = 1 .. Len(conns) /\ Len(conns) \in Nat
  BY DEF TypeOK
<1>2. Len(conns) = 1
  BY <1>1 DEF DialledOnce
<1>3. DOMAIN conns = {1}
  BY <1>1, <1>2
<1>4. conns[1] \in Connection
  BY <1>2, Member DEF TypeOK
<1> QED
  BY <1>2, <1>3, <1>4

(* The invariant holds before the first call.                              *)
LEMMA TransportInit == Init => TransportInv
<1> SUFFICES ASSUME Init PROVE TransportInv
  OBVIOUS
<1> USE Numbers DEF Init, NoRequest, NoHandle, NoReply
<1>1. TypeOK
  <2>1. request \in [Callers -> Request] /\ held \in [Threads -> Handle]
    BY DEF Request, Handle
  <2>2. conns \in Seq(Connection)
    BY EmptySeq
  <2> QED
    BY <2>1, <2>2, Zenon DEF TypeOK
<1>0. Len(conns) = 0 /\ DOMAIN conns = {} /\ 0 <= 1
  <2>1. conns = << >>
    OBVIOUS
  <2> QED
    BY ONLY <2>1
<1>2. DialledOnce
  BY <1>0, Zenon DEF DialledOnce
<1>3. OneRoundTrip
  <2>1. \A t \in Callers : lock # t
    BY Names
  <2> QED
    BY <2>1 DEF OneRoundTrip
<1>4. StreamInStep
  BY DEF StreamInStep
<1>5. HandlesFromFirst
  <2>1. /\ \A t \in Threads : held[t].issuer = 0
        /\ \A t \in Callers : request[t].handle.issuer = 0
    OBVIOUS
  <2> QED
    BY <1>0, <2>1 DEF HandlesFromFirst
<1>6. RepliesMatch
  BY DEF RepliesMatch
<1> QED
  BY <1>1, <1>2, <1>3, <1>4, <1>5, <1>6 DEF TransportInv

-----------------------------------------------------------------------------
(* One lemma per action, or kind of action. *)

(* A new call changes the request of its own thread only.                  *)
LEMMA CallStep ==
    ASSUME TransportInv, NEW t \in Threads, Call(t) PROVE TransportInv'
<1> USE Numbers DEF TransportInv
<1>0. t \in Callers /\ t # NoOne
  BY Names
<1>1. PICK size \in Sizes :
          request' = [request EXCEPT ![t] =
              [op |-> IF held[t] = NoHandle THEN "create" ELSE "use",
               handle |-> held[t], size |-> size, id |-> 0]]
  BY Zenon DEF Call
<1>2. TypeOK'
  BY <1>0, <1>1 DEF TypeOK, Call, Request, NoReply
<1>3. DialledOnce' /\ StreamInStep'
  <2>1. lock # NoOne => lock # t
    BY <1>0 DEF Call, OneRoundTrip, TypeOK
  <2> QED
    BY <1>0, <1>1, <2>1 DEF Call, DialledOnce, StreamInStep, OneRoundTrip, TypeOK
<1>4. OneRoundTrip'
  BY <1>0 DEF Call, OneRoundTrip, TypeOK
<1>5. HandlesFromFirst'
  BY <1>0, <1>1 DEF Call, HandlesFromFirst, TypeOK
<1>6. RepliesMatch'
  BY <1>0, <1>1 DEF Call, RepliesMatch, TypeOK
<1> QED
  BY <1>2, <1>3, <1>4, <1>5, <1>6

(* A call that finds no backend returns without a trace.                   *)
LEMMA SendUnconnectedStep ==
    ASSUME TransportInv, NEW t \in Threads, SendUnconnected(t) PROVE TransportInv'
<1> USE Numbers DEF TransportInv, SendUnconnected, LockFree
<1>0. t \in Callers /\ t # NoOne
  BY Names
<1>1. TypeOK'
  BY <1>0 DEF TypeOK
<1>2. OneRoundTrip'
  BY <1>0 DEF OneRoundTrip, TypeOK
<1>3. DialledOnce' /\ StreamInStep' /\ HandlesFromFirst' /\ RepliesMatch'
  BY DEF DialledOnce, StreamInStep, HandlesFromFirst, RepliesMatch
<1> QED
  BY <1>1, <1>2, <1>3

(***************************************************************************)
(* The request r of u becomes the only thing on connection 1, whether it   *)
(* was just dialled or was open: SendOnNew, SendOnOpen, HeartbeatProbe.    *)
(***************************************************************************)
LEMMA SendStep ==
    ASSUME TransportInv, NEW u \in Callers, NEW r \in Request,
           r.handle.issuer \in {0, 1},
           pc[u] # "receiving", LockFree,
           NEW k \in Connection, k.up = << r >>, k.down = << >>, k.open = TRUE,
           conns' \in Seq(Connection), Len(conns') = 1, conns'[1] = k,
           backend' = 1, lock' = u,
           request' = [request EXCEPT ![u] = r],
           answered' = [answered EXCEPT ![u] = NoReply],
           request_id' \in Nat, heartbeat' \in BOOLEAN,
           pc' = [pc EXCEPT ![u] = "receiving"],
           UNCHANGED << killed, held, worker >>
    PROVE  TransportInv'
<1> USE Numbers DEF TransportInv
<1>0. u # NoOne
  BY Names
<1>1. TypeOK'
  BY DEF TypeOK, NoReply
<1>2. DialledOnce'
  BY DEF DialledOnce
<1>3. OneRoundTrip'
  <2>1. \A t \in Callers : lock # t
    BY Names DEF LockFree
  <2>2. \A t \in Callers : pc[t] # "receiving"
    BY <2>1 DEF OneRoundTrip
  <2> QED
    BY <2>2 DEF OneRoundTrip, TypeOK
<1>4. StreamInStep'
  <2>1. request'[u].id = r.id
    BY DEF TypeOK
  <2>2. conns'[1].up[1].id = r.id /\ Len(conns'[1].up) = 1
    OBVIOUS
  <2> QED
    BY <1>0, <2>1, <2>2 DEF StreamInStep
<1>5. HandlesFromFirst'
  <2>1. DOMAIN conns' = {1}
    OBVIOUS
  <2>2. Len(conns'[1].up) = 1 /\ conns'[1].up[1] = r
    OBVIOUS
  <2> QED
    BY <2>1, <2>2 DEF HandlesFromFirst, TypeOK
<1>6. RepliesMatch'
  BY DEF RepliesMatch, TypeOK
<1> QED
  BY <1>1, <1>2, <1>3, <1>4, <1>5, <1>6

(* The first request goes out on the first connection.                     *)
LEMMA SendOnNewStep ==
    ASSUME TransportInv, NEW t \in Threads, SendOnNew(t) PROVE TransportInv'
<1> USE Numbers DEF TransportInv
<1> DEFINE r == Numbered(request[t], 1)
           k == Requested(Dialled, r)
<1>1. t \in Callers /\ request[t] \in Request
  BY Names DEF TypeOK
<1>2. r \in Request /\ r.id = 1 /\ r.handle.issuer \in {0, 1}
  BY <1>1, NumberedFields DEF HandlesFromFirst
<1>3. Dialled \in Connection /\ Dialled.up = << >> /\ Dialled.down = << >>
  BY EmptySeq DEF Dialled, Stream, Connection
<1>4. Dialled.open = TRUE
  BY DEF Dialled, Stream
<1>5. k \in Connection /\ k.up = << r >> /\ k.down = << >> /\ k.open = Dialled.open
  BY <1>2, <1>3, RequestedFields
<1>6. Len(conns) = 0
  BY DEF SendOnNew, MayDial, DialledOnce
<1>7. conns' \in Seq(Connection) /\ Len(conns') = 1 /\ conns'[1] = k
  <2>1. /\ Append(conns, Dialled) \in Seq(Connection) /\ Len(Append(conns, Dialled)) = 1
        /\ Append(conns, Dialled)[1] = Dialled
    BY <1>3, <1>6, AppendProperties DEF TypeOK
  <2>2. conns' = [Append(conns, Dialled) EXCEPT ![1] = k]
    BY <1>6, <2>1 DEF SendOnNew, Written
  <2> HIDE DEF k
  <2> QED
    BY <1>5, <2>1, <2>2, Replaced
<1> HIDE DEF r, k
<1>8. /\ pc[t] # "receiving" /\ LockFree /\ backend' = 1 /\ lock' = t
      /\ answered' = [answered EXCEPT ![t] = NoReply]
      /\ request_id' \in Nat
      /\ pc' = [pc EXCEPT ![t] = "receiving"]
      /\ UNCHANGED << held, worker >>
  BY <1>6 DEF SendOnNew
<1>9. request' = [request EXCEPT ![t] = r]
  BY DEF SendOnNew, r
<1>10. heartbeat' \in BOOLEAN /\ killed' = killed
  BY DEF SendOnNew, EnsureHeartbeatThread
<1> QED
  BY <1>1, <1>2, <1>4, <1>5, <1>7, <1>8, <1>9, <1>10, SendStep, Zenon

(* A later request finds the open stream empty.                            *)
LEMMA SendOnOpenStep ==
    ASSUME TransportInv, NEW t \in Threads, SendOnOpen(t) PROVE TransportInv'
<1> USE Numbers DEF TransportInv
<1> DEFINE r == Numbered(request[t], request_id)
           k == Requested(conns[1], r)
<1>1. t \in Callers /\ request[t] \in Request /\ request_id \in Nat
  BY Names DEF TypeOK
<1>2. r \in Request /\ r.handle.issuer \in {0, 1}
  BY <1>1, NumberedFields DEF HandlesFromFirst
<1>3. backend = 1 /\ conns[1].open = TRUE
  BY DEF SendOnOpen, DialledOnce
<1>4. Len(conns) = 1 /\ conns[1] \in Connection
  BY <1>3, TheConnection
<1>5. conns[1].up = << >> /\ conns[1].down = << >>
  BY <1>3 DEF SendOnOpen, LockFree, StreamInStep
<1>6. k \in Connection /\ k.up = << r >> /\ k.down = << >> /\ k.open = TRUE
  <2>1. k \in Connection /\ k.up = << r >> /\ k.down = conns[1].down /\ k.open = conns[1].open
    BY <1>2, <1>4, <1>5, RequestedFields
  <2> HIDE DEF r, k
  <2> QED
    BY <1>3, <1>5, <2>1
<1>7. conns' \in Seq(Connection) /\ Len(conns') = 1 /\ conns'[1] = k
  <2>1. conns' = [conns EXCEPT ![1] = k]
    BY <1>3 DEF SendOnOpen, Written
  <2>2. conns \in Seq(Connection)
    BY DEF TypeOK
  <2> HIDE DEF k
  <2> QED
    BY <1>4, <1>6, <2>1, <2>2, Replaced
<1> HIDE DEF r, k
<1>8. /\ pc[t] # "receiving" /\ LockFree /\ backend' = 1 /\ lock' = t
      /\ answered' = [answered EXCEPT ![t] = NoReply]
      /\ request_id' \in Nat
      /\ pc' = [pc EXCEPT ![t] = "receiving"]
      /\ UNCHANGED << killed, held, worker >>
  BY <1>1, <1>3 DEF SendOnOpen
<1>9. request' = [request EXCEPT ![t] = r]
  BY DEF SendOnOpen, r
<1>10. heartbeat' \in BOOLEAN
  BY DEF SendOnOpen, TypeOK
<1> QED
  BY <1>1, <1>2, <1>6, <1>7, <1>8, <1>9, <1>10, SendStep, Zenon

(* So does a ping of the heartbeat thread.                                 *)
LEMMA HeartbeatProbeStep ==
    ASSUME TransportInv, HeartbeatProbe PROVE TransportInv'
<1> USE Numbers DEF TransportInv
<1> DEFINE r == Ping(request_id)
           k == Requested(conns[1], r)
<1>1. "heartbeat" \in Callers /\ request_id \in Nat
  BY Names DEF TypeOK
<1>2. r \in Request /\ r.handle.issuer \in {0, 1}
  BY <1>1 DEF Ping, NoHandle, Request, Handle
<1>3. backend = 1 /\ conns[1].open = TRUE
  BY DEF HeartbeatProbe, DialledOnce
<1>4. Len(conns) = 1 /\ conns[1] \in Connection
  BY <1>3, TheConnection
<1>5. conns[1].up = << >> /\ conns[1].down = << >>
  BY <1>3 DEF HeartbeatProbe, LockFree, StreamInStep
<1>6. k \in Connection /\ k.up = << r >> /\ k.down = << >> /\ k.open = TRUE
  <2>1. k \in Connection /\ k.up = << r >> /\ k.down = conns[1].down /\ k.open = conns[1].open
    BY <1>2, <1>4, <1>5, RequestedFields
  <2> HIDE DEF r, k
  <2> QED
    BY <1>3, <1>5, <2>1
<1>7. conns' \in Seq(Connection) /\ Len(conns') = 1 /\ conns'[1] = k
  <2>1. conns' = [conns EXCEPT ![1] = k]
    BY <1>3 DEF HeartbeatProbe
  <2>2. conns \in Seq(Connection)
    BY DEF TypeOK
  <2> HIDE DEF k
  <2> QED
    BY <1>4, <1>6, <2>1, <2>2, Replaced
<1> HIDE DEF r, k
<1>8. /\ pc["heartbeat"] # "receiving" /\ LockFree /\ backend' = 1 /\ lock' = "heartbeat"
      /\ answered' = [answered EXCEPT !["heartbeat"] = NoReply]
      /\ request_id' \in Nat
      /\ pc' = [pc EXCEPT !["heartbeat"] = "receiving"]
      /\ UNCHANGED << killed, held, worker >>
  BY <1>1, <1>3 DEF HeartbeatProbe
<1>9. request' = [request EXCEPT !["heartbeat"] = r]
  BY DEF HeartbeatProbe, r
<1>10. heartbeat' \in BOOLEAN
  BY DEF HeartbeatProbe, TypeOK
<1> QED
  BY <1>1, <1>2, <1>6, <1>7, <1>8, <1>9, <1>10, SendStep, Zenon

(***************************************************************************)
(* A step of the worker: connection 1 becomes k, which is as open as it    *)
(* was and still in step, and the guest does not change.                   *)
(***************************************************************************)
LEMMA WorkerStep ==
    ASSUME TransportInv, Len(conns) = 1,
           NEW k \in Connection, k.open = conns[1].open,
           \A i \in 1 .. Len(k.up) : k.up[i].handle.issuer \in {0, 1},
           backend # 0 =>
               \/ k.up = << >> /\ k.down = << >>
               \/ /\ lock # NoOne
                  /\ Len(k.up) = 1 /\ k.down = << >> /\ k.up[1].id = request[lock].id
               \/ /\ lock # NoOne
                  /\ k.up = << >> /\ Len(k.down) = 1 /\ k.down[1].id = request[lock].id,
           conns' \in Seq(Connection), Len(conns') = 1, conns'[1] = k,
           UNCHANGED guest, worker' \in {"up", "down"}
    PROVE  TransportInv'
<1> USE DEF TransportInv, guest
<1>1. TypeOK'
  BY DEF TypeOK
<1>2. DialledOnce'
  BY DEF DialledOnce
<1>3. OneRoundTrip'
  BY DEF OneRoundTrip
<1>4. StreamInStep'
  BY DEF StreamInStep
<1>5. HandlesFromFirst'
  <2>1. DOMAIN conns' = {1}
    OBVIOUS
  <2> QED
    BY <2>1 DEF HandlesFromFirst
<1>6. RepliesMatch'
  BY DEF RepliesMatch
<1> QED
  BY <1>1, <1>2, <1>3, <1>4, <1>5, <1>6

(* The worker closes a connection: oversized request, or client gone.      *)
LEMMA EndStep ==
    ASSUME TransportInv, NEW c \in DOMAIN conns,
           conns' = [conns EXCEPT ![c] = Ended(@)], UNCHANGED << guest, worker >>
    PROVE  TransportInv'
<1> USE DEF TransportInv
<1> DEFINE k == Ended(conns[1])
<1>1. Len(conns) = 1 /\ conns[1] \in Connection /\ c = 1
  BY TheConnection
<1>2. k \in Connection /\ k.up = << >> /\ k.down = conns[1].down /\ k.open = conns[1].open
  BY <1>1, EndedFields
<1>3. conns' \in Seq(Connection) /\ Len(conns') = 1 /\ conns'[1] = k
  <2>1. conns' = [conns EXCEPT ![1] = k]
    BY <1>1
  <2>2. conns \in Seq(Connection)
    BY DEF TypeOK
  <2> HIDE DEF k
  <2> QED
    BY <1>1, <1>2, <2>1, <2>2, Replaced
<1> HIDE DEF k
<1>4. worker' \in {"up", "down"}
  BY DEF TypeOK
<1>5. backend # 0 =>
          \/ k.up = << >> /\ k.down = << >>
          \/ /\ lock # NoOne
             /\ k.up = << >> /\ Len(k.down) = 1 /\ k.down[1].id = request[lock].id
  BY <1>2 DEF StreamInStep
<1> QED
  BY <1>1, <1>2, <1>3, <1>4, <1>5, WorkerStep

(* The worker process dies, connected to or not.                           *)
LEMMA WorkerDiesStep ==
    ASSUME TransportInv, WorkerDies PROVE TransportInv'
<1> USE DEF TransportInv
<1>1. CASE DOMAIN conns = {}
  <2>1. conns' = conns /\ UNCHANGED guest /\ worker' \in {"up", "down"}
    <3>1. conns = << >>
      BY <1>1, EmptySeq DEF TypeOK
    <3>2. conns' = [c \in {} |-> Ended(conns[c])]
      BY <1>1 DEF WorkerDies
    <3> QED
      BY <3>1, <3>2 DEF WorkerDies
  <2>2. TypeOK'
    BY <2>1 DEF TypeOK, guest
  <2>3. DialledOnce' /\ OneRoundTrip' /\ StreamInStep' /\ HandlesFromFirst' /\ RepliesMatch'
    BY <2>1 DEF guest, DialledOnce, OneRoundTrip, StreamInStep, HandlesFromFirst, RepliesMatch
  <2> QED
    BY <2>2, <2>3
<1>2. CASE DOMAIN conns # {}
  <2> DEFINE k == Ended(conns[1])
  <2>1. Len(conns) = 1 /\ conns[1] \in Connection /\ DOMAIN conns = {1}
    BY <1>2, TheConnection
  <2>2. k \in Connection /\ k.up = << >> /\ k.down = conns[1].down /\ k.open = conns[1].open
    BY <2>1, EndedFields
  <2>3. conns' \in Seq(Connection) /\ Len(conns') = 1 /\ conns'[1] = k
    <3>1. conns' = [c \in 1 .. 1 |-> Ended(conns[c])]
      BY <2>1 DEF WorkerDies
    <3>2. conns' = << k >>
      BY <3>1
    <3> HIDE DEF k
    <3> QED
      BY <2>2, <3>2
  <2> HIDE DEF k
  <2>4. worker' \in {"up", "down"} /\ UNCHANGED guest
    BY DEF WorkerDies
  <2>5. backend # 0 =>
            \/ k.up = << >> /\ k.down = << >>
            \/ /\ lock # NoOne
               /\ k.up = << >> /\ Len(k.down) = 1 /\ k.down[1].id = request[lock].id
    BY <2>2 DEF StreamInStep
  <2> QED
    BY <2>1, <2>2, <2>3, <2>4, <2>5, WorkerStep
<1> QED
  BY <1>1, <1>2

(* A dispatch hangs.                                                       *)
LEMMA HangStep ==
    ASSUME TransportInv, NEW c \in DOMAIN conns, Hang(c) PROVE TransportInv'
<1> USE DEF TransportInv
<1> DEFINE k == Hung(conns[1])
<1>1. Len(conns) = 1 /\ conns[1] \in Connection /\ DOMAIN conns = {1} /\ c = 1
  BY TheConnection
<1>2. /\ k \in Connection
      /\ k.up = conns[1].up /\ k.down = conns[1].down /\ k.open = conns[1].open
  BY <1>1, HungFields
<1>3. conns' \in Seq(Connection) /\ Len(conns') = 1 /\ conns'[1] = k
  <2>1. conns' = [conns EXCEPT ![1] = k]
    BY <1>1 DEF Hang
  <2>2. conns \in Seq(Connection)
    BY DEF TypeOK
  <2> HIDE DEF k
  <2> QED
    BY <1>1, <1>2, <2>1, <2>2, Replaced
<1> HIDE DEF k
<1>4. worker' \in {"up", "down"} /\ UNCHANGED guest
  BY DEF Hang, TypeOK
<1>5. \A i \in 1 .. Len(k.up) : k.up[i].handle.issuer \in {0, 1}
  BY <1>1, <1>2 DEF HandlesFromFirst
<1>6. backend # 0 =>
          \/ k.up = << >> /\ k.down = << >>
          \/ /\ lock # NoOne
             /\ Len(k.up) = 1 /\ k.down = << >> /\ k.up[1].id = request[lock].id
          \/ /\ lock # NoOne
             /\ k.up = << >> /\ Len(k.down) = 1 /\ k.down[1].id = request[lock].id
  BY <1>2 DEF StreamInStep
<1> QED
  BY <1>1, <1>2, <1>3, <1>4, <1>5, <1>6, WorkerStep

(* The reply has the id of the one request on the stream.                  *)
LEMMA DispatchStep ==
    ASSUME TransportInv, NEW c \in DOMAIN conns, Dispatch(c) PROVE TransportInv'
<1> USE DEF TransportInv
<1>1. Len(conns) = 1 /\ conns[1] \in Connection /\ DOMAIN conns = {1} /\ c = 1
  BY TheConnection
<1> DEFINE r == Head(conns[1].up)
           status == Status(1, r)
           issued == conns[1].issued + (IF r.op = "create" /\ status = "OK" THEN 1 ELSE 0)
           reply == [id |-> r.id, number |-> issued, status |-> status]
           k == Answered(conns[1], reply, issued)
<1>2. conns[1].up # << >> /\ conns[1].up \in Seq(Request) /\ conns[1].down \in Seq(Reply)
  BY <1>1 DEF Dispatch, Serving, Connection
<1>3. r \in Request /\ r = conns[1].up[1]
  BY <1>2
<1>4. issued \in Nat
  BY <1>1 DEF Connection
<1>5. reply \in Reply /\ reply.id = r.id
  BY <1>3, <1>4 DEF Reply, Request, Status
<1>6. conns' = [conns EXCEPT ![1] = k] /\ UNCHANGED << guest, worker >>
  BY <1>1 DEF Dispatch
<1> HIDE DEF r, status, issued, reply
<1>7. /\ k \in Connection /\ k.up = Tail(conns[1].up) /\ k.open = conns[1].open
      /\ k.down = IF conns[1].open THEN Append(conns[1].down, reply) ELSE conns[1].down
  BY <1>1, <1>2, <1>4, <1>5, AnsweredFields
<1> HIDE DEF k
<1>8. conns' \in Seq(Connection) /\ Len(conns') = 1 /\ conns'[1] = k
  BY <1>1, <1>6, <1>7, Replaced DEF TypeOK
<1>9. worker' \in {"up", "down"}
  BY <1>6 DEF TypeOK
<1>10. \A i \in 1 .. Len(k.up) : k.up[i].handle.issuer \in {0, 1}
  <2>1. \A i \in 1 .. Len(conns[1].up) : conns[1].up[i].handle.issuer \in {0, 1}
    BY <1>1 DEF HandlesFromFirst
  <2> QED
    BY <1>2, <1>7, <2>1
<1>11. backend # 0 =>
          /\ lock # NoOne
          /\ k.up = << >> /\ Len(k.down) = 1 /\ k.down[1].id = request[lock].id
  <2> SUFFICES ASSUME backend # 0
               PROVE  /\ lock # NoOne
                      /\ k.up = << >> /\ Len(k.down) = 1 /\ k.down[1].id = request[lock].id
    OBVIOUS
  <2>1. conns[1].open = TRUE
    BY DEF DialledOnce
  <2>2. /\ lock # NoOne
        /\ Len(conns[1].up) = 1 /\ conns[1].down = << >>
        /\ conns[1].up[1].id = request[lock].id
    BY <1>2 DEF StreamInStep
  <2>3. k.up = << >>
    BY <1>2, <1>7, <2>2, TailOfOne
  <2>4. k.down = << reply >>
    BY <1>7, <2>1, <2>2
  <2>5. Len(k.down) = 1 /\ k.down[1] = reply
    BY <2>4
  <2> QED
    BY <1>3, <1>5, <2>2, <2>3, <2>5
<1> QED
  BY <1>1, <1>6, <1>7, <1>8, <1>9, <1>10, <1>11, WorkerStep, Zenon

(* The caller in the round trip reads the reply to its own request.        *)
LEMMA ReceiveStep ==
    ASSUME TransportInv, NEW t \in Callers, Receive(t) PROVE TransportInv'
<1> USE Numbers DEF TransportInv
<1> DEFINE k == ReplyTaken(conns[1])
           reply == Head(conns[1].down)
<1>1. lock = t /\ t # NoOne
  BY Names DEF Receive, OneRoundTrip
<1>2. backend = 1
  BY <1>1 DEF OneRoundTrip, DialledOnce
<1>3. Len(conns) = 1 /\ conns[1] \in Connection /\ DOMAIN conns = {1}
  BY <1>2, TheConnection
<1>4. conns[1].down # << >> /\ conns[1].down \in Seq(Reply)
  BY <1>2, <1>3 DEF Receive, Connection
<1>5. conns[1].up = << >> /\ Len(conns[1].down) = 1 /\ conns[1].down[1].id = request[t].id
  BY <1>1, <1>2, <1>4 DEF StreamInStep
<1>6. reply \in Reply /\ reply.id = request[t].id
  BY <1>4, <1>5
<1>7. k \in Connection /\ k.up = << >> /\ k.down = << >> /\ k.open = conns[1].open
  <2>1. /\ k \in Connection /\ k.up = conns[1].up /\ k.down = Tail(conns[1].down)
        /\ k.open = conns[1].open
    BY <1>3, <1>4, ReplyTakenFields
  <2> HIDE DEF k
  <2> QED
    BY <1>4, <1>5, <2>1, TailOfOne
<1>8. conns' \in Seq(Connection) /\ Len(conns') = 1 /\ conns'[1] = k
  <2>1. conns' = [conns EXCEPT ![1] = k]
    BY <1>2 DEF Receive
  <2>2. conns \in Seq(Connection)
    BY DEF TypeOK
  <2> HIDE DEF k
  <2> QED
    BY <1>3, <1>7, <2>1, <2>2, Replaced
<1>9. answered' = [answered EXCEPT ![t] = reply.id]
  BY <1>2 DEF Receive
<1>10. held' \in [Threads -> Handle] /\ \A u \in Threads : held'[u].issuer \in {0, 1}
  <2>1. CASE t \in Threads
    <3>1. PICK keep \in BOOLEAN :
              held' = [held EXCEPT ![t] =
                  IF request[t].op = "create" /\ reply.status = "OK"
                  THEN [number |-> reply.number, issuer |-> 1]
                  ELSE IF keep THEN held[t] ELSE NoHandle]
      BY <1>2, <2>1 DEF Receive
    <3> DEFINE h == IF request[t].op = "create" /\ reply.status = "OK"
                    THEN [number |-> reply.number, issuer |-> 1]
                    ELSE IF keep THEN held[t] ELSE NoHandle
    <3>2. held[t] \in Handle /\ held[t].issuer \in {0, 1}
      BY <2>1 DEF TypeOK, HandlesFromFirst
    <3> HIDE DEF reply
    <3>3. h \in Handle /\ h.issuer \in {0, 1}
      BY <1>6, <3>2 DEF Handle, Reply, NoHandle
    <3>4. held' = [held EXCEPT ![t] = h]
      BY <3>1
    <3> HIDE DEF h
    <3> QED
      BY <2>1, <3>3, <3>4 DEF TypeOK, HandlesFromFirst
  <2>2. CASE t \notin Threads
    BY <2>2 DEF Receive, TypeOK, HandlesFromFirst
  <2> QED
    BY <2>1, <2>2
<1>11. /\ pc' = [pc EXCEPT ![t] = "idle"] /\ lock' = NoOne
       /\ UNCHANGED << backend, killed, request_id, heartbeat, request, worker >>
  BY DEF Receive
<1> HIDE DEF k, reply
<1>12. TypeOK'
  <2>1. answered' \in [Callers -> Nat]
    BY <1>6, <1>9 DEF TypeOK, Reply
  <2> QED
    BY <2>1, <1>8, <1>10, <1>11 DEF TypeOK
<1>13. DialledOnce'
  BY <1>2, <1>7, <1>8, <1>11 DEF DialledOnce
<1>14. OneRoundTrip'
  <2>1. \A u \in Callers : u # NoOne
    BY Names
  <2> QED
    BY <1>1, <1>11, <2>1 DEF OneRoundTrip, TypeOK
<1>15. StreamInStep'
  BY <1>7, <1>8 DEF StreamInStep
<1>16. HandlesFromFirst'
  <2>1. DOMAIN conns' = {1}
    BY <1>8
  <2> QED
    BY <1>7, <1>8, <1>10, <1>11, <2>1 DEF HandlesFromFirst
<1>17. RepliesMatch'
  BY <1>6, <1>9, <1>11 DEF RepliesMatch, TypeOK
<1> QED
  BY <1>12, <1>13, <1>14, <1>15, <1>16, <1>17

(* A failed round trip closes the only connection for good.                *)
LEMMA ReceiveFailsStep ==
    ASSUME TransportInv, NEW t \in Callers, ReceiveFails(t) PROVE TransportInv'
<1> USE DEF TransportInv
<1> DEFINE k == Dropped(conns[1])
<1>1. lock = t /\ t # NoOne
  BY Names DEF ReceiveFails, OneRoundTrip
<1>2. backend = 1
  BY <1>1 DEF OneRoundTrip, DialledOnce
<1>3. Len(conns) = 1 /\ conns[1] \in Connection /\ DOMAIN conns = {1}
  BY <1>2, TheConnection
<1>4. k \in Connection /\ k.up = conns[1].up
  BY <1>3, DroppedFields
<1>5. conns' \in Seq(Connection) /\ Len(conns') = 1 /\ conns'[1] = k
  <2>1. conns' = [conns EXCEPT ![1] = k]
    BY <1>2 DEF ReceiveFails, BackendLost
  <2>2. conns \in Seq(Connection)
    BY DEF TypeOK
  <2> HIDE DEF k
  <2> QED
    BY <1>3, <1>4, <2>1, <2>2, Replaced
<1> HIDE DEF k
<1>6. /\ backend' = 0 /\ killed' = TRUE
      /\ pc' = [pc EXCEPT ![t] = "idle"] /\ lock' = NoOne
      /\ UNCHANGED << request_id, heartbeat, request, answered, held, worker >>
  BY DEF ReceiveFails, BackendLost
<1>7. TypeOK'
  BY <1>5, <1>6 DEF TypeOK
<1>8. DialledOnce'
  BY <1>5, <1>6 DEF DialledOnce
<1>9. OneRoundTrip'
  <2>1. \A u \in Callers : u # NoOne
    BY Names
  <2> QED
    BY <1>1, <1>6, <2>1 DEF OneRoundTrip, TypeOK
<1>10. StreamInStep'
  BY <1>6 DEF StreamInStep
<1>11. HandlesFromFirst'
  <2>1. DOMAIN conns' = {1}
    BY <1>5
  <2> QED
    BY <1>3, <1>4, <1>5, <1>6, <2>1 DEF HandlesFromFirst
<1>12. RepliesMatch'
  BY <1>6 DEF RepliesMatch
<1> QED
  BY <1>7, <1>8, <1>9, <1>10, <1>11, <1>12

-----------------------------------------------------------------------------
(* The invariant, and what it gives. *)

(* Every step keeps the invariant.                                         *)
LEMMA TransportStep == TransportInv /\ [Next]_vars => TransportInv'
<1> SUFFICES ASSUME TransportInv, [Next]_vars PROVE TransportInv'
  OBVIOUS
<1>1. CASE \E t \in Threads : Call(t) \/ SendUnconnected(t) \/ SendOnNew(t) \/ SendOnOpen(t)
  BY <1>1, CallStep, SendUnconnectedStep, SendOnNewStep, SendOnOpenStep
<1>2. CASE HeartbeatProbe
  BY <1>2, HeartbeatProbeStep
<1>3. CASE \E t \in Callers : Receive(t) \/ ReceiveFails(t)
  BY <1>3, ReceiveStep, ReceiveFailsStep
<1>4. CASE \E c \in DOMAIN conns : CloseOversized(c) \/ Dispatch(c) \/ Hang(c) \/ ClientGone(c)
  <2>1. PICK c \in DOMAIN conns : CloseOversized(c) \/ Dispatch(c) \/ Hang(c) \/ ClientGone(c)
    BY <1>4
  <2>2. CASE CloseOversized(c) \/ ClientGone(c)
    BY <2>2, EndStep DEF CloseOversized, ClientGone
  <2>3. CASE Dispatch(c) \/ Hang(c)
    BY <2>3, DispatchStep, HangStep
  <2> QED
    BY <2>1, <2>2, <2>3
<1>5. CASE WorkerDies
  BY <1>5, WorkerDiesStep
<1>6. CASE UNCHANGED vars
  <2>1. TypeOK'
    BY <1>6 DEF TransportInv, TypeOK, vars, guest
  <2>2. DialledOnce' /\ OneRoundTrip' /\ StreamInStep' /\ HandlesFromFirst' /\ RepliesMatch'
    BY <1>6 DEF TransportInv, vars, guest, DialledOnce, OneRoundTrip, StreamInStep,
                HandlesFromFirst, RepliesMatch
  <2> QED
    BY <2>1, <2>2 DEF TransportInv
<1> QED
  BY <1>1, <1>2, <1>3, <1>4, <1>5, <1>6 DEF Next

(***************************************************************************)
(* In every run of the guest and the worker, with any threads, the reply a *)
(* call returns is the reply to its own request: send_request_bytes        *)
(* compares no ids, and needs none, because a stream on which a round trip *)
(* failed is never read again.                                             *)
(***************************************************************************)
THEOREM RepliesAreOwn == Spec => []RepliesMatch
<1>1. TransportInv => RepliesMatch
  BY DEF TransportInv
<1> QED
  BY <1>1, TransportInit, TransportStep, PTL DEF Spec

(***************************************************************************)
(* In every run, no request reaches a backend with a handle that another   *)
(* backend issued: TRANSPORT_KILLED lets the guest dial only once.         *)
(***************************************************************************)
THEOREM HandlesStayHome == Spec => []HandlesOfThisBackend
<1>1. TransportInv => HandlesOfThisBackend
  <2> SUFFICES ASSUME TransportInv, NEW c \in DOMAIN conns,
                      NEW i \in 1 .. Len(conns[c].up)
               PROVE  conns[c].up[i].handle.issuer \in {0, c}
    BY DEF HandlesOfThisBackend
  <2>1. c = 1
    BY TheConnection DEF TransportInv
  <2> QED
    BY <2>1 DEF TransportInv, HandlesFromFirst
<1> QED
  BY <1>1, TransportInit, TransportStep, PTL DEF Spec
=============================================================================
