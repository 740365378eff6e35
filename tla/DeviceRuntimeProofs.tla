------------------------- MODULE DeviceRuntimeProofs -------------------------
(***************************************************************************)
(* Proofs about DeviceRuntime, for every number of calls, sessions, catalog *)
(* versions and faults: the type invariant, that an answer is honest, that  *)
(* nothing runs across sessions, that a withdrawn call stays off the device *)
(* and that the device does not work on, uncancelled, for a caller who      *)
(* takes the call for closed.                                               *)
(*                                                                          *)
(* The argument is about one copy: a request is pushed once, and from then  *)
(* on is on the wire, in the queue, in one gateway's hand, on one socket,   *)
(* or spent (started, or rejected), and never in two of these (CopyInv).    *)
(* That is what makes "rejected" mean "never ran".  The cancel of a request *)
(* that was sent is then always behind its one copy (CancelInv).            *)
(***************************************************************************)
EXTENDS DeviceRuntime, SequenceTheorems, TLAPS

-----------------------------------------------------------------------------
(* The invariants.                                                          *)

(* A publication under way has a version left for it. *)
SyncIsBounded ==
    /\ sync # "none" => mirror < MaxVersion
    /\ sync = "read" => fetched.version < MaxVersion

(* A sidecar that is not off has registered. *)
SideHasSession == side # "off" => session \in Sessions

TypeInv == TypeOK /\ SyncIsBounded /\ SideHasSession

(* A session nobody has connected: no gateway, no socket, nothing in either. *)
Untouched(s) == gate[s] = "none" /\ link[s] = "none" /\ hand[s] = Empty /\ down[s] = <<>>

(* How the sidecar's session, its gateway and its socket go together. *)
SessionInv ==
    /\ \A s \in Sessions : s > session => Untouched(s)
    /\ side = "registered" => Untouched(session)
    /\ side \in {"connected", "syncing", "serving"} => link[session] # "none"
    /\ \A s \in Sessions : gate[s] = "open" => link[s] # "none"
    /\ \A s \in Sessions : gate[s] # "open" => hand[s] = Empty
    /\ running # {} => side = "serving"

(* Where the one copy of a request can be. *)
InQueue(r) == Run(r) \in ToSet(queue)
InHand(s, r) == hand[s] # Empty /\ hand[s][1] = Run(r)
InDown(s, r) == Run(r) \in ToSet(down[s])
Carries(s, r) == InHand(s, r) \/ InDown(s, r)

Nowhere(r) == r \notin wire /\ ~InQueue(r) /\ \A s \in Sessions : ~Carries(s, r)

(* Somebody has said, or is about to say, that the request never ran, or    *)
(* that it did.                                                             *)
Says(r, res) ==
    answer[r] = res \/ result[r] = res \/ \E s \in Sessions : <<r, res>> \in up[s]

(* e occurs at most once in seq. *)
Once(seq, e) == \A i, j \in DOMAIN seq : seq[i] = e /\ seq[j] = e => i = j

(* At most one copy of a request exists, wherever it is. *)
OneCopy(r) ==
    /\ Once(queue, Run(r))
    /\ \A s \in Sessions : Once(down[s], Run(r))
    /\ r \in wire => ~InQueue(r) /\ \A s \in Sessions : ~Carries(s, r)
    /\ InQueue(r) => \A s \in Sessions : ~Carries(s, r)
    /\ \A s, t \in Sessions : Carries(s, r) /\ Carries(t, r) => s = t
    /\ \A s \in Sessions : InHand(s, r) => ~InDown(s, r)

(* A request not pushed yet, or refused before it was, is nowhere. *)
NotSent(r) ==
    /\ dispatch[r] \in {"idle", "bound", "pushing"} =>
         Nowhere(r) /\ r \notin started /\ ~Says(r, "rejected")
    /\ answer[r] = "refused" => dispatch[r] = "over" /\ Nowhere(r) /\ r \notin started

(* Once it has started, or been rejected, its copy is gone: never both. And *)
(* what has reported a result runs no more.                                 *)
Spent(r) ==
    /\ r \in started => Nowhere(r)
    /\ Says(r, "rejected") => Nowhere(r) /\ r \notin started
    /\ Says(r, "ran") => r \in started /\ r \notin running
    /\ r \in running => r \in started /\ bound[r].sid = session

CopyInv == \A r \in Requests : OneCopy(r) /\ NotSent(r) /\ Spent(r)

(* Some b stands behind every a in seq. *)
Follows(seq, a, b) ==
    \E j \in DOMAIN seq : seq[j] = b /\ \A i \in DOMAIN seq : seq[i] = a => i < j

(* A caller that has withdrawn its request has left the marker. *)
MarkedInv ==
    \A r \in Requests :
        answer[r] = "abandoned" /\ dispatch[r] \in {"cancelling", "clearing", "over"} =>
            r \in withdrawn

(* A caller that no longer waits knows what to tell. *)
AnsweredInv ==
    \A r \in Requests :
        dispatch[r] \in {"withdrawing", "cancelling", "clearing", "over"} => answer[r] # "none"

(* A gateway looks up the marker for requests only. *)
UncheckedInv ==
    \A s \in Sessions : hand[s] # Empty /\ ~hand[s][2] => hand[s][1].kind = "run"

(* The caller has withdrawn the request and, if need be, queued its cancel. *)
HasLeft(r) == answer[r] = "abandoned" /\ dispatch[r] \in {"clearing", "over"}

(* The gateway or the device of the current session will run the request,   *)
(* or runs it: then a cancel is behind it.                                  *)
Chased(r) ==
    HasLeft(r) /\ r \notin dropped =>
        \A s \in Sessions : s = session /\ link[s] # "broken" /\ Cancel(r) \notin ToSet(queue) =>
            /\ hand[s] # <<Run(r), TRUE>>
            /\ InDown(s, r) \/ r \in running =>
                 hand[s] = <<Cancel(r), TRUE>> \/ Follows(down[s], Run(r), Cancel(r))

CancelInv == MarkedInv /\ AnsweredInv /\ UncheckedInv /\ \A r \in Requests : Chased(r)

-----------------------------------------------------------------------------
(* Messages and sequences of them.                                          *)

(* A message is a request or a cancel, of one call. *)
LEMMA MessageKinds ==
    /\ \A r \in Requests : Run(r) \in Message /\ Cancel(r) \in Message
    /\ \A r \in Requests : Run(r).kind = "run" /\ Run(r).req = r
    /\ \A r \in Requests : Cancel(r).kind = "cancel" /\ Cancel(r).req = r
    /\ \A q, r \in Requests : Run(q) # Cancel(r)
    /\ \A q, r \in Requests : Run(q) = Run(r) => q = r
    /\ \A m \in Message : m.req \in Requests
    /\ \A m \in Message : m.kind = "run" => m = Run(m.req)
    /\ \A m \in Message : m.kind = "cancel" => m = Cancel(m.req)
    /\ \A m \in Message : m.kind \in {"run", "cancel"}
  BY DEF Run, Cancel, Message

(* What an appended sequence holds, and in which order. *)
LEMMA Appended ==
    ASSUME NEW S, NEW seq \in Seq(S), NEW e \in S
    PROVE  /\ Append(seq, e) \in Seq(S)
           /\ ToSet(Append(seq, e)) = ToSet(seq) \union {e}
           /\ \A x : x # e /\ Once(seq, x) => Once(Append(seq, e), x)
           /\ e \notin ToSet(seq) => Once(Append(seq, e), e)
           /\ \A a : a # e => Follows(Append(seq, e), a, e)
           /\ \A a, b : a # e /\ Follows(seq, a, b) => Follows(Append(seq, e), a, b)
  <1> DEFINE new == Append(seq, e)
  <1>1. /\ new \in Seq(S) /\ Len(seq) \in Nat /\ Len(new) = Len(seq) + 1
        /\ \A i \in 1..Len(seq) : new[i] = seq[i]
        /\ new[Len(seq) + 1] = e
    BY AppendProperties, LenProperties
  <1>2. DOMAIN seq = 1..Len(seq) /\ DOMAIN new = 1..(Len(seq) + 1)
    BY <1>1, LenProperties
  <1> HIDE DEF new
  <1>3. ToSet(new) = ToSet(seq) \union {e}
    BY <1>1, <1>2 DEF ToSet
  <1>4. ASSUME NEW x, x # e, Once(seq, x) PROVE Once(new, x)
    BY <1>1, <1>2, <1>4 DEF Once
  <1>5. e \notin ToSet(seq) => Once(new, e)
    BY <1>1, <1>2 DEF Once, ToSet
  <1>6. ASSUME NEW a, a # e PROVE Follows(new, a, e)
    BY <1>1, <1>2, <1>6 DEF Follows
  <1>7. ASSUME NEW a, NEW b, a # e, Follows(seq, a, b) PROVE Follows(new, a, b)
    BY <1>1, <1>2, <1>7 DEF Follows
  <1> QED
    BY <1>1, <1>3, <1>4, <1>5, <1>6, <1>7 DEF new

(* What is left when the head of a sequence is taken. *)
LEMMA Taken ==
    ASSUME NEW S, NEW seq \in Seq(S), seq # <<>>
    PROVE  /\ Tail(seq) \in Seq(S)
           /\ Head(seq) \in S
           /\ ToSet(seq) = {Head(seq)} \union ToSet(Tail(seq))
           /\ \A x : Once(seq, x) => Once(Tail(seq), x)
           /\ Once(seq, Head(seq)) => Head(seq) \notin ToSet(Tail(seq))
           /\ \A a, b : Follows(seq, a, b) /\ (Head(seq) = b => a \in ToSet(seq) /\ a # b) =>
                Follows(Tail(seq), a, b)
  <1> DEFINE new == Tail(seq)
  <1>1. /\ new \in Seq(S) /\ Len(seq) \in Nat \ {0} /\ Len(new) = Len(seq) - 1
        /\ \A i \in 1..Len(new) : new[i] = seq[i + 1]
        /\ Head(seq) = seq[1] /\ Head(seq) \in S
    BY HeadTailProperties, LenProperties, EmptySeq
  <1>2. DOMAIN seq = 1..Len(seq) /\ DOMAIN new = 1..(Len(seq) - 1)
    BY <1>1, LenProperties
  <1> HIDE DEF new
  <1>3. \A i \in DOMAIN seq : i # 1 => i - 1 \in DOMAIN new /\ new[i - 1] = seq[i]
    BY <1>1, <1>2
  <1>4. \A i \in DOMAIN new : i + 1 \in DOMAIN seq /\ new[i] = seq[i + 1] /\ i \in Nat
    BY <1>1, <1>2
  <1>5. 1 \in DOMAIN seq /\ DOMAIN seq \subseteq Nat
    BY <1>1, <1>2
  <1>6. ToSet(seq) = {Head(seq)} \union ToSet(new)
    BY <1>1, <1>3, <1>4, <1>5 DEF ToSet
  <1>7. ASSUME NEW x, Once(seq, x) PROVE Once(new, x)
    BY <1>4, <1>5, <1>7 DEF Once
  <1>8. Once(seq, Head(seq)) => Head(seq) \notin ToSet(new)
    BY <1>1, <1>4, <1>5 DEF Once, ToSet
  <1>9. ASSUME NEW a, NEW b, Follows(seq, a, b),
               Head(seq) = b => a \in ToSet(seq) /\ a # b
        PROVE  Follows(new, a, b)
    <2>1. PICK j \in DOMAIN seq : seq[j] = b /\ \A i \in DOMAIN seq : seq[i] = a => i < j
      BY <1>9 DEF Follows
    <2>2. j # 1
      BY <1>1, <1>5, <1>9, <2>1 DEF ToSet
    <2>3. \A i \in DOMAIN new : new[i] = a => i < j - 1
      BY <1>4, <1>5, <2>1
    <2> QED
      BY <1>3, <2>1, <2>2, <2>3 DEF Follows
  <1> QED
    BY <1>1, <1>6, <1>7, <1>8, <1>9 DEF new

(* LREM of a message that is queued at most once. *)
LEMMA Removed ==
    ASSUME NEW S, NEW seq \in Seq(S), NEW e \in S, Once(seq, e)
    PROVE  /\ RemoveFirst(seq, e) \in Seq(S)
           /\ ToSet(RemoveFirst(seq, e)) = ToSet(seq) \ {e}
           /\ \A x : Once(seq, x) => Once(RemoveFirst(seq, e), x)
  <1>1. Len(seq) \in Nat /\ DOMAIN seq = 1..Len(seq)
    BY LenProperties
  <1>2. CASE ~\E i \in 1..Len(seq) : seq[i] = e
    <2>1. RemoveFirst(seq, e) = seq
      BY <1>2 DEF RemoveFirst
    <2> QED
      BY <1>1, <1>2, <2>1 DEF ToSet
  <1>3. CASE \E i \in 1..Len(seq) : seq[i] = e
    <2>1. PICK k \in 1..Len(seq) : seq[k] = e
      BY <1>3
    <2>2. \A i \in 1..Len(seq) : seq[i] = e => i = k
      BY <1>1, <2>1 DEF Once
    <2>3. SelectInSeq(seq, LAMBDA v : v = e) = k
      <3>1. {i \in 1..Len(seq) : seq[i] = e} = {k}
        BY <2>1, <2>2
      <3>2. Min({k}) = k
        BY <1>1 DEF Min
      <3> QED
        BY <3>1, <3>2 DEF SelectInSeq
    <2> DEFINE new == RemoveFirst(seq, e)
    <2>4. new = SubSeq(seq, 1, k - 1) \o SubSeq(seq, k + 1, Len(seq))
      BY <1>3, <2>3 DEF RemoveFirst, RemoveAt
    <2>5. /\ new \in Seq(S) /\ Len(new) = Len(seq) - 1
          /\ \A i \in 1..(Len(seq) - 1) : new[i] = IF i < k THEN seq[i] ELSE seq[i + 1]
      <3> DEFINE a == SubSeq(seq, 1, k - 1)
                 b == SubSeq(seq, k + 1, Len(seq))
      <3>1. k \in Nat /\ 1 <= k /\ k <= Len(seq) /\ \A i \in 1..Len(seq) : seq[i] \in S
        BY <1>1, ElementOfSeq
      <3>2. a \in Seq(S) /\ Len(a) = k - 1 /\ \A i \in 1..(k - 1) : a[i] = seq[i]
        <4>1. \A i \in 1..(k - 1) : seq[i] \in S
          BY <1>1, <3>1
        <4>2. /\ a \in Seq(S) /\ Len(a) = IF 1 <= k - 1 THEN (k - 1) - 1 + 1 ELSE 0
              /\ \A i \in 1..((k - 1) - 1 + 1) : a[i] = seq[1 + i - 1]
          BY <3>1, <4>1, SubSeqProperties
        <4> QED
          BY <3>1, <4>2
      <3>3. /\ b \in Seq(S) /\ Len(b) = Len(seq) - k
            /\ \A i \in 1..(Len(seq) - k) : b[i] = seq[k + i]
        <4>1. \A i \in (k + 1)..Len(seq) : seq[i] \in S
          BY <1>1, <3>1
        <4>2. /\ b \in Seq(S)
              /\ Len(b) = IF k + 1 <= Len(seq) THEN Len(seq) - (k + 1) + 1 ELSE 0
              /\ \A i \in 1..(Len(seq) - (k + 1) + 1) : b[i] = seq[(k + 1) + i - 1]
          BY <1>1, <3>1, <4>1, SubSeqProperties
        <4> HIDE DEF b
        <4>3. Len(seq) - (k + 1) + 1 = Len(seq) - k
          BY <1>1, <3>1
        <4>4. \A i \in 1..(Len(seq) - k) : (k + 1) + i - 1 = k + i
          BY <1>1, <3>1
        <4>5. Len(b) = Len(seq) - k
          <5>1. Len(b) = IF k + 1 <= Len(seq) THEN Len(seq) - (k + 1) + 1 ELSE 0
            BY <4>2, Zenon
          <5>2. k \in Nat /\ k <= Len(seq) /\ Len(seq) \in Nat
            BY <1>1, <3>1
          <5>3. CASE k + 1 <= Len(seq)
            <6>1. Len(b) = Len(seq) - (k + 1) + 1
              BY <5>1, <5>3, Zenon
            <6> QED
              BY <4>3, <6>1, Zenon
          <5>4. CASE ~(k + 1 <= Len(seq))
            <6>1. Len(b) = 0
              BY <5>1, <5>4, Zenon
            <6>2. Len(seq) - k = 0
              BY <5>2, <5>4
            <6> QED
              BY <6>1, <6>2, Zenon
          <5> QED
            BY <5>3, <5>4
        <4>6. \A i \in 1..(Len(seq) - k) : b[i] = seq[k + i]
          <5> SUFFICES ASSUME NEW i \in 1..(Len(seq) - k) PROVE b[i] = seq[k + i]
            OBVIOUS
          <5>1. i \in 1..(Len(seq) - (k + 1) + 1)
            BY <4>3, Zenon
          <5>2. b[i] = seq[(k + 1) + i - 1]
            BY <4>2, <5>1, Zenon
          <5> QED
            BY <4>4, <5>2, Zenon
        <4> QED
          BY <4>2, <4>5, <4>6
      <3>4. new = a \o b
        BY <2>4 DEF a, b
      <3> HIDE DEF a, b, new
      <3>5. /\ new \in Seq(S) /\ Len(new) = Len(a) + Len(b)
            /\ \A i \in 1..(Len(a) + Len(b)) : new[i] = IF i <= Len(a) THEN a[i] ELSE b[i - Len(a)]
        BY <3>2, <3>3, <3>4, ConcatProperties
      <3>6. ASSUME NEW i \in 1..(Len(seq) - 1)
            PROVE  new[i] = IF i < k THEN seq[i] ELSE seq[i + 1]
        <4>1. CASE i < k
          BY <1>1, <3>1, <3>2, <3>3, <3>5, <4>1
        <4>2. CASE ~(i < k)
          <5>1. i - Len(a) \in 1..(Len(seq) - k) /\ k + (i - Len(a)) = i + 1
            BY <1>1, <3>1, <3>2, <4>2
          <5>2. i \in 1..(Len(a) + Len(b)) /\ ~(i <= Len(a))
            BY <1>1, <3>1, <3>2, <3>3, <4>2
          <5>3. new[i] = b[i - Len(a)]
            BY <3>5, <5>2
          <5> QED
            BY <3>3, <4>2, <5>1, <5>3
        <4> QED
          BY <4>1, <4>2
      <3> QED
        BY <1>1, <3>1, <3>2, <3>3, <3>5, <3>6
    <2>6. DOMAIN new = 1..(Len(seq) - 1)
      BY <2>5, LenProperties
    <2> HIDE DEF new
    <2> DEFINE old(i) == IF i < k THEN i ELSE i + 1
    <2>7. \A i \in DOMAIN new : old(i) \in DOMAIN seq /\ old(i) # k /\ new[i] = seq[old(i)]
      BY <1>1, <2>5, <2>6
    <2>8. \A i \in DOMAIN seq : i # k => \E n \in DOMAIN new : old(n) = i
      <3> SUFFICES ASSUME NEW i \in DOMAIN seq, i # k PROVE \E n \in DOMAIN new : old(n) = i
        OBVIOUS
      <3>1. CASE i < k
        <4>1. i \in DOMAIN new /\ old(i) = i
          BY <1>1, <2>6, <3>1
        <4> QED
          BY <4>1
      <3>2. CASE ~(i < k)
        <4>1. i - 1 \in DOMAIN new /\ old(i - 1) = i
          BY <1>1, <2>6, <3>2
        <4> QED
          BY <4>1
      <3> QED
        BY <3>1, <3>2
    <2>9. \A i, j \in DOMAIN new : old(i) = old(j) => i = j
      BY <1>1, <2>6
    <2> HIDE DEF old
    <2>10. ToSet(new) = ToSet(seq) \ {e}
      BY <1>1, <2>1, <2>2, <2>7, <2>8 DEF ToSet
    <2>11. ASSUME NEW x, Once(seq, x) PROVE Once(new, x)
      BY <2>7, <2>9, <2>11 DEF Once
    <2> QED
      BY <2>5, <2>10, <2>11 DEF new
  <1> QED
    BY <1>2, <1>3

(* What a step leaves alone keeps its type. *)
LEMMA Kept ==
    /\ RedisOK /\ UNCHANGED redis => RedisOK'
    /\ CallersOK /\ UNCHANGED callers => CallersOK'
    /\ GatewaysOK /\ UNCHANGED gateways => GatewaysOK'
    /\ SocketsOK /\ UNCHANGED sockets => SocketsOK'
    /\ SidecarOK /\ UNCHANGED sidecar => SidecarOK'
    /\ HistoryOK /\ UNCHANGED history => HistoryOK'
  BY DEF RedisOK, CallersOK, GatewaysOK, SocketsOK, SidecarOK, HistoryOK, redis, callers,
     gateways, sockets, sidecar, history

(* Bind keeps the types. *)
LEMMA BindType ==
    ASSUME TypeInv, NEW r \in Requests, Bind(r)
    PROVE  TypeInv'
  <1> USE DEF TypeInv, TypeOK, Bind
  <1>1. RedisOK' /\ GatewaysOK' /\ SocketsOK' /\ SidecarOK' /\ HistoryOK'
    BY Kept
  <1>2. CallersOK'
    BY BoundsAssumption DEF CallersOK, RedisOK
  <1>3. SyncIsBounded' /\ SideHasSession'
    BY BoundsAssumption DEF SyncIsBounded, SideHasSession, sidecar
  <1> QED
    BY <1>1, <1>2, <1>3

(* Dispatch keeps the types. *)
LEMMA DispatchType ==
    ASSUME TypeInv, NEW r \in Requests, Dispatch(r)
    PROVE  TypeInv'
  <1> USE DEF TypeInv, TypeOK, Dispatch
  <1>1. RedisOK' /\ GatewaysOK' /\ SocketsOK' /\ SidecarOK' /\ HistoryOK'
    BY Kept
  <1>2. CallersOK'
    BY BoundsAssumption DEF CallersOK
  <1>3. SyncIsBounded' /\ SideHasSession'
    BY BoundsAssumption DEF SyncIsBounded, SideHasSession, sidecar
  <1> QED
    BY <1>1, <1>2, <1>3

(* Push keeps the types. *)
LEMMA PushType ==
    ASSUME TypeInv, NEW r \in Requests, Push(r)
    PROVE  TypeInv'
  <1> USE DEF TypeInv, TypeOK, Push, Enqueue
  <1>1. GatewaysOK' /\ SocketsOK' /\ SidecarOK' /\ HistoryOK'
    BY Kept
  <1>2. RedisOK'
    <2>1. Run(r) \in Message
      BY MessageKinds
    <2>2. queue' \in Seq(Message)
      BY <2>1, Appended DEF RedisOK
    <2> QED
      BY <2>2 DEF RedisOK
  <1>3. CallersOK'
    BY BoundsAssumption DEF CallersOK
  <1>4. SyncIsBounded' /\ SideHasSession'
    BY BoundsAssumption DEF SyncIsBounded, SideHasSession, sidecar
  <1> QED
    BY <1>1, <1>2, <1>3, <1>4

(* PushLands keeps the types. *)
LEMMA PushLandsType ==
    ASSUME TypeInv, NEW r \in Requests, PushLands(r)
    PROVE  TypeInv'
  <1> USE DEF TypeInv, TypeOK, PushLands, Enqueue
  <1>1. GatewaysOK' /\ SocketsOK' /\ SidecarOK' /\ HistoryOK'
    BY Kept
  <1>2. RedisOK'
    <2>1. Run(r) \in Message
      BY MessageKinds
    <2>2. queue' \in Seq(Message)
      BY <2>1, Appended DEF RedisOK
    <2> QED
      BY <2>2 DEF RedisOK
  <1>3. CallersOK'
    BY BoundsAssumption DEF CallersOK
  <1>4. SyncIsBounded' /\ SideHasSession'
    BY BoundsAssumption DEF SyncIsBounded, SideHasSession, sidecar
  <1> QED
    BY <1>1, <1>2, <1>3, <1>4

(* TakeResult keeps the types. *)
LEMMA TakeResultType ==
    ASSUME TypeInv, NEW r \in Requests, TakeResult(r)
    PROVE  TypeInv'
  <1> USE DEF TypeInv, TypeOK, TakeResult
  <1>1. RedisOK' /\ GatewaysOK' /\ SocketsOK' /\ SidecarOK' /\ HistoryOK'
    BY Kept
  <1>2. CallersOK'
    BY BoundsAssumption DEF CallersOK, RedisOK
  <1>3. SyncIsBounded' /\ SideHasSession'
    BY BoundsAssumption DEF SyncIsBounded, SideHasSession, sidecar
  <1> QED
    BY <1>1, <1>2, <1>3

(* GiveUp keeps the types. *)
LEMMA GiveUpType ==
    ASSUME TypeInv, NEW r \in Requests, GiveUp(r)
    PROVE  TypeInv'
  <1> USE DEF TypeInv, TypeOK, GiveUp
  <1>1. RedisOK' /\ GatewaysOK' /\ SocketsOK' /\ SidecarOK' /\ HistoryOK'
    BY Kept
  <1>2. CallersOK'
    BY BoundsAssumption DEF CallersOK
  <1>3. SyncIsBounded' /\ SideHasSession'
    BY BoundsAssumption DEF SyncIsBounded, SideHasSession, sidecar
  <1> QED
    BY <1>1, <1>2, <1>3

(* Withdraw keeps the types. *)
LEMMA WithdrawType ==
    ASSUME TypeInv, NEW r \in Requests, Once(queue, Run(r)), Withdraw(r)
    PROVE  TypeInv'
  <1> USE DEF TypeInv, TypeOK, Withdraw, Marked
  <1>1. GatewaysOK' /\ SocketsOK' /\ SidecarOK' /\ HistoryOK'
    BY Kept
  <1>2. RedisOK'
    <2>1. Run(r) \in Message
      BY MessageKinds
    <2>2. queue' \in Seq(Message)
      BY <2>1, Removed DEF RedisOK
    <2> QED
      BY <2>2 DEF RedisOK
  <1>3. CallersOK'
    BY BoundsAssumption DEF CallersOK
  <1>4. SyncIsBounded' /\ SideHasSession'
    BY BoundsAssumption DEF SyncIsBounded, SideHasSession, sidecar
  <1> QED
    BY <1>1, <1>2, <1>3, <1>4

(* PushCancel keeps the types. *)
LEMMA PushCancelType ==
    ASSUME TypeInv, NEW r \in Requests, PushCancel(r)
    PROVE  TypeInv'
  <1> USE DEF TypeInv, TypeOK, PushCancel, CancelQueued
  <1>1. GatewaysOK' /\ SocketsOK' /\ SidecarOK' /\ HistoryOK'
    BY Kept
  <1>2. RedisOK'
    <2>1. Cancel(r) \in Message
      BY MessageKinds
    <2>2. queue' \in Seq(Message)
      BY <2>1, Appended DEF RedisOK
    <2> QED
      BY <2>2 DEF RedisOK
  <1>3. CallersOK'
    BY BoundsAssumption DEF CallersOK
  <1>4. SyncIsBounded' /\ SideHasSession'
    BY BoundsAssumption DEF SyncIsBounded, SideHasSession, sidecar
  <1> QED
    BY <1>1, <1>2, <1>3, <1>4

(* Clear keeps the types. *)
LEMMA ClearType ==
    ASSUME TypeInv, NEW r \in Requests, Clear(r)
    PROVE  TypeInv'
  <1> USE DEF TypeInv, TypeOK, Clear, DropKeys, Untrack
  <1>1. GatewaysOK' /\ SocketsOK' /\ SidecarOK' /\ HistoryOK'
    BY Kept
  <1>2. RedisOK'
    BY BoundsAssumption DEF RedisOK
  <1>3. CallersOK'
    BY BoundsAssumption DEF CallersOK
  <1>4. SyncIsBounded' /\ SideHasSession'
    BY BoundsAssumption DEF SyncIsBounded, SideHasSession, sidecar
  <1> QED
    BY <1>1, <1>2, <1>3, <1>4

(* RedisFails keeps the types. *)
LEMMA RedisFailsType ==
    ASSUME TypeInv, NEW r \in Requests, RedisFails(r)
    PROVE  TypeInv'
  <1> USE DEF TypeInv, TypeOK, RedisFails
  <1>1. GatewaysOK' /\ SocketsOK' /\ SidecarOK'
    BY Kept
  <1>2. RedisOK'
    BY BoundsAssumption DEF RedisOK, DropKeys, Untrack
  <1>3. CallersOK'
    BY BoundsAssumption DEF CallersOK
  <1>4. SyncIsBounded' /\ SideHasSession'
    BY BoundsAssumption DEF SyncIsBounded, SideHasSession, sidecar
  <1>5. HistoryOK'
    BY BoundsAssumption DEF HistoryOK, Fault
  <1> QED
    BY <1>1, <1>2, <1>3, <1>4, <1>5

(* TakeRequest keeps the types. *)
LEMMA TakeRequestType ==
    ASSUME TypeInv, NEW s \in Sessions, TakeRequest(s)
    PROVE  TypeInv'
  <1> USE DEF TypeInv, TypeOK, TakeRequest
  <1>1. CallersOK' /\ SocketsOK' /\ SidecarOK'
    BY Kept
  <1>2. RedisOK'
    BY BoundsAssumption DEF RedisOK
  <1>3. GatewaysOK'
    <2>1. Head(queue) \in Message
      BY Taken DEF RedisOK
    <2>2. <<Head(queue), Head(queue).kind = "cancel">> \in Message \X BOOLEAN
      BY <2>1
    <2> QED
      BY <2>2 DEF GatewaysOK
  <1>4. HistoryOK'
    <2>1. Head(queue).req \in Requests
      BY Taken, MessageKinds DEF RedisOK
    <2> QED
      BY <2>1 DEF HistoryOK
  <1>5. SyncIsBounded' /\ SideHasSession'
    BY BoundsAssumption DEF SyncIsBounded, SideHasSession, sidecar
  <1> QED
    BY <1>1, <1>2, <1>3, <1>4, <1>5

(* CheckRequest keeps the types. *)
LEMMA CheckRequestType ==
    ASSUME TypeInv, NEW s \in Sessions, CheckRequest(s)
    PROVE  TypeInv'
  <1> USE DEF TypeInv, TypeOK, CheckRequest
  <1>1. RedisOK' /\ CallersOK' /\ SocketsOK' /\ SidecarOK' /\ HistoryOK'
    BY Kept
  <1>2. GatewaysOK'
    BY BoundsAssumption DEF GatewaysOK
  <1>3. SyncIsBounded' /\ SideHasSession'
    BY BoundsAssumption DEF SyncIsBounded, SideHasSession, sidecar
  <1> QED
    BY <1>1, <1>2, <1>3

(* Deliver keeps the types. *)
LEMMA DeliverType ==
    ASSUME TypeInv, NEW s \in Sessions, Deliver(s)
    PROVE  TypeInv'
  <1> USE DEF TypeInv, TypeOK, Deliver
  <1>1. RedisOK' /\ CallersOK' /\ SidecarOK' /\ HistoryOK'
    BY Kept
  <1>2. GatewaysOK'
    BY BoundsAssumption DEF GatewaysOK
  <1>3. SocketsOK'
    BY BoundsAssumption DEF GatewaysOK, SocketsOK
  <1>4. SyncIsBounded' /\ SideHasSession'
    BY BoundsAssumption DEF SyncIsBounded, SideHasSession, sidecar
  <1> QED
    BY <1>1, <1>2, <1>3, <1>4

(* DeliveryFails keeps the types. *)
LEMMA DeliveryFailsType ==
    ASSUME TypeInv, NEW s \in Sessions, DeliveryFails(s)
    PROVE  TypeInv'
  <1> USE DEF TypeInv, TypeOK, DeliveryFails, Publish, Untrack
  <1>1. CallersOK' /\ SocketsOK' /\ SidecarOK' /\ HistoryOK'
    BY Kept
  <1>2. RedisOK'
    <2>1. hand[s] \in Message \X BOOLEAN
      BY DEF GatewaysOK
    <2>2. hand[s][1].req \in Requests
      BY <2>1, MessageKinds
    <2>3. \/ UNCHANGED <<result, pending, owned>>
          \/ \E q \in Requests : Publish(q, "rejected") /\ Untrack(q)
      BY <2>2
    <2> HIDE DEF DeliveryFails
    <2>4. UNCHANGED <<record, stale, issued, queue, withdrawn>>
      BY DEF DeliveryFails
    <2> QED
      BY <2>3, <2>4 DEF RedisOK, Result
  <1>3. GatewaysOK'
    BY BoundsAssumption DEF GatewaysOK
  <1>4. SyncIsBounded' /\ SideHasSession'
    BY BoundsAssumption DEF SyncIsBounded, SideHasSession, sidecar
  <1> QED
    BY <1>1, <1>2, <1>3, <1>4

(* ReceiveResult keeps the types. *)
LEMMA ReceiveResultType ==
    ASSUME TypeInv, NEW s \in Sessions, ReceiveResult(s)
    PROVE  TypeInv'
  <1> USE DEF TypeInv, TypeOK, ReceiveResult, Publish, Untrack
  <1>1. CallersOK' /\ GatewaysOK' /\ SidecarOK' /\ HistoryOK'
    BY Kept
  <1>2. RedisOK'
    <2>1. PICK m \in up[s] :
            IF m[1] \in owned THEN Publish(m[1], m[2]) /\ Untrack(m[1])
            ELSE UNCHANGED <<result, pending, owned>>
      OBVIOUS
    <2>2. m[1] \in Requests /\ m[2] \in Result
      BY DEF SocketsOK
    <2>3. UNCHANGED <<record, stale, issued, queue, withdrawn>>
      OBVIOUS
    <2> HIDE DEF ReceiveResult
    <2> QED
      BY <2>1, <2>2, <2>3 DEF RedisOK
  <1>3. SocketsOK'
    BY BoundsAssumption DEF SocketsOK
  <1>4. SyncIsBounded' /\ SideHasSession'
    BY BoundsAssumption DEF SyncIsBounded, SideHasSession, sidecar
  <1> QED
    BY <1>1, <1>2, <1>3, <1>4

(* ReadHeartbeat keeps the types. *)
LEMMA ReadHeartbeatType ==
    ASSUME TypeInv, NEW s \in Sessions, ReadHeartbeat(s)
    PROVE  TypeInv'
  <1> USE DEF TypeInv, TypeOK, ReadHeartbeat
  <1>1. RedisOK' /\ CallersOK' /\ SocketsOK' /\ SidecarOK' /\ HistoryOK'
    BY Kept
  <1>2. GatewaysOK'
    BY BoundsAssumption DEF GatewaysOK, RedisOK
  <1>3. SyncIsBounded' /\ SideHasSession'
    BY BoundsAssumption DEF SyncIsBounded, SideHasSession, sidecar
  <1> QED
    BY <1>1, <1>2, <1>3

(* WriteHeartbeat keeps the types. *)
LEMMA WriteHeartbeatType ==
    ASSUME TypeInv, NEW s \in Sessions, WriteHeartbeat(s)
    PROVE  TypeInv'
  <1> USE DEF TypeInv, TypeOK, WriteHeartbeat
  <1>1. CallersOK' /\ SocketsOK' /\ SidecarOK' /\ HistoryOK'
    BY Kept
  <1>2. RedisOK'
    BY BoundsAssumption DEF GatewaysOK, RedisOK
  <1>3. GatewaysOK'
    BY BoundsAssumption DEF GatewaysOK, Record, NoRecord
  <1>4. SyncIsBounded' /\ SideHasSession'
    BY BoundsAssumption DEF SyncIsBounded, SideHasSession, sidecar
  <1> QED
    BY <1>1, <1>2, <1>3, <1>4

(* CloseGateway keeps the types. *)
LEMMA CloseGatewayType ==
    ASSUME TypeInv, NEW s \in Sessions, CloseGateway(s)
    PROVE  TypeInv'
  <1> USE DEF TypeInv, TypeOK, CloseGateway
  <1>1. RedisOK' /\ CallersOK' /\ SidecarOK' /\ HistoryOK'
    BY Kept
  <1>2. GatewaysOK'
    BY BoundsAssumption DEF GatewaysOK, RedisOK
  <1>3. SocketsOK'
    BY BoundsAssumption DEF SocketsOK
  <1>4. SyncIsBounded' /\ SideHasSession'
    BY BoundsAssumption DEF SyncIsBounded, SideHasSession, sidecar
  <1> QED
    BY <1>1, <1>2, <1>3, <1>4

(* CrashGateway keeps the types. *)
LEMMA CrashGatewayType ==
    ASSUME TypeInv, NEW s \in Sessions, CrashGateway(s)
    PROVE  TypeInv'
  <1> USE DEF TypeInv, TypeOK, CrashGateway, Fault
  <1>1. RedisOK' /\ CallersOK' /\ SidecarOK'
    BY Kept
  <1>2. GatewaysOK'
    BY BoundsAssumption DEF GatewaysOK, Record, NoRecord
  <1>3. SocketsOK'
    BY BoundsAssumption DEF SocketsOK
  <1>4. HistoryOK'
    BY BoundsAssumption DEF HistoryOK
  <1>5. SyncIsBounded' /\ SideHasSession'
    BY BoundsAssumption DEF SyncIsBounded, SideHasSession, sidecar
  <1> QED
    BY <1>1, <1>2, <1>3, <1>4, <1>5

(* FailRequest keeps the types. *)
LEMMA FailRequestType ==
    ASSUME TypeInv, NEW c \in Cleaners, NEW r \in Requests, FailRequest(c, r)
    PROVE  TypeInv'
  <1> USE DEF TypeInv, TypeOK, FailRequest, Publish, Untrack, DisconnectResult
  <1>1. CallersOK' /\ SocketsOK' /\ SidecarOK' /\ HistoryOK'
    BY Kept
  <1>2. RedisOK'
    BY BoundsAssumption DEF RedisOK, Result
  <1>3. GatewaysOK'
    BY BoundsAssumption DEF GatewaysOK
  <1>4. SyncIsBounded' /\ SideHasSession'
    BY BoundsAssumption DEF SyncIsBounded, SideHasSession, sidecar
  <1> QED
    BY <1>1, <1>2, <1>3, <1>4

(* DropPending keeps the types. *)
LEMMA DropPendingType ==
    ASSUME TypeInv, NEW c \in Cleaners, DropPending(c)
    PROVE  TypeInv'
  <1> USE DEF TypeInv, TypeOK, DropPending
  <1>1. CallersOK' /\ SocketsOK' /\ SidecarOK' /\ HistoryOK'
    BY Kept
  <1>2. RedisOK'
    BY BoundsAssumption DEF RedisOK
  <1>3. GatewaysOK'
    BY BoundsAssumption DEF GatewaysOK
  <1>4. SyncIsBounded' /\ SideHasSession'
    BY BoundsAssumption DEF SyncIsBounded, SideHasSession, sidecar
  <1> QED
    BY <1>1, <1>2, <1>3, <1>4

(* DeleteSession keeps the types. *)
LEMMA DeleteSessionType ==
    ASSUME TypeInv, NEW c \in Cleaners, DeleteSession(c)
    PROVE  TypeInv'
  <1> USE DEF TypeInv, TypeOK, DeleteSession
  <1>1. CallersOK' /\ SocketsOK' /\ SidecarOK'
    BY Kept
  <1>2. RedisOK'
    <2>1. NoRecord \in Record /\ <<>> \in Seq(Message)
      BY BoundsAssumption, EmptySeq DEF NoRecord, Record
    <2>2. /\ record' = NoRecord /\ stale' = FALSE /\ issued' = NoSession /\ queue' = <<>>
          /\ owned' = owned \ pending /\ pending' = {} /\ UNCHANGED <<withdrawn, result>>
      OBVIOUS
    <2> HIDE DEF DeleteSession
    <2> QED
      BY <2>1, <2>2 DEF RedisOK
  <1>3. GatewaysOK'
    BY BoundsAssumption DEF GatewaysOK
  <1>4. HistoryOK'
    BY BoundsAssumption DEF HistoryOK
  <1>5. SyncIsBounded' /\ SideHasSession'
    BY BoundsAssumption DEF SyncIsBounded, SideHasSession, sidecar
  <1> QED
    BY <1>1, <1>2, <1>3, <1>4, <1>5

(* Expire keeps the types. *)
LEMMA ExpireType ==
    ASSUME TypeInv, Expire
    PROVE  TypeInv'
  <1> USE DEF TypeInv, TypeOK, Expire
  <1>1. RedisOK' /\ CallersOK' /\ SocketsOK' /\ SidecarOK' /\ HistoryOK'
    BY Kept
  <1>2. GatewaysOK'
    BY BoundsAssumption DEF GatewaysOK, RedisOK
  <1>3. SyncIsBounded' /\ SideHasSession'
    BY BoundsAssumption DEF SyncIsBounded, SideHasSession, sidecar
  <1> QED
    BY <1>1, <1>2, <1>3

(* GoStale keeps the types. *)
LEMMA GoStaleType ==
    ASSUME TypeInv, GoStale
    PROVE  TypeInv'
  <1> USE DEF TypeInv, TypeOK, GoStale, Fault
  <1>1. CallersOK' /\ GatewaysOK' /\ SocketsOK' /\ SidecarOK'
    BY Kept
  <1>2. RedisOK'
    BY BoundsAssumption DEF RedisOK
  <1>3. HistoryOK'
    BY BoundsAssumption DEF HistoryOK
  <1>4. SyncIsBounded' /\ SideHasSession'
    BY BoundsAssumption DEF SyncIsBounded, SideHasSession, sidecar
  <1> QED
    BY <1>1, <1>2, <1>3, <1>4

(* Register keeps the types. *)
LEMMA RegisterType ==
    ASSUME TypeInv, Register
    PROVE  TypeInv'
  <1> USE DEF TypeInv, TypeOK, Register
  <1>1. CallersOK' /\ GatewaysOK' /\ SocketsOK' /\ HistoryOK'
    BY Kept
  <1>2. RedisOK'
    BY BoundsAssumption DEF RedisOK, SidecarOK, Sessions, NoSession
  <1>3. SidecarOK'
    BY BoundsAssumption DEF SidecarOK, Sessions, NoSession
  <1>4. SyncIsBounded' /\ SideHasSession'
    BY BoundsAssumption DEF SyncIsBounded, SideHasSession, Sessions, NoSession, SidecarOK
  <1> QED
    BY <1>1, <1>2, <1>3, <1>4

(* Connect keeps the types. *)
LEMMA ConnectType ==
    ASSUME TypeInv, Connect
    PROVE  TypeInv'
  <1> USE DEF TypeInv, TypeOK, Connect
  <1>1. CallersOK' /\ HistoryOK'
    BY Kept
  <1>2. RedisOK'
    <2>1. [sid |-> session, version |-> 0] \in Record
      BY BoundsAssumption DEF Record, SidecarOK
    <2> QED
      BY <2>1 DEF RedisOK
  <1>3. GatewaysOK'
    BY BoundsAssumption DEF GatewaysOK
  <1>4. SocketsOK'
    BY BoundsAssumption DEF SocketsOK
  <1>5. SidecarOK'
    BY BoundsAssumption DEF SidecarOK
  <1>6. SyncIsBounded' /\ SideHasSession'
    BY BoundsAssumption DEF SyncIsBounded, SideHasSession
  <1> QED
    BY <1>1, <1>2, <1>3, <1>4, <1>5, <1>6

(* AskSync keeps the types. *)
LEMMA AskSyncType ==
    ASSUME TypeInv, AskSync
    PROVE  TypeInv'
  <1> USE DEF TypeInv, TypeOK, AskSync
  <1>1. RedisOK' /\ CallersOK' /\ GatewaysOK' /\ SocketsOK' /\ HistoryOK'
    BY Kept
  <1>2. SidecarOK'
    BY BoundsAssumption DEF SidecarOK
  <1>3. SyncIsBounded' /\ SideHasSession'
    BY BoundsAssumption DEF SyncIsBounded, SideHasSession
  <1> QED
    BY <1>1, <1>2, <1>3

(* AskRefresh keeps the types. *)
LEMMA AskRefreshType ==
    ASSUME TypeInv, AskRefresh
    PROVE  TypeInv'
  <1> USE DEF TypeInv, TypeOK, AskRefresh
  <1>1. RedisOK' /\ CallersOK' /\ GatewaysOK' /\ SocketsOK' /\ HistoryOK'
    BY Kept
  <1>2. SidecarOK'
    BY BoundsAssumption DEF SidecarOK
  <1>3. SyncIsBounded' /\ SideHasSession'
    BY BoundsAssumption DEF SyncIsBounded, SideHasSession
  <1> QED
    BY <1>1, <1>2, <1>3

(* ReadSync keeps the types. *)
LEMMA ReadSyncType ==
    ASSUME TypeInv, ReadSync
    PROVE  TypeInv'
  <1> USE DEF TypeInv, TypeOK, ReadSync
  <1>1. RedisOK' /\ CallersOK' /\ GatewaysOK' /\ SocketsOK' /\ HistoryOK'
    BY Kept
  <1>2. SidecarOK'
    BY BoundsAssumption DEF RedisOK, SidecarOK
  <1>3. SyncIsBounded' /\ SideHasSession'
    BY BoundsAssumption DEF SyncIsBounded, SideHasSession
  <1> QED
    BY <1>1, <1>2, <1>3

(* WriteSync keeps the types. *)
LEMMA WriteSyncType ==
    ASSUME TypeInv, WriteSync
    PROVE  TypeInv'
  <1> USE DEF TypeInv, TypeOK, WriteSync
  <1>1. CallersOK' /\ GatewaysOK' /\ SocketsOK' /\ HistoryOK'
    BY Kept
  <1>2. RedisOK'
    <2>1. fetched \in Record /\ fetched.version < MaxVersion
      BY DEF SidecarOK, SyncIsBounded
    <2>2. [fetched EXCEPT !.version = @ + 1] \in Record
      BY <2>1, BoundsAssumption DEF Record
    <2> QED
      BY <2>2 DEF RedisOK
  <1>3. SidecarOK'
    BY BoundsAssumption DEF SidecarOK, Record, NoRecord
  <1>4. SyncIsBounded' /\ SideHasSession'
    BY BoundsAssumption DEF SyncIsBounded, SideHasSession
  <1> QED
    BY <1>1, <1>2, <1>3, <1>4

(* Mirror keeps the types. *)
LEMMA MirrorType ==
    ASSUME TypeInv, Mirror
    PROVE  TypeInv'
  <1> USE DEF TypeInv, TypeOK, Mirror
  <1>1. RedisOK' /\ CallersOK' /\ GatewaysOK' /\ SocketsOK' /\ HistoryOK'
    BY Kept
  <1>2. SidecarOK'
    BY BoundsAssumption DEF SidecarOK, SyncIsBounded
  <1>3. SyncIsBounded' /\ SideHasSession'
    BY BoundsAssumption DEF SyncIsBounded, SideHasSession
  <1> QED
    BY <1>1, <1>2, <1>3

(* SyncFails keeps the types. *)
LEMMA SyncFailsType ==
    ASSUME TypeInv, SyncFails
    PROVE  TypeInv'
  <1> USE DEF TypeInv, TypeOK, SyncFails, Fault
  <1>1. RedisOK' /\ CallersOK' /\ GatewaysOK'
    BY Kept
  <1>2. SocketsOK'
    <2>1. <<>> \in Seq(Message)
      BY EmptySeq
    <2> QED
      BY <2>1 DEF SocketsOK
  <1>3. SidecarOK'
    BY BoundsAssumption DEF SidecarOK, Record, NoRecord
  <1>4. HistoryOK'
    BY BoundsAssumption DEF HistoryOK, history
  <1>5. SyncIsBounded' /\ SideHasSession'
    BY BoundsAssumption DEF SyncIsBounded, SideHasSession
  <1> QED
    BY <1>1, <1>2, <1>3, <1>4, <1>5

(* ReceiveRequest keeps the types. *)
LEMMA ReceiveRequestType ==
    ASSUME TypeInv, ReceiveRequest
    PROVE  TypeInv'
  <1> USE DEF TypeInv, TypeOK, ReceiveRequest
  <1>1. /\ session \in Sessions /\ down[session] \in Seq(Message)
        /\ Tail(down[session]) \in Seq(Message)
        /\ Head(down[session]) \in Message /\ Head(down[session]).req \in Requests
    <2>1. session \in Sessions /\ down[session] \in Seq(Message)
      BY DEF SideHasSession, SocketsOK
    <2> QED
      BY <2>1, Taken, MessageKinds
  <1>2. RedisOK' /\ CallersOK' /\ GatewaysOK'
    BY Kept
  <1>3. SocketsOK'
    <2>1. PICK q \in Requests : q = Head(down[session]).req
      BY <1>1
    <2>2. <<q, "rejected">> \in Requests \X Result
      BY DEF Result
    <2>3. \/ up' = up
          \/ up' = [up EXCEPT ![session] =
                      IF link[session] = "up" THEN @ \union {<<q, "rejected">>} ELSE @]
      BY <2>1
    <2>4. up' \in [Sessions -> SUBSET (Requests \X Result)]
      <3> HIDE DEF ReceiveRequest
      <3> QED
        BY <2>2, <2>3 DEF SocketsOK
    <2>5. down' \in [Sessions -> Seq(Message)] /\ link' = link
      BY <1>1 DEF SocketsOK
    <2> QED
      BY <2>4, <2>5 DEF SocketsOK
  <1>4. SidecarOK'
    BY <1>1 DEF SidecarOK
  <1>5. HistoryOK'
    BY <1>1 DEF HistoryOK
  <1>6. SyncIsBounded' /\ SideHasSession'
    BY BoundsAssumption DEF SyncIsBounded, SideHasSession
  <1> QED
    BY <1>2, <1>3, <1>4, <1>5, <1>6

(* ReceiveCancel keeps the types. *)
LEMMA ReceiveCancelType ==
    ASSUME TypeInv, ReceiveCancel
    PROVE  TypeInv'
  <1> USE DEF TypeInv, TypeOK, ReceiveCancel
  <1>1. /\ session \in Sessions /\ down[session] \in Seq(Message)
        /\ Tail(down[session]) \in Seq(Message)
        /\ Head(down[session]) \in Message /\ Head(down[session]).req \in Requests
    <2>1. session \in Sessions /\ down[session] \in Seq(Message)
      BY DEF SideHasSession, SocketsOK
    <2> QED
      BY <2>1, Taken, MessageKinds
  <1>2. RedisOK' /\ CallersOK' /\ GatewaysOK' /\ HistoryOK'
    BY Kept
  <1>3. SocketsOK'
    BY <1>1 DEF SocketsOK
  <1>4. SidecarOK'
    BY BoundsAssumption DEF SidecarOK
  <1>5. SyncIsBounded' /\ SideHasSession'
    BY BoundsAssumption DEF SyncIsBounded, SideHasSession
  <1> QED
    BY <1>2, <1>3, <1>4, <1>5

(* Finish keeps the types. *)
LEMMA FinishType ==
    ASSUME TypeInv, NEW r \in Requests, Finish(r)
    PROVE  TypeInv'
  <1> USE DEF TypeInv, TypeOK, Finish
  <1>1. RedisOK' /\ CallersOK' /\ GatewaysOK' /\ HistoryOK'
    BY Kept
  <1>2. SocketsOK'
    <2>1. PICK res \in {"ran", "maybe"} :
            up' = [up EXCEPT ![session] =
                     IF link[session] = "up" THEN @ \union {<<r, res>>} ELSE @]
      OBVIOUS
    <2>2. <<r, res>> \in Requests \X Result
      BY DEF Result
    <2> QED
      BY <2>1, <2>2 DEF SocketsOK
  <1>3. SidecarOK'
    BY BoundsAssumption DEF SidecarOK
  <1>4. SyncIsBounded' /\ SideHasSession'
    BY BoundsAssumption DEF SyncIsBounded, SideHasSession
  <1> QED
    BY <1>1, <1>2, <1>3, <1>4

(* Disconnect keeps the types. *)
LEMMA DisconnectType ==
    ASSUME TypeInv, Disconnect
    PROVE  TypeInv'
  <1> USE DEF TypeInv, TypeOK, Disconnect
  <1>1. RedisOK' /\ CallersOK' /\ GatewaysOK' /\ HistoryOK'
    BY Kept
  <1>2. SocketsOK'
    <2>1. <<>> \in Seq(Message)
      BY EmptySeq
    <2> QED
      BY <2>1 DEF SocketsOK
  <1>3. SidecarOK'
    BY BoundsAssumption DEF SidecarOK
  <1>4. SyncIsBounded' /\ SideHasSession'
    BY BoundsAssumption DEF SyncIsBounded, SideHasSession
  <1> QED
    BY <1>1, <1>2, <1>3, <1>4

(* Break keeps the types. *)
LEMMA BreakType ==
    ASSUME TypeInv, NEW s \in Sessions, Break(s)
    PROVE  TypeInv'
  <1> USE DEF TypeInv, TypeOK, Break, Fault
  <1>1. RedisOK' /\ CallersOK' /\ GatewaysOK' /\ SidecarOK'
    BY Kept
  <1>2. SocketsOK'
    BY BoundsAssumption DEF SocketsOK
  <1>3. HistoryOK'
    BY BoundsAssumption DEF HistoryOK
  <1>4. SyncIsBounded' /\ SideHasSession'
    BY BoundsAssumption DEF SyncIsBounded, SideHasSession, sidecar
  <1> QED
    BY <1>1, <1>2, <1>3, <1>4

-----------------------------------------------------------------------------
(* Sessions, gateways and sockets.                                          *)

sessionVars == <<gate, link, hand, down, side, session, running>>

(* A step that touches none of them. *)
LEMMA SessionKept == SessionInv /\ UNCHANGED sessionVars => SessionInv'
  BY DEF SessionInv, Untouched, sessionVars

(* TakeRequest keeps SessionInv. *)
LEMMA TakeRequestSession ==
    ASSUME TypeInv, SessionInv, NEW s \in Sessions, TakeRequest(s)
    PROVE  SessionInv'
  BY DEF SessionInv, Untouched, TakeRequest, sockets, sidecar

(* CheckRequest keeps SessionInv. *)
LEMMA CheckRequestSession ==
    ASSUME TypeInv, SessionInv, NEW s \in Sessions, CheckRequest(s)
    PROVE  SessionInv'
  BY DEF SessionInv, Untouched, CheckRequest, sockets, sidecar, Empty

(* Deliver keeps SessionInv. *)
LEMMA DeliverSession ==
    ASSUME TypeInv, SessionInv, NEW s \in Sessions, Deliver(s)
    PROVE  SessionInv'
  BY DEF SessionInv, Untouched, Deliver, sidecar

(* DeliveryFails keeps SessionInv. *)
LEMMA DeliveryFailsSession ==
    ASSUME TypeInv, SessionInv, NEW s \in Sessions, DeliveryFails(s)
    PROVE  SessionInv'
  BY DEF SessionInv, Untouched, DeliveryFails, sockets, sidecar

(* CloseGateway keeps SessionInv. *)
LEMMA CloseGatewaySession ==
    ASSUME TypeInv, SessionInv, NEW s \in Sessions, CloseGateway(s)
    PROVE  SessionInv'
  BY DEF TypeInv, TypeOK, GatewaysOK, SessionInv, Untouched, CloseGateway, sidecar

(* CrashGateway keeps SessionInv. *)
LEMMA CrashGatewaySession ==
    ASSUME TypeInv, SessionInv, NEW s \in Sessions, CrashGateway(s)
    PROVE  SessionInv'
  BY DEF TypeInv, TypeOK, GatewaysOK, SessionInv, Untouched, CrashGateway, sidecar

(* Register keeps SessionInv. *)
LEMMA RegisterSession ==
    ASSUME TypeInv, SessionInv, Register
    PROVE  SessionInv'
  <1> USE DEF Register
  <1>1. session' = session + 1 /\ session' \in Sessions /\ session \in Nat
    BY BoundsAssumption DEF TypeInv, TypeOK, SidecarOK, Sessions, NoSession
  <1>2. \A s \in Sessions : s > session <=> s = session' \/ s > session'
    BY <1>1 DEF Sessions
  <1>3. \A s \in Sessions : Untouched(s)' <=> Untouched(s)
    BY DEF Untouched, gateways, sockets
  <1>4. side' = "registered" /\ running = {} /\ running' = {}
    BY DEF SessionInv
  <1>5. \A s \in Sessions : gate'[s] = gate[s] /\ link'[s] = link[s] /\ hand'[s] = hand[s]
    BY DEF gateways, sockets
  <1> HIDE DEF Register
  <1> QED
    BY <1>1, <1>2, <1>3, <1>4, <1>5 DEF SessionInv

(* Connect keeps SessionInv. *)
LEMMA ConnectSession ==
    ASSUME TypeInv, SessionInv, Connect
    PROVE  SessionInv'
  <1> USE DEF Connect
  <1>1. session \in Sessions /\ session' = session /\ Untouched(session)
    BY DEF TypeInv, SideHasSession, SessionInv
  <1>2. running = {} /\ running' = {} /\ UNCHANGED <<hand, down>>
    BY DEF SessionInv
  <1>3. CASE UNCHANGED <<gate, link>> /\ side' = "off"
    BY <1>1, <1>2, <1>3 DEF SessionInv, Untouched
  <1>4. CASE /\ gate' = [gate EXCEPT ![session] = "open"]
             /\ link' = [link EXCEPT ![session] = "up"]
             /\ side' = "connected"
    <2>1. /\ gate'[session] = "open" /\ link'[session] = "up"
          /\ \A s \in Sessions : s # session => gate'[s] = gate[s] /\ link'[s] = link[s]
      BY <1>1, <1>4 DEF TypeInv, TypeOK, GatewaysOK, SocketsOK
    <2>2. \A s \in Sessions : s > session => s # session
      BY DEF Sessions
    <2> HIDE DEF Connect
    <2> QED
      BY <1>1, <1>2, <1>4, <2>1, <2>2 DEF SessionInv, Untouched
  <1> QED
    BY <1>3, <1>4

(* AskSync keeps SessionInv. *)
LEMMA AskSyncSession ==
    ASSUME TypeInv, SessionInv, AskSync
    PROVE  SessionInv'
  BY DEF SessionInv, Untouched, AskSync, gateways, sockets

(* Mirror keeps SessionInv. *)
LEMMA MirrorSession ==
    ASSUME TypeInv, SessionInv, Mirror
    PROVE  SessionInv'
  BY DEF SessionInv, Untouched, Mirror, gateways, sockets

(* SyncFails keeps SessionInv. *)
LEMMA SyncFailsSession ==
    ASSUME TypeInv, SessionInv, SyncFails
    PROVE  SessionInv'
  BY DEF TypeInv, TypeOK, SocketsOK, SessionInv, Untouched, SyncFails, gateways

(* ReceiveRequest keeps SessionInv. *)
LEMMA ReceiveRequestSession ==
    ASSUME TypeInv, SessionInv, ReceiveRequest
    PROVE  SessionInv'
  BY DEF SessionInv, Untouched, ReceiveRequest, gateways

(* ReceiveCancel keeps SessionInv. *)
LEMMA ReceiveCancelSession ==
    ASSUME TypeInv, SessionInv, ReceiveCancel
    PROVE  SessionInv'
  BY DEF SessionInv, Untouched, ReceiveCancel, gateways

(* Finish keeps SessionInv. *)
LEMMA FinishSession ==
    ASSUME TypeInv, SessionInv, NEW r \in Requests, Finish(r)
    PROVE  SessionInv'
  BY DEF SessionInv, Untouched, Finish, gateways

(* Disconnect keeps SessionInv. *)
LEMMA DisconnectSession ==
    ASSUME TypeInv, SessionInv, Disconnect
    PROVE  SessionInv'
  BY DEF SessionInv, Untouched, Disconnect, gateways

(* Break keeps SessionInv. *)
LEMMA BreakSession ==
    ASSUME TypeInv, SessionInv, NEW s \in Sessions, Break(s)
    PROVE  SessionInv'
  BY DEF SessionInv, Untouched, Break, gateways, sidecar

-----------------------------------------------------------------------------
(* One copy of each request.                                                *)

Unsent == {"idle", "bound", "pushing"}

CopyOK(r) == OneCopy(r) /\ NotSent(r) /\ Spent(r)

(* A step after which request r is in no place it was not in before. *)
Fewer(r) ==
    /\ Once(queue', Run(r))
    /\ \A s \in Sessions : Once(down'[s], Run(r))
    /\ r \in wire' => r \in wire
    /\ InQueue(r)' => InQueue(r)
    /\ \A s \in Sessions : InHand(s, r)' => InHand(s, r)
    /\ \A s \in Sessions : InDown(s, r)' => InDown(s, r)

(* A step that neither sends, refuses nor starts r, and says nothing new    *)
(* about it.                                                                *)
Quiet(r) ==
    /\ dispatch'[r] \in Unsent => dispatch[r] \in Unsent
    /\ answer'[r] = "refused" => answer[r] = "refused" /\ dispatch'[r] = dispatch[r]
    /\ r \in started' <=> r \in started
    /\ Says(r, "rejected")' => Says(r, "rejected")
    /\ Says(r, "ran")' => Says(r, "ran") \/ (r \in started /\ r \notin running')
    /\ r \in running' => r \in running /\ bound'[r] = bound[r] /\ session' = session

placeVars == <<queue, wire, hand, down>>
voiceVars == <<dispatch, bound, answer, result, up, started, running, session>>

(* A step that moves no message ... *)
LEMMA PlacesKept ==
    ASSUME NEW r \in Requests, OneCopy(r), UNCHANGED placeVars
    PROVE  Fewer(r)
  BY DEF placeVars, Fewer, OneCopy, InQueue, InHand, InDown

(* ... and one that says nothing. *)
LEMMA VoicesKept ==
    ASSUME NEW r \in Requests, UNCHANGED voiceVars
    PROVE  Quiet(r)
  BY DEF voiceVars, Quiet, Says

(* Fewer places for it: it is still in one at most. *)
LEMMA FewerCopies ==
    ASSUME NEW r \in Requests, OneCopy(r), Fewer(r)
    PROVE  OneCopy(r)' /\ (Nowhere(r) => Nowhere(r)')
  BY DEF OneCopy, Fewer, Nowhere, Carries

(* A step that moves and says nothing new keeps what CopyInv says of r. *)
LEMMA QuietKeeps ==
    ASSUME NEW r \in Requests, CopyOK(r), Fewer(r), Quiet(r)
    PROVE  CopyOK(r)'
  <1> USE DEF CopyOK
  <1>1. OneCopy(r)' /\ (Nowhere(r) => Nowhere(r)')
    BY FewerCopies
  <1>2. NotSent(r)'
    BY <1>1 DEF NotSent, Quiet, Unsent
  <1>3. Spent(r)'
    BY <1>1 DEF Spent, Quiet
  <1> QED
    BY <1>1, <1>2, <1>3

(* The type of what is in a gateway's hand. *)
LEMMA HandTyped ==
    ASSUME TypeInv, NEW s \in Sessions, hand[s] # Empty
    PROVE  /\ hand[s] \in Message \X BOOLEAN /\ hand[s][1] \in Message
           /\ hand[s][1].req \in Requests
           /\ hand[s] = <<hand[s][1], hand[s][2]>> /\ hand[s][2] \in BOOLEAN
  <1>1. hand[s] \in Message \X BOOLEAN
    BY DEF TypeInv, TypeOK, GatewaysOK
  <1> QED
    BY <1>1, MessageKinds

(* A pair is not the empty hand. *)
LEMMA PairNotEmpty == \A m, b : <<m, b>> # Empty
  BY DEF Empty

(* The parts of a pair. *)
LEMMA PairParts ==
    /\ \A m, b : <<m, b>>[1] = m /\ <<m, b>>[2] = b
    /\ \A m, n, a, b : <<m, a>> = <<n, b>> => m = n /\ a = b
  OBVIOUS

(* Bind: a request that runs has been sent, so it is not this one. *)
LEMMA BindCopies ==
    ASSUME TypeInv, NEW q \in Requests, Bind(q), NEW r \in Requests, CopyOK(r)
    PROVE  CopyOK(r)'
  <1>1. Fewer(r)
    <2>1. UNCHANGED placeVars
      BY DEF Bind, placeVars, redis, gateways, sockets
    <2> QED
      BY <2>1, PlacesKept DEF CopyOK
  <1>2. r \in running => r # q
    BY DEF CopyOK, Spent, NotSent, Bind
  <1>3. UNCHANGED <<answer, result, up, started, running, session>>
    BY DEF Bind, redis, sockets, sidecar, history
  <1>4. /\ r = q => dispatch[r] = "idle"
        /\ r # q => dispatch'[r] = dispatch[r] /\ bound'[r] = bound[r]
    BY DEF Bind, TypeInv, TypeOK, CallersOK
  <1>5. answer[r] = "refused" => dispatch[r] = "over"
    BY DEF CopyOK, NotSent
  <1>6. Quiet(r)
    BY <1>2, <1>3, <1>4, <1>5 DEF Quiet, Says, Unsent
  <1> QED
    BY <1>1, <1>6, QuietKeeps

(* Dispatch: what it refuses was never sent. *)
LEMMA DispatchCopies ==
    ASSUME TypeInv, NEW q \in Requests, Dispatch(q), NEW r \in Requests, CopyOK(r)
    PROVE  CopyOK(r)'
  <1>1. Fewer(r)
    <2>1. UNCHANGED placeVars
      BY DEF Dispatch, placeVars, redis, gateways, sockets
    <2> QED
      BY <2>1, PlacesKept DEF CopyOK
  <1>2. UNCHANGED <<result, up, started, running, bound, session>>
    BY DEF Dispatch, redis, sockets, sidecar, history
  <1>3. CASE /\ q = r
             /\ answer' = [answer EXCEPT ![q] = "refused"]
             /\ dispatch' = [dispatch EXCEPT ![q] = "over"]
    <2>1. answer'[r] = "refused" /\ dispatch'[r] = "over" /\ dispatch[r] = "bound"
      BY <1>3 DEF Dispatch, TypeInv, TypeOK, CallersOK
    <2>2. Nowhere(r) /\ r \notin started /\ ~Says(r, "rejected")
      BY <2>1 DEF CopyOK, NotSent
    <2>3. OneCopy(r)' /\ Nowhere(r)'
      BY <1>1, <2>2, FewerCopies DEF CopyOK
    <2>4. NotSent(r)'
      BY <1>2, <2>1, <2>2, <2>3 DEF NotSent
    <2>5. ~Says(r, "rejected")' /\ (Says(r, "ran")' => Says(r, "ran"))
      BY <1>2, <2>1, <2>2 DEF Says
    <2>6. Spent(r)'
      BY <1>2, <2>2, <2>3, <2>5 DEF CopyOK, Spent
    <2> QED
      BY <2>3, <2>4, <2>6 DEF CopyOK
  <1>4. CASE q # r \/ (answer' = answer /\ dispatch' = [dispatch EXCEPT ![q] = "pushing"])
    <2>1. answer'[r] = answer[r] /\ (dispatch'[r] = dispatch[r] \/ dispatch'[r] = "pushing")
      BY <1>4 DEF Dispatch, TypeInv, TypeOK, CallersOK
    <2>2. dispatch'[r] # dispatch[r] => dispatch[r] = "bound"
      BY <1>4 DEF Dispatch, TypeInv, TypeOK, CallersOK
    <2>3. answer[r] = "refused" => dispatch[r] = "over"
      BY DEF CopyOK, NotSent
    <2>4. Quiet(r)
      BY <1>2, <2>1, <2>2, <2>3 DEF Quiet, Says, Unsent
    <2> QED
      BY <1>1, <2>4, QuietKeeps
  <1> QED
    BY <1>3, <1>4 DEF Dispatch

(* Enqueue: the queue holds what it held, and the pushed request. *)
LEMMA Enqueued ==
    ASSUME TypeInv, NEW q \in Requests, Enqueue(q), NEW r \in Requests, OneCopy(r),
           UNCHANGED <<hand, down>>, r = q => ~InQueue(r)
    PROVE  /\ Once(queue', Run(r))
           /\ InQueue(r)' <=> InQueue(r) \/ r = q
           /\ \A s \in Sessions : Once(down'[s], Run(r))
           /\ \A s \in Sessions : InHand(s, r)' = InHand(s, r) /\ InDown(s, r)' = InDown(s, r)
  <1>1. queue \in Seq(Message) /\ Run(q) \in Message
    BY MessageKinds DEF TypeInv, TypeOK, RedisOK
  <1>2. /\ ToSet(queue') = ToSet(queue) \union {Run(q)}
        /\ Run(r) # Run(q) => Once(queue', Run(r))
        /\ Run(q) \notin ToSet(queue) => Once(queue', Run(q))
    BY <1>1, Appended DEF Enqueue, OneCopy
  <1>3. r # q => Run(r) # Run(q)
    BY MessageKinds
  <1> QED
    BY <1>2, <1>3 DEF InQueue, InHand, InDown, OneCopy

(* Push: the first and only copy. *)
LEMMA PushCopies ==
    ASSUME TypeInv, NEW q \in Requests, Push(q), NEW r \in Requests, CopyOK(r)
    PROVE  CopyOK(r)'
  <1>1. UNCHANGED <<hand, down, wire, up, started, running, bound, session, answer, result>>
    BY DEF Push, Enqueue, gateways, sockets, sidecar, history
  <1>2. /\ dispatch[q] = "pushing" /\ dispatch'[q] = "waiting"
        /\ r # q => dispatch'[r] = dispatch[r]
    BY DEF Push, TypeInv, TypeOK, CallersOK
  <1>3. r = q => Nowhere(r) /\ r \notin started /\ ~Says(r, "rejected") /\ answer[r] # "refused"
    BY <1>2 DEF CopyOK, NotSent
  <1>4. /\ Once(queue', Run(r))
        /\ InQueue(r)' <=> InQueue(r) \/ r = q
        /\ \A s \in Sessions : Once(down'[s], Run(r))
        /\ \A s \in Sessions : InHand(s, r)' = InHand(s, r) /\ InDown(s, r)' = InDown(s, r)
    BY <1>1, <1>3, Enqueued DEF Push, CopyOK, Nowhere
  <1>5. CASE r # q
    <2>1. Fewer(r)
      BY <1>1, <1>4, <1>5 DEF Fewer
    <2>2. Quiet(r)
      BY <1>1, <1>2, <1>5 DEF Quiet, Says
    <2> QED
      BY <2>1, <2>2, QuietKeeps
  <1>6. CASE r = q
    <2>1. OneCopy(r)'
      BY <1>1, <1>3, <1>4, <1>6 DEF OneCopy, Nowhere, Carries
    <2>2. NotSent(r)'
      BY <1>1, <1>2, <1>3, <1>6 DEF NotSent
    <2>3. \A res : Says(r, res)' = Says(r, res)
      BY <1>1 DEF Says
    <2>4. Spent(r)'
      BY <1>1, <1>3, <1>6, <2>3 DEF CopyOK, Spent
    <2> QED
      BY <2>1, <2>2, <2>4 DEF CopyOK
  <1> QED
    BY <1>5, <1>6

(* A late push: from the wire into the queue. *)
LEMMA PushLandsCopies ==
    ASSUME TypeInv, NEW q \in Requests, PushLands(q), NEW r \in Requests, CopyOK(r)
    PROVE  CopyOK(r)'
  <1>1. /\ UNCHANGED <<hand, down, up, started, running, bound, session, answer, result, dispatch>>
        /\ q \in wire /\ wire' = wire \ {q}
    BY DEF PushLands, Enqueue, gateways, sockets, sidecar, history
  <1>2. r = q => ~InQueue(r) /\ \A s \in Sessions : ~Carries(s, r)
    BY <1>1 DEF CopyOK, OneCopy
  <1>3. /\ Once(queue', Run(r))
        /\ InQueue(r)' <=> InQueue(r) \/ r = q
        /\ \A s \in Sessions : Once(down'[s], Run(r))
        /\ \A s \in Sessions : InHand(s, r)' = InHand(s, r) /\ InDown(s, r)' = InDown(s, r)
    BY <1>1, <1>2, Enqueued DEF PushLands, CopyOK
  <1>4. Quiet(r)
    BY <1>1, VoicesKept DEF voiceVars
  <1>5. CASE r # q
    <2>1. Fewer(r)
      BY <1>1, <1>3, <1>5 DEF Fewer
    <2> QED
      BY <1>4, <2>1, QuietKeeps
  <1>6. CASE r = q
    <2>1. OneCopy(r)'
      BY <1>1, <1>2, <1>3, <1>6 DEF OneCopy, Carries
    <2>2. ~Nowhere(r)
      BY <1>1, <1>6 DEF Nowhere
    <2>3. NotSent(r)' /\ Spent(r)'
      BY <1>4, <2>2 DEF CopyOK, NotSent, Spent, Quiet, Unsent
    <2> QED
      BY <2>1, <2>3 DEF CopyOK
  <1> QED
    BY <1>5, <1>6

(* The result is taken: the caller says what the queue said. *)
LEMMA TakeResultCopies ==
    ASSUME TypeInv, NEW q \in Requests, TakeResult(q), NEW r \in Requests, CopyOK(r)
    PROVE  CopyOK(r)'
  <1>1. Fewer(r)
    <2>1. UNCHANGED placeVars
      BY DEF TakeResult, placeVars, redis, gateways, sockets
    <2> QED
      BY <2>1, PlacesKept DEF CopyOK
  <1>2. Quiet(r)
    BY DEF Quiet, Says, TakeResult, TypeInv, TypeOK, CallersOK, RedisOK, Result, Unsent, redis,
       sockets, sidecar, history
  <1> QED
    BY <1>1, <1>2, QuietKeeps

(* Giving up: a push that was not over stays on the wire. *)
LEMMA GiveUpCopies ==
    ASSUME TypeInv, NEW q \in Requests, GiveUp(q), NEW r \in Requests, CopyOK(r)
    PROVE  CopyOK(r)'
  <1>1. UNCHANGED <<hand, down, queue, up, started, running, bound, session, result>>
    BY DEF GiveUp, redis, gateways, sockets, sidecar, history
  <1>2. \/ wire' = wire
        \/ dispatch[q] = "pushing" /\ wire' = wire \union {q}
    BY DEF GiveUp
  <1>3. /\ dispatch'[q] = "withdrawing" /\ answer'[q] = "abandoned"
        /\ r # q => dispatch'[r] = dispatch[r] /\ answer'[r] = answer[r]
    BY DEF GiveUp, TypeInv, TypeOK, CallersOK
  <1>4. Quiet(r)
    BY <1>1, <1>3 DEF Quiet, Says, Unsent
  <1>5. /\ InQueue(r)' = InQueue(r)
        /\ \A s \in Sessions : InHand(s, r)' = InHand(s, r) /\ InDown(s, r)' = InDown(s, r)
        /\ Once(queue', Run(r)) /\ \A s \in Sessions : Once(down'[s], Run(r))
    BY <1>1 DEF InQueue, InHand, InDown, CopyOK, OneCopy
  <1>6. CASE r # q \/ wire' = wire
    <2>1. Fewer(r)
      BY <1>2, <1>5, <1>6 DEF Fewer
    <2> QED
      BY <1>4, <2>1, QuietKeeps
  <1>7. CASE r = q /\ dispatch[q] = "pushing" /\ wire' = wire \union {q}
    <2>1. Nowhere(r) /\ r \notin started /\ ~Says(r, "rejected")
      BY <1>7 DEF CopyOK, NotSent
    <2>2. OneCopy(r)'
      BY <1>5, <2>1 DEF OneCopy, Nowhere, Carries
    <2>3. NotSent(r)'
      BY <1>3, <1>7 DEF NotSent
    <2>4. Spent(r)'
      BY <1>4, <2>1 DEF CopyOK, Spent, Quiet
    <2> QED
      BY <2>2, <2>3, <2>4 DEF CopyOK
  <1> QED
    BY <1>2, <1>6, <1>7

(* LREM takes the request out of the queue, if it is there. *)
LEMMA WithdrawCopies ==
    ASSUME TypeInv, NEW q \in Requests, OneCopy(q), Withdraw(q), NEW r \in Requests, CopyOK(r)
    PROVE  CopyOK(r)'
  <1>1. UNCHANGED <<hand, down, wire, up, started, running, bound, session, result, answer>>
    BY DEF Withdraw, gateways, sockets, sidecar, history
  <1>2. queue \in Seq(Message) /\ Run(q) \in Message
    BY MessageKinds DEF TypeInv, TypeOK, RedisOK
  <1>3. ToSet(queue') = ToSet(queue) \ {Run(q)} /\ Once(queue', Run(r))
    BY <1>2, Removed DEF Withdraw, CopyOK, OneCopy
  <1>4. Fewer(r)
    BY <1>1, <1>3 DEF Fewer, InQueue, InHand, InDown, CopyOK, OneCopy
  <1>5. /\ dispatch'[q] \in {"clearing", "cancelling"} /\ dispatch[q] = "withdrawing"
        /\ r # q => dispatch'[r] = dispatch[r]
    BY DEF Withdraw, TypeInv, TypeOK, CallersOK
  <1>6. answer[q] = "refused" /\ r = q => dispatch[q] = "over"
    BY DEF CopyOK, NotSent
  <1>7. Quiet(r)
    BY <1>1, <1>5, <1>6 DEF Quiet, Says, Unsent
  <1> QED
    BY <1>4, <1>7, QuietKeeps

(* A cancel is no request. *)
LEMMA PushCancelCopies ==
    ASSUME TypeInv, NEW q \in Requests, PushCancel(q), NEW r \in Requests, CopyOK(r)
    PROVE  CopyOK(r)'
  <1>1. UNCHANGED <<hand, down, wire, up, started, running, bound, session, result, answer>>
    BY DEF PushCancel, gateways, sockets, sidecar, history
  <1>2. queue \in Seq(Message) /\ Cancel(q) \in Message /\ Run(r) # Cancel(q)
    BY MessageKinds DEF TypeInv, TypeOK, RedisOK
  <1>3. ToSet(queue') = ToSet(queue) \union {Cancel(q)} /\ Once(queue', Run(r))
    BY <1>2, Appended DEF PushCancel, CancelQueued, CopyOK, OneCopy
  <1>4. Fewer(r)
    BY <1>1, <1>2, <1>3 DEF Fewer, InQueue, InHand, InDown, CopyOK, OneCopy
  <1>5. /\ dispatch'[q] = "clearing" /\ dispatch[q] = "cancelling"
        /\ r # q => dispatch'[r] = dispatch[r]
    BY DEF PushCancel, TypeInv, TypeOK, CallersOK
  <1>6. answer[q] = "refused" /\ r = q => dispatch[q] = "over"
    BY DEF CopyOK, NotSent
  <1>7. Quiet(r)
    BY <1>1, <1>5, <1>6 DEF Quiet, Says, Unsent
  <1> QED
    BY <1>4, <1>7, QuietKeeps

(* The result queue is deleted. *)
LEMMA ClearCopies ==
    ASSUME TypeInv, NEW q \in Requests, Clear(q), NEW r \in Requests, CopyOK(r)
    PROVE  CopyOK(r)'
  <1>1. Fewer(r)
    <2>1. UNCHANGED placeVars
      BY DEF Clear, placeVars, gateways, sockets
    <2> QED
      BY <2>1, PlacesKept DEF CopyOK
  <1>2. /\ dispatch'[q] = "over" /\ dispatch[q] = "clearing"
        /\ r # q => dispatch'[r] = dispatch[r]
        /\ result'[r] = result[r] \/ result'[r] = "none"
    BY DEF Clear, DropKeys, TypeInv, TypeOK, CallersOK, RedisOK
  <1>3. answer[q] = "refused" /\ r = q => dispatch[q] = "over"
    BY DEF CopyOK, NotSent
  <1>4. Quiet(r)
    BY <1>2, <1>3 DEF Quiet, Says, Unsent, Clear, sockets, sidecar, history
  <1> QED
    BY <1>1, <1>4, QuietKeeps

(* A Redis error: a push that may yet be applied stays on the wire, and all *)
(* that is said of the request is that it failed.                           *)
LEMMA RedisFailsCopies ==
    ASSUME TypeInv, NEW q \in Requests, RedisFails(q), NEW r \in Requests, CopyOK(r)
    PROVE  CopyOK(r)'
  <1>1. UNCHANGED <<hand, down, queue, up, started, running, bound, session>>
    BY DEF RedisFails, Fault, gateways, sockets, sidecar
  <1>2. \/ wire' = wire
        \/ dispatch[q] = "pushing" /\ wire' = wire \union {q}
    BY DEF RedisFails
  <1>3. /\ dispatch'[q] \in {"clearing", "over"} /\ answer'[q] = "failed"
        /\ r # q => dispatch'[r] = dispatch[r] /\ answer'[r] = answer[r]
        /\ result'[r] = result[r] \/ result'[r] = "none"
    BY DEF RedisFails, DropKeys, TypeInv, TypeOK, CallersOK, RedisOK
  <1>4. Quiet(r)
    BY <1>1, <1>3 DEF Quiet, Says, Unsent
  <1>5. /\ InQueue(r)' = InQueue(r)
        /\ \A s \in Sessions : InHand(s, r)' = InHand(s, r) /\ InDown(s, r)' = InDown(s, r)
        /\ Once(queue', Run(r)) /\ \A s \in Sessions : Once(down'[s], Run(r))
    BY <1>1 DEF InQueue, InHand, InDown, CopyOK, OneCopy
  <1>6. CASE r # q \/ wire' = wire
    <2>1. Fewer(r)
      BY <1>2, <1>5, <1>6 DEF Fewer
    <2> QED
      BY <1>4, <2>1, QuietKeeps
  <1>7. CASE r = q /\ dispatch[q] = "pushing" /\ wire' = wire \union {q}
    <2>1. Nowhere(r) /\ r \notin started /\ ~Says(r, "rejected")
      BY <1>7 DEF CopyOK, NotSent
    <2>2. OneCopy(r)'
      BY <1>5, <2>1 DEF OneCopy, Nowhere, Carries
    <2>3. NotSent(r)'
      BY <1>3, <1>7 DEF NotSent
    <2>4. Spent(r)'
      BY <1>4, <2>1 DEF CopyOK, Spent, Quiet
    <2> QED
      BY <2>2, <2>3, <2>4 DEF CopyOK
  <1> QED
    BY <1>2, <1>6, <1>7

(* The gateway takes the head of the queue into its empty hand. *)
LEMMA TakeRequestCopies ==
    ASSUME TypeInv, NEW s \in Sessions, TakeRequest(s), NEW r \in Requests, CopyOK(r)
    PROVE  CopyOK(r)'
  <1>1. UNCHANGED <<down, wire>> /\ UNCHANGED voiceVars
    BY DEF TakeRequest, voiceVars, callers, sockets, sidecar
  <1>2. queue \in Seq(Message) /\ queue # <<>>
    BY DEF TakeRequest, TypeInv, TypeOK, RedisOK
  <1>3. /\ ToSet(queue) = {Head(queue)} \union ToSet(queue')
        /\ Once(queue', Run(r))
        /\ Head(queue) = Run(r) => Run(r) \notin ToSet(queue')
    BY <1>2, Taken DEF TakeRequest, CopyOK, OneCopy
  <1>4. /\ \A t \in Sessions : t # s => hand'[t] = hand[t]
        /\ hand[s] = Empty
        /\ \E b : hand'[s] = <<Head(queue), b>>
    BY DEF TakeRequest, TypeInv, TypeOK, GatewaysOK
  <1>5. /\ \A t \in Sessions : InDown(t, r)' = InDown(t, r) /\ Once(down'[t], Run(r))
        /\ \A t \in Sessions : t # s => InHand(t, r)' = InHand(t, r)
        /\ InHand(s, r)' <=> Head(queue) = Run(r)
        /\ ~InHand(s, r)
    BY <1>1, <1>4, PairNotEmpty DEF InHand, InDown, CopyOK, OneCopy
  <1>6. Quiet(r)
    BY <1>1, VoicesKept
  <1>7. CASE Head(queue) # Run(r)
    <2>1. Fewer(r)
      BY <1>1, <1>3, <1>5, <1>7 DEF Fewer, InQueue
    <2> QED
      BY <1>6, <2>1, QuietKeeps
  <1>8. CASE Head(queue) = Run(r)
    <2>1. InQueue(r) /\ ~InQueue(r)' /\ r \notin wire'
      BY <1>1, <1>3, <1>8 DEF InQueue, CopyOK, OneCopy
    <2>2. \A t \in Sessions : ~Carries(t, r)
      BY <2>1 DEF CopyOK, OneCopy
    <2>3. \A t \in Sessions : ~InDown(t, r)' /\ (InHand(t, r)' <=> t = s)
      BY <1>5, <1>8, <2>2 DEF Carries
    <2>4. OneCopy(r)'
      BY <1>3, <1>5, <2>1, <2>3 DEF OneCopy, Carries
    <2>5. ~Nowhere(r)
      BY <2>1 DEF Nowhere
    <2>6. NotSent(r)' /\ Spent(r)'
      BY <1>6, <2>5 DEF CopyOK, NotSent, Spent, Quiet, Unsent
    <2> QED
      BY <2>4, <2>6 DEF CopyOK
  <1> QED
    BY <1>7, <1>8

(* A request withdrawn meanwhile is dropped, another one is kept. *)
LEMMA CheckRequestCopies ==
    ASSUME TypeInv, NEW s \in Sessions, CheckRequest(s), NEW r \in Requests, CopyOK(r)
    PROVE  CopyOK(r)'
  <1>1. UNCHANGED <<queue, down, wire>> /\ UNCHANGED voiceVars
    BY DEF CheckRequest, voiceVars, redis, callers, sockets, sidecar, history
  <1>2. /\ \A t \in Sessions : t # s => hand'[t] = hand[t]
        /\ hand[s] # Empty
        /\ hand'[s] = Empty \/ hand'[s] = <<hand[s][1], TRUE>>
    BY DEF CheckRequest, TypeInv, TypeOK, GatewaysOK
  <1>3. \A t \in Sessions : InHand(t, r)' => InHand(t, r)
    <2>1. \A t \in Sessions : t # s => InHand(t, r)' = InHand(t, r)
      BY <1>2 DEF InHand
    <2>2. CASE hand'[s] = Empty
      BY <2>1, <2>2 DEF InHand
    <2>3. CASE hand'[s] = <<hand[s][1], TRUE>>
      <3>1. hand'[s][1] = hand[s][1]
        BY <2>3
      <3> QED
        BY <1>2, <2>1, <3>1 DEF InHand
    <2> QED
      BY <1>2, <2>2, <2>3
  <1>4. Fewer(r)
    BY <1>1, <1>3 DEF Fewer, InQueue, InDown, CopyOK, OneCopy
  <1>5. Quiet(r)
    BY <1>1, VoicesKept
  <1> QED
    BY <1>4, <1>5, QuietKeeps

(* From the hand onto the socket, or nowhere. *)
LEMMA DeliverCopies ==
    ASSUME TypeInv, NEW s \in Sessions, Deliver(s), NEW r \in Requests, CopyOK(r)
    PROVE  CopyOK(r)'
  <1>1. UNCHANGED <<queue, wire>> /\ UNCHANGED voiceVars
    BY DEF Deliver, voiceVars, redis, callers, sidecar, history
  <1>2. hand[s] # Empty /\ hand[s][1] \in Message /\ down[s] \in Seq(Message)
    BY HandTyped DEF Deliver, TypeInv, TypeOK, SocketsOK
  <1>3. /\ \A t \in Sessions : t # s => hand'[t] = hand[t] /\ down'[t] = down[t]
        /\ hand'[s] = Empty
        /\ down'[s] = down[s] \/ down'[s] = Append(down[s], hand[s][1])
    BY DEF Deliver, TypeInv, TypeOK, GatewaysOK, SocketsOK
  <1>4. /\ \A t \in Sessions : t # s => InHand(t, r)' = InHand(t, r) /\ InDown(t, r)' = InDown(t, r)
        /\ ~InHand(s, r)'
    BY <1>3 DEF InHand, InDown
  <1>5. Quiet(r)
    BY <1>1, VoicesKept
  <1>6. CASE hand[s][1] # Run(r) \/ down'[s] = down[s]
    <2>1. Once(down'[s], Run(r)) /\ (InDown(s, r)' => InDown(s, r))
      <3>1. CASE down'[s] = down[s]
        BY <3>1 DEF CopyOK, OneCopy, InDown
      <3>2. CASE hand[s][1] # Run(r) /\ down'[s] = Append(down[s], hand[s][1])
        <4>1. /\ ToSet(down'[s]) = ToSet(down[s]) \union {hand[s][1]}
              /\ Once(down'[s], Run(r))
          BY <1>2, <3>2, Appended DEF CopyOK, OneCopy
        <4> QED
          BY <3>2, <4>1 DEF InDown
      <3> QED
        BY <1>3, <1>6, <3>1, <3>2
    <2>2. Fewer(r)
      BY <1>1, <1>3, <1>4, <2>1 DEF Fewer, InQueue, CopyOK, OneCopy
    <2> QED
      BY <1>5, <2>2, QuietKeeps
  <1>7. CASE hand[s][1] = Run(r) /\ down'[s] = Append(down[s], hand[s][1])
    <2>1. InHand(s, r)
      BY <1>2, <1>7 DEF InHand
    <2>2. /\ ~InDown(s, r) /\ r \notin wire /\ ~InQueue(r)
          /\ \A t \in Sessions : t # s => ~Carries(t, r)
      BY <2>1 DEF CopyOK, OneCopy, Carries
    <2>3. Once(down'[s], Run(r))
      BY <1>2, <1>7, <2>2, Appended DEF InDown
    <2>4. OneCopy(r)'
      BY <1>1, <1>3, <1>4, <2>2, <2>3 DEF CopyOK, OneCopy, Carries, InQueue
    <2>5. ~Nowhere(r)
      BY <2>1 DEF Nowhere, Carries
    <2>6. NotSent(r)' /\ Spent(r)'
      BY <1>5, <2>5 DEF CopyOK, NotSent, Spent, Quiet, Unsent
    <2> QED
      BY <2>4, <2>6 DEF CopyOK
  <1> QED
    BY <1>3, <1>6, <1>7

(* A send that raises: the one copy is gone, and is reported so. *)
LEMMA DeliveryFailsCopies ==
    ASSUME TypeInv, NEW s \in Sessions, DeliveryFails(s), NEW r \in Requests, CopyOK(r)
    PROVE  CopyOK(r)'
  <1>1. UNCHANGED <<queue, wire, down, dispatch, bound, answer, up, started, running, session>>
    BY DEF DeliveryFails, callers, sockets, sidecar, history
  <1>2. /\ hand[s] # Empty /\ hand[s][1] \in Message
        /\ hand[s][1].kind = "run" => hand[s][1] = Run(hand[s][1].req)
    BY HandTyped, MessageKinds DEF DeliveryFails
  <1>3. /\ \A t \in Sessions : t # s => hand'[t] = hand[t]
        /\ hand'[s] = Empty
    BY DEF DeliveryFails, TypeInv, TypeOK, GatewaysOK
  <1>4. /\ \A t \in Sessions : t # s => InHand(t, r)' = InHand(t, r)
        /\ ~InHand(s, r)'
    BY <1>3 DEF InHand
  <1>5. Fewer(r)
    BY <1>1, <1>4 DEF Fewer, InQueue, InDown, CopyOK, OneCopy
  <1>6. result'[r] = result[r] \/ (hand[s][1] = Run(r) /\ result'[r] = "rejected")
    BY <1>2, MessageKinds DEF DeliveryFails, Publish, TypeInv, TypeOK, RedisOK
  <1>7. CASE result'[r] = result[r]
    <2>1. Quiet(r)
      BY <1>1, <1>7 DEF Quiet, Says
    <2> QED
      BY <1>5, <2>1, QuietKeeps
  <1>8. CASE hand[s][1] = Run(r) /\ result'[r] = "rejected"
    <2>1. InHand(s, r)
      BY <1>2, <1>8 DEF InHand
    <2>2. /\ ~InDown(s, r) /\ r \notin wire /\ ~InQueue(r)
          /\ \A t \in Sessions : t # s => ~Carries(t, r)
      BY <2>1 DEF CopyOK, OneCopy, Carries
    <2>3. Nowhere(r)'
      BY <1>1, <1>4, <2>2 DEF Nowhere, Carries, InQueue, InDown
    <2>4. ~Nowhere(r)
      BY <2>1 DEF Nowhere, Carries
    <2>5. r \notin started /\ dispatch[r] \notin Unsent /\ answer[r] # "refused"
      BY <2>4 DEF CopyOK, NotSent, Spent, Unsent
    <2>6. Says(r, "ran")' => Says(r, "ran")
      BY <1>1, <1>8 DEF Says
    <2>7. NotSent(r)' /\ Spent(r)'
      BY <1>1, <2>3, <2>5, <2>6 DEF CopyOK, NotSent, Spent, Unsent
    <2>8. OneCopy(r)'
      BY <1>5, FewerCopies DEF CopyOK
    <2> QED
      BY <2>7, <2>8 DEF CopyOK
  <1> QED
    BY <1>6, <1>7, <1>8

(* What the device said is what the caller will be told. *)
LEMMA ReceiveResultCopies ==
    ASSUME TypeInv, NEW s \in Sessions, ReceiveResult(s), NEW r \in Requests, CopyOK(r)
    PROVE  CopyOK(r)'
  <1>1. UNCHANGED <<queue, wire, hand, down, dispatch, bound, answer, started, running, session>>
    BY DEF ReceiveResult, callers, gateways, sidecar, history
  <1>2. Fewer(r)
    BY <1>1, PlacesKept DEF placeVars, CopyOK
  <1>3. PICK m \in up[s] :
          /\ up' = [up EXCEPT ![s] = @ \ {m}]
          /\ IF m[1] \in owned THEN Publish(m[1], m[2]) /\ Untrack(m[1])
             ELSE UNCHANGED <<result, pending, owned>>
    BY DEF ReceiveResult
  <1>4. m \in Requests \X Result /\ m = <<m[1], m[2]>>
    BY <1>3 DEF TypeInv, TypeOK, SocketsOK
  <1>5. \A t \in Sessions : up'[t] \subseteq up[t]
    BY <1>3 DEF TypeInv, TypeOK, SocketsOK
  <1>6. result'[r] = result[r] \/ (m[1] = r /\ result'[r] = m[2])
    BY <1>3, <1>4 DEF Publish, TypeInv, TypeOK, RedisOK
  <1>7. \A res : Says(r, res)' => Says(r, res)
    BY <1>1, <1>3, <1>4, <1>5, <1>6 DEF Says
  <1>8. answer[r] = "refused" => dispatch[r] = "over"
    BY DEF CopyOK, NotSent
  <1>9. Quiet(r)
    BY <1>1, <1>7, <1>8 DEF Quiet
  <1> QED
    BY <1>2, <1>9, QuietKeeps

(* A gateway that goes loses what it holds and what it has not read. *)
LEMMA GatewayGoneCopies ==
    ASSUME TypeInv, NEW s \in Sessions, CloseGateway(s) \/ CrashGateway(s),
           NEW r \in Requests, CopyOK(r)
    PROVE  CopyOK(r)'
  <1>1. UNCHANGED <<queue, wire, down, dispatch, bound, answer, result, started, running, session>>
    BY DEF CloseGateway, CrashGateway, Fault, redis, callers, sidecar, history
  <1>2. /\ \A t \in Sessions : t # s => hand'[t] = hand[t]
        /\ hand'[s] = Empty
        /\ \A t \in Sessions : up'[t] \subseteq up[t]
    BY DEF CloseGateway, CrashGateway, TypeInv, TypeOK, GatewaysOK, SocketsOK
  <1>3. \A t \in Sessions : InHand(t, r)' => InHand(t, r)
    BY <1>2 DEF InHand
  <1>4. Fewer(r)
    BY <1>1, <1>3 DEF Fewer, InQueue, InDown, CopyOK, OneCopy
  <1>5. Quiet(r)
    BY <1>1, <1>2 DEF Quiet, Says
  <1> QED
    BY <1>4, <1>5, QuietKeeps

(* A lost device's requests are answered "maybe". *)
LEMMA FailRequestCopies ==
    ASSUME TypeInv, NEW c \in Cleaners, NEW q \in Requests, FailRequest(c, q),
           NEW r \in Requests, CopyOK(r)
    PROVE  CopyOK(r)'
  <1>1. /\ UNCHANGED placeVars
        /\ UNCHANGED <<dispatch, bound, answer, up, started, running, session>>
    BY DEF FailRequest, placeVars, callers, sockets, sidecar, history
  <1>2. result'[r] = result[r] \/ result'[r] = "maybe"
    BY DEF FailRequest, Publish, DisconnectResult, TypeInv, TypeOK, RedisOK
  <1>3. Fewer(r)
    BY <1>1, PlacesKept DEF CopyOK
  <1>4. Quiet(r)
    BY <1>1, <1>2 DEF Quiet, Says
  <1> QED
    BY <1>3, <1>4, QuietKeeps

(* An ended session takes the queue with it. *)
LEMMA DeleteSessionCopies ==
    ASSUME TypeInv, NEW c \in Cleaners, DeleteSession(c), NEW r \in Requests, CopyOK(r)
    PROVE  CopyOK(r)'
  <1>1. UNCHANGED <<wire, hand, down>> /\ UNCHANGED voiceVars /\ queue' = <<>>
    BY DEF DeleteSession, voiceVars, callers, sockets, sidecar
  <1>2. ToSet(queue') = {} /\ Once(queue', Run(r))
    BY <1>1 DEF ToSet, Once
  <1>3. Fewer(r)
    BY <1>1, <1>2 DEF Fewer, InQueue, InHand, InDown, CopyOK, OneCopy
  <1>4. Quiet(r)
    BY <1>1, VoicesKept
  <1> QED
    BY <1>3, <1>4, QuietKeeps

(* A new session: nothing runs when it begins. *)
LEMMA RegisterCopies ==
    ASSUME TypeInv, SessionInv, Register, NEW r \in Requests, CopyOK(r)
    PROVE  CopyOK(r)'
  <1>1. /\ UNCHANGED placeVars
        /\ UNCHANGED <<dispatch, bound, answer, result, up, started, running>>
    BY DEF Register, placeVars, callers, gateways, sockets, history
  <1>2. running = {}
    BY DEF Register, SessionInv
  <1>3. Fewer(r)
    BY <1>1, PlacesKept DEF CopyOK
  <1>4. Quiet(r)
    BY <1>1, <1>2 DEF Quiet, Says
  <1> QED
    BY <1>3, <1>4, QuietKeeps

(* A socket given up by the sidecar loses what it carried down. *)
LEMMA SocketGoneCopies ==
    ASSUME TypeInv, SyncFails \/ Disconnect, NEW r \in Requests, CopyOK(r)
    PROVE  CopyOK(r)'
  <1>1. /\ UNCHANGED <<queue, wire, hand, dispatch, bound, answer, result, up, session>>
        /\ started' = started /\ running' \subseteq running
    BY DEF SyncFails, Disconnect, Fault, redis, callers, gateways, history
  <1>2. \A t \in Sessions : down'[t] = down[t] \/ down'[t] = <<>>
    BY DEF SyncFails, Disconnect, TypeInv, TypeOK, SocketsOK
  <1>3. \A t \in Sessions : Once(down'[t], Run(r)) /\ (InDown(t, r)' => InDown(t, r))
    BY <1>2 DEF Once, InDown, ToSet, CopyOK, OneCopy
  <1>4. Fewer(r)
    BY <1>1, <1>3 DEF Fewer, InQueue, InHand, CopyOK, OneCopy
  <1>5. Quiet(r)
    BY <1>1 DEF Quiet, Says
  <1> QED
    BY <1>4, <1>5, QuietKeeps

(* The device takes the head of its socket. *)
LEMMA SocketRead ==
    ASSUME TypeInv, side = "serving", NEW s, s = session, down[s] # <<>>,
           down' = [down EXCEPT ![s] = Tail(@)], NEW r \in Requests, CopyOK(r)
    PROVE  /\ s \in Sessions /\ Head(down[s]) \in Message
           /\ \A t \in Sessions : Once(down'[t], Run(r)) /\ (InDown(t, r)' => InDown(t, r))
           /\ Head(down[s]) = Run(r) => InDown(s, r) /\ ~InDown(s, r)'
  <1>1. s \in Sessions /\ down[s] \in Seq(Message)
    BY DEF TypeInv, TypeOK, SideHasSession, SocketsOK
  <1>2. /\ down'[s] = Tail(down[s])
        /\ \A t \in Sessions : t # s => down'[t] = down[t]
    BY <1>1 DEF TypeInv, TypeOK, SocketsOK
  <1>3. /\ Head(down[s]) \in Message
        /\ ToSet(down[s]) = {Head(down[s])} \union ToSet(down'[s])
        /\ Once(down'[s], Run(r))
        /\ Head(down[s]) = Run(r) => Run(r) \notin ToSet(down'[s])
    BY <1>1, <1>2, Taken DEF CopyOK, OneCopy
  <1>4. \A t \in Sessions : Once(down'[t], Run(r)) /\ (InDown(t, r)' => InDown(t, r))
    BY <1>2, <1>3 DEF InDown, CopyOK, OneCopy
  <1> QED
    BY <1>1, <1>3, <1>4 DEF InDown

(* A request read from the socket is started, or rejected, and gone.        *)
LEMMA ReceiveRequestCopies ==
    ASSUME TypeInv, ReceiveRequest, NEW r \in Requests, CopyOK(r)
    PROVE  CopyOK(r)'
  <1> DEFINE s == session
             m == Head(down[s])
  <1>1. UNCHANGED <<queue, wire, hand, dispatch, bound, answer, result, session>>
    BY DEF ReceiveRequest, redis, callers, gateways
  <1>2. /\ s \in Sessions /\ m \in Message
        /\ \A t \in Sessions : Once(down'[t], Run(r)) /\ (InDown(t, r)' => InDown(t, r))
        /\ m = Run(r) =>
             \A t \in Sessions : t = session => InDown(t, r) /\ ~InDown(t, r)'
    BY SocketRead DEF ReceiveRequest
  <1>3. m.kind = "run" /\ m.req \in Requests /\ m = Run(m.req)
    BY <1>2, MessageKinds DEF ReceiveRequest
  <1>4. Fewer(r)
    BY <1>1, <1>2 DEF Fewer, InQueue, InHand, CopyOK, OneCopy
  <1>5. \/ /\ Accepts(m.req)
           /\ running' = running \union {m.req} /\ started' = started \union {m.req}
           /\ up' = up
        \/ /\ up' = [up EXCEPT ![s] =
                       IF link[s] = "up" THEN @ \union {<<m.req, "rejected">>} ELSE @]
           /\ running' = running /\ started' = started
    BY DEF ReceiveRequest
  <1> HIDE DEF s, m
  <1>6. CASE m.req # r
    <2>1. \A t \in Sessions : \A res : <<r, res>> \in up'[t] => <<r, res>> \in up[t]
      <3> SUFFICES ASSUME NEW t \in Sessions, NEW res, <<r, res>> \in up'[t], up' # up
                   PROVE  <<r, res>> \in up[t]
        OBVIOUS
      <3>1. up' = [up EXCEPT ![s] =
                     IF link[s] = "up" THEN @ \union {<<m.req, "rejected">>} ELSE @]
        BY <1>5
      <3>2. up \in [Sessions -> SUBSET (Requests \X Result)]
        BY DEF TypeInv, TypeOK, SocketsOK
      <3>3. up'[t] = up[t] \/ up'[t] = up[t] \union {<<m.req, "rejected">>}
        BY <3>1, <3>2
      <3>4. <<m.req, "rejected">> # <<r, res>>
        BY <1>6
      <3> QED
        BY <3>3, <3>4
    <2>2. (r \in running' <=> r \in running) /\ (r \in started' <=> r \in started)
      BY <1>5, <1>6
    <2>3. answer[r] = "refused" => dispatch[r] = "over"
      BY DEF CopyOK, NotSent
    <2>4. Quiet(r)
      BY <1>1, <2>1, <2>2, <2>3 DEF Quiet, Says
    <2> QED
      BY <1>4, <2>4, QuietKeeps
  <1>7. CASE m.req = r
    <2>1. m = Run(r) /\ InDown(s, r)
      BY <1>2, <1>3, <1>7 DEF s
    <2>2. /\ ~InHand(s, r) /\ r \notin wire /\ ~InQueue(r)
          /\ \A t \in Sessions : t # s => ~Carries(t, r)
      BY <1>2, <2>1 DEF CopyOK, OneCopy, Carries
    <2>3. \A t \in Sessions : ~InDown(t, r)'
      BY <1>2, <2>1, <2>2 DEF s, Carries
    <2>4. \A t \in Sessions : ~InHand(t, r)'
      BY <1>1, <2>2 DEF InHand, Carries
    <2>5. Nowhere(r)'
      BY <1>1, <2>2, <2>3, <2>4 DEF Nowhere, Carries, InQueue
    <2>6. ~Nowhere(r)
      BY <1>2, <2>1 DEF Nowhere, Carries
    <2>7. /\ r \notin started /\ dispatch[r] \notin Unsent /\ answer[r] # "refused"
          /\ ~Says(r, "rejected") /\ ~Says(r, "ran") /\ r \notin running
      BY <2>6 DEF CopyOK, NotSent, Spent, Unsent
    <2>8. OneCopy(r)'
      BY <1>4, FewerCopies DEF CopyOK
    <2>9. NotSent(r)'
      BY <1>1, <2>7 DEF NotSent, Unsent
    <2>10. Spent(r)'
      <3>1. CASE up' = up /\ running' = running \union {r} /\ started' = started \union {r}
                 /\ Accepts(r)
        <4>1. ~Says(r, "rejected")' /\ ~Says(r, "ran")'
          BY <1>1, <2>7, <3>1 DEF Says
        <4>2. bound'[r].sid = session'
          BY <1>1, <3>1 DEF Accepts
        <4> QED
          BY <2>5, <3>1, <4>1, <4>2 DEF Spent
      <3>2. CASE /\ up' = [up EXCEPT ![s] =
                           IF link[s] = "up" THEN @ \union {<<r, "rejected">>} ELSE @]
                 /\ running' = running /\ started' = started
        <4>1. \A t \in Sessions : <<r, "ran">> \in up'[t] => <<r, "ran">> \in up[t]
          BY <1>2, <3>2 DEF TypeInv, TypeOK, SocketsOK
        <4>2. ~Says(r, "ran")'
          BY <1>1, <2>7, <4>1 DEF Says
        <4> QED
          BY <2>5, <2>7, <3>2, <4>2 DEF Spent
      <3> QED
        BY <1>5, <1>7, <3>1, <3>2
    <2> QED
      BY <2>8, <2>9, <2>10 DEF CopyOK
  <1> QED
    BY <1>6, <1>7

(* A cancel read from the socket ends the run. *)
LEMMA ReceiveCancelCopies ==
    ASSUME TypeInv, ReceiveCancel, NEW r \in Requests, CopyOK(r)
    PROVE  CopyOK(r)'
  <1>1. /\ UNCHANGED <<queue, wire, hand, dispatch, bound, answer, result, up, started, session>>
        /\ running' \subseteq running
    BY DEF ReceiveCancel, redis, callers, gateways, history
  <1>2. \A t \in Sessions : Once(down'[t], Run(r)) /\ (InDown(t, r)' => InDown(t, r))
    BY SocketRead DEF ReceiveCancel
  <1>3. Fewer(r)
    BY <1>1, <1>2 DEF Fewer, InQueue, InHand, CopyOK, OneCopy
  <1>4. Quiet(r)
    BY <1>1 DEF Quiet, Says
  <1> QED
    BY <1>3, <1>4, QuietKeeps

(* A result is reported for what was started. *)
LEMMA FinishCopies ==
    ASSUME TypeInv, NEW q \in Requests, Finish(q), NEW r \in Requests, CopyOK(r)
    PROVE  CopyOK(r)'
  <1>1. /\ UNCHANGED placeVars
        /\ UNCHANGED <<dispatch, bound, answer, result, started, session>>
        /\ q \in running /\ running' = running \ {q}
    BY DEF Finish, placeVars, redis, callers, gateways, history
  <1>2. Fewer(r)
    BY <1>1, PlacesKept DEF CopyOK
  <1>3. PICK res \in {"ran", "maybe"} :
          up' = [up EXCEPT ![session] =
                   IF link[session] = "up" THEN @ \union {<<q, res>>} ELSE @]
    BY DEF Finish
  <1>4. \A t \in Sessions : \A v : <<r, v>> \in up'[t] =>
          <<r, v>> \in up[t] \/ (r = q /\ v \in {"ran", "maybe"})
    BY <1>3 DEF TypeInv, TypeOK, SocketsOK
  <1>5. Says(r, "rejected")' => Says(r, "rejected")
    BY <1>1, <1>4 DEF Says
  <1>6. Says(r, "ran")' => Says(r, "ran") \/ r = q
    BY <1>1, <1>4 DEF Says
  <1>7. r = q => r \in started
    BY <1>1 DEF CopyOK, Spent
  <1>8. answer[r] = "refused" => dispatch[r] = "over"
    BY DEF CopyOK, NotSent
  <1>9. Quiet(r)
    BY <1>1, <1>5, <1>6, <1>7, <1>8 DEF Quiet
  <1> QED
    BY <1>2, <1>9, QuietKeeps

(* The other steps touch neither the requests nor what is said of them. *)
LEMMA OtherCopies ==
    ASSUME UNCHANGED placeVars, UNCHANGED voiceVars, NEW r \in Requests, CopyOK(r)
    PROVE  CopyOK(r)'
  BY PlacesKept, VoicesKept, QuietKeeps DEF CopyOK

-----------------------------------------------------------------------------
(* The three parts together.                                                *)

DeviceInv == TypeInv /\ SessionInv /\ CopyInv

(* Initially nothing is anywhere. *)
LEMMA DeviceInit == Init => DeviceInv
  <1> SUFFICES ASSUME Init PROVE DeviceInv
    OBVIOUS
  <1> USE DEF Init
  <1>1. TypeInv
    <2>1. RedisOK /\ CallersOK
      <3>1. NoRecord \in Record
        BY BoundsAssumption DEF Record, NoRecord
      <3>2. RedisOK
        <4>1. stale \in BOOLEAN
          OBVIOUS
        <4>2. queue \in Seq(Message)
          OBVIOUS
        <4> QED
          BY <3>1, <4>1, <4>2 DEF RedisOK
      <3>3. CallersOK
        BY <3>1 DEF CallersOK
      <3> QED
        BY <3>2, <3>3
    <2>2. GatewaysOK /\ SocketsOK
      BY BoundsAssumption DEF GatewaysOK, SocketsOK, Record, NoRecord, Sessions, NoSession, Empty
    <2>3. SidecarOK /\ HistoryOK /\ SyncIsBounded /\ SideHasSession
      BY BoundsAssumption DEF SidecarOK, HistoryOK, SyncIsBounded, SideHasSession, Record,
         NoRecord
    <2> QED
      BY <2>1, <2>2, <2>3 DEF TypeInv, TypeOK
  <1>2. SessionInv
    BY DEF SessionInv, Untouched
  <1>3. ASSUME NEW r \in Requests PROVE OneCopy(r) /\ NotSent(r) /\ Spent(r)
    <2>1. ToSet(<<>>) = {} /\ Once(<<>>, Run(r))
      BY DEF ToSet, Once
    <2>2. Nowhere(r) /\ OneCopy(r)
      BY <2>1 DEF Nowhere, OneCopy, InQueue, InHand, InDown, Carries
    <2>3. ~Says(r, "rejected") /\ ~Says(r, "ran")
      BY DEF Says
    <2> QED
      BY <2>2, <2>3 DEF NotSent, Spent
  <1> QED
    BY <1>1, <1>2, <1>3 DEF DeviceInv, CopyInv

(* Every caller's step keeps the three. *)
LEMMA CallerKeeps ==
    ASSUME DeviceInv, NEW q \in Requests, CallerStep(q)
    PROVE  DeviceInv'
  <1>1. TypeInv /\ SessionInv /\ OneCopy(q) /\ Once(queue, Run(q))
    BY DEF DeviceInv, CopyInv, OneCopy
  <1>2. \A r \in Requests : CopyOK(r)
    BY DEF DeviceInv, CopyInv, CopyOK
  <1>3. TypeInv'
    BY <1>1, BindType, DispatchType, PushType, PushLandsType, TakeResultType, GiveUpType,
       WithdrawType, PushCancelType, ClearType, RedisFailsType DEF CallerStep
  <1>4. UNCHANGED sessionVars
    BY DEF CallerStep, Bind, Dispatch, Push, PushLands, TakeResult, GiveUp, Withdraw, PushCancel,
       Clear, RedisFails, sessionVars, gateways, sockets, sidecar
  <1>5. ASSUME NEW r \in Requests PROVE CopyOK(r)'
    BY <1>1, <1>2, BindCopies, DispatchCopies, PushCopies, PushLandsCopies, TakeResultCopies,
       GiveUpCopies, WithdrawCopies, PushCancelCopies, ClearCopies, RedisFailsCopies
       DEF CallerStep
  <1> QED
    BY <1>1, <1>3, <1>4, <1>5, SessionKept DEF DeviceInv, CopyInv, CopyOK

(* Every gateway's step, and a break of its socket. *)
LEMMA GatewayKeeps ==
    ASSUME DeviceInv, NEW s \in Sessions, GatewayStep(s) \/ Break(s)
    PROVE  DeviceInv'
  <1>1. TypeInv /\ SessionInv
    BY DEF DeviceInv
  <1>2. \A r \in Requests : CopyOK(r)
    BY DEF DeviceInv, CopyInv, CopyOK
  <1>3. TypeInv'
    BY <1>1, TakeRequestType, CheckRequestType, DeliverType, DeliveryFailsType, ReceiveResultType,
       ReadHeartbeatType, WriteHeartbeatType, CloseGatewayType, CrashGatewayType, BreakType
       DEF GatewayStep
  <1>4. SessionInv'
    <2>1. ReceiveResult(s) \/ ReadHeartbeat(s) \/ WriteHeartbeat(s) => UNCHANGED sessionVars
      BY DEF ReceiveResult, ReadHeartbeat, WriteHeartbeat, sessionVars, gateways, sockets, sidecar
    <2> QED
      BY <1>1, <2>1, SessionKept, TakeRequestSession, CheckRequestSession, DeliverSession,
         DeliveryFailsSession, CloseGatewaySession, CrashGatewaySession,
         BreakSession DEF GatewayStep
  <1>5. ASSUME NEW r \in Requests PROVE CopyOK(r)'
    <2>1. ReadHeartbeat(s) \/ WriteHeartbeat(s) \/ Break(s) =>
            UNCHANGED placeVars /\ UNCHANGED voiceVars
      BY DEF ReadHeartbeat, WriteHeartbeat, Break, Fault, placeVars, voiceVars, redis, callers,
         gateways, sockets, sidecar, history
    <2> QED
      BY <1>1, <1>2, <2>1, OtherCopies, TakeRequestCopies, CheckRequestCopies, DeliverCopies,
         DeliveryFailsCopies, ReceiveResultCopies, GatewayGoneCopies DEF GatewayStep
  <1> QED
    BY <1>3, <1>4, <1>5 DEF DeviceInv, CopyInv, CopyOK

(* Every step that ends a session, and time. *)
LEMMA CleanerKeeps ==
    ASSUME DeviceInv, Expire \/ GoStale \/ \E c \in Cleaners : CleanerStep(c)
    PROVE  DeviceInv'
  <1>1. TypeInv /\ SessionInv
    BY DEF DeviceInv
  <1>2. \A r \in Requests : CopyOK(r)
    BY DEF DeviceInv, CopyInv, CopyOK
  <1>3. CASE Expire \/ GoStale
    <2>1. TypeInv'
      BY <1>1, <1>3, ExpireType, GoStaleType
    <2>2. UNCHANGED sessionVars /\ UNCHANGED placeVars /\ UNCHANGED voiceVars
      BY <1>3 DEF Expire, GoStale, Fault, sessionVars, placeVars, voiceVars, redis, callers,
         gateways, sockets, sidecar, history
    <2> QED
      BY <1>1, <1>2, <2>1, <2>2, SessionKept, OtherCopies DEF DeviceInv, CopyInv, CopyOK
  <1>4. ASSUME NEW c \in Cleaners, CleanerStep(c) PROVE DeviceInv'
    <2>1. TypeInv'
      BY <1>1, <1>4, FailRequestType, DropPendingType, DeleteSessionType DEF CleanerStep
    <2>2. UNCHANGED sessionVars
      BY <1>4 DEF CleanerStep, FailRequest, DropPending, DeleteSession, sessionVars,
                  sockets, sidecar
    <2>3. ASSUME NEW r \in Requests PROVE CopyOK(r)'
      <3>1. DropPending(c) => UNCHANGED placeVars /\ UNCHANGED voiceVars
        BY DEF DropPending, placeVars, voiceVars, callers, sockets, sidecar, history
      <3> QED
        BY <1>1, <1>2, <1>4, <3>1, OtherCopies, FailRequestCopies, DeleteSessionCopies
           DEF CleanerStep
    <2> QED
      BY <1>1, <2>1, <2>2, <2>3, SessionKept DEF DeviceInv, CopyInv, CopyOK
  <1> QED
    BY <1>3, <1>4

(* Every step of the sidecar. *)
LEMMA SidecarKeeps ==
    ASSUME DeviceInv, SidecarStep
    PROVE  DeviceInv'
  <1>1. TypeInv /\ SessionInv
    BY DEF DeviceInv
  <1>2. \A r \in Requests : CopyOK(r)
    BY DEF DeviceInv, CopyInv, CopyOK
  <1>3. TypeInv'
    BY <1>1, RegisterType, ConnectType, AskSyncType, AskRefreshType, ReadSyncType, WriteSyncType,
       MirrorType, SyncFailsType, ReceiveRequestType, ReceiveCancelType, FinishType,
       DisconnectType DEF SidecarStep
  <1>4. SessionInv'
    <2>1. AskRefresh \/ ReadSync \/ WriteSync => UNCHANGED sessionVars
      BY DEF AskRefresh, ReadSync, WriteSync, sessionVars, gateways, sockets
    <2> QED
      BY <1>1, <2>1, SessionKept, RegisterSession, ConnectSession, AskSyncSession, MirrorSession,
         SyncFailsSession, ReceiveRequestSession, ReceiveCancelSession, FinishSession,
         DisconnectSession DEF SidecarStep
  <1>5. ASSUME NEW r \in Requests PROVE CopyOK(r)'
    <2>1. Connect \/ AskSync \/ AskRefresh \/ ReadSync \/ WriteSync \/ Mirror =>
            UNCHANGED placeVars /\ UNCHANGED voiceVars
      BY DEF Connect, AskSync, AskRefresh, ReadSync, WriteSync, Mirror, placeVars, voiceVars,
         redis, callers, gateways, sockets, history
    <2> QED
      BY <1>1, <1>2, <2>1, OtherCopies, RegisterCopies, SocketGoneCopies, ReceiveRequestCopies,
         ReceiveCancelCopies, FinishCopies DEF SidecarStep
  <1> QED
    BY <1>3, <1>4, <1>5 DEF DeviceInv, CopyInv, CopyOK

(* Every step. *)
LEMMA DeviceNext == DeviceInv /\ [Next]_vars => DeviceInv'
  <1> SUFFICES ASSUME DeviceInv, [Next]_vars PROVE DeviceInv'
    OBVIOUS
  <1>1. CASE Next
    BY <1>1, CallerKeeps, GatewayKeeps, CleanerKeeps, SidecarKeeps DEF Next
  <1>2. CASE UNCHANGED vars
    <2>1. /\ UNCHANGED sessionVars /\ UNCHANGED placeVars /\ UNCHANGED voiceVars
          /\ UNCHANGED <<redis, callers, gateways, sockets, sidecar, history>>
      BY <1>2 DEF vars, sessionVars, placeVars, voiceVars, redis, callers, gateways, sockets,
         sidecar, history
    <2>2. TypeInv'
      BY <2>1, Kept DEF DeviceInv, TypeInv, TypeOK, SyncIsBounded, SideHasSession, sidecar
    <2>3. \A r \in Requests : CopyOK(r)'
      BY <2>1, OtherCopies DEF DeviceInv, CopyInv, CopyOK
    <2> QED
      BY <2>1, <2>2, <2>3, SessionKept DEF DeviceInv, CopyInv, CopyOK
  <1> QED
    BY <1>1, <1>2

(* In every reachable state the variables have their types, the sessions go *)
(* together and each request has one copy at most.                          *)
LEMMA DeviceInvariance == Spec => []DeviceInv
  BY DeviceInit, DeviceNext, PTL DEF Spec

(* Every variable of Redis, the callers, the gateways, the sockets and the  *)
(* sidecar has its type.                                                    *)
THEOREM TypeCorrect == Spec => []TypeOK
  <1>1. DeviceInv => TypeOK
    BY DEF DeviceInv, TypeInv
  <1> QED
    BY <1>1, DeviceInvariance, PTL

(* dispatch_request tells its caller the truth: a call answered "rejected"  *)
(* or "refused" was never started and never will be, and one answered with  *)
(* a result of the tool was started.                                        *)
THEOREM AnswersAreHonest == Spec => []AnswerIsHonest
  <1>1. ASSUME DeviceInv PROVE AnswerIsHonest
    <2> SUFFICES ASSUME NEW r \in Requests
                 PROVE  /\ answer[r] \in {"rejected", "refused"} =>
                             r \notin started /\ ~Held(Run(r)) /\ Run(r) \notin ToSet(queue)
                        /\ answer[r] = "ran" => r \in started
      BY DEF AnswerIsHonest
    <2>1. NotSent(r) /\ Spent(r)
      BY <1>1 DEF DeviceInv, CopyInv
    <2>2. answer[r] \in {"rejected", "refused"} => Nowhere(r) /\ r \notin started
      BY <2>1 DEF NotSent, Spent, Says
    <2>3. Nowhere(r) => ~Held(Run(r)) /\ Run(r) \notin ToSet(queue)
      BY DEF Nowhere, Held, InQueue, InHand, InDown, Carries
    <2>4. answer[r] = "ran" => r \in started
      BY <2>1 DEF Spent, Says
    <2> QED
      BY <2>2, <2>3, <2>4
  <1> QED
    BY <1>1, DeviceInvariance, PTL

(* _validate_tool_request keeps sessions apart: what runs on the device was *)
(* bound to the session the device is in, and the device is connected.      *)
THEOREM NothingCrosses == Spec => []NothingRunsAcrossSessions
  <1>1. DeviceInv => NothingRunsAcrossSessions
    BY DEF DeviceInv, TypeInv, TypeOK, SidecarOK, SessionInv, CopyInv, Spent,
       NothingRunsAcrossSessions
  <1> QED
    BY <1>1, DeviceInvariance, PTL

-----------------------------------------------------------------------------
(* The marker of a withdrawn request.                                       *)

(* A caller leaves the marker before it stops answering for the request. *)
LEMMA CallerMarks ==
    ASSUME TypeInv, MarkedInv, NEW q \in Requests, CallerStep(q)
    PROVE  MarkedInv'
  <1> SUFFICES ASSUME NEW r \in Requests, answer'[r] = "abandoned",
                      dispatch'[r] \in {"cancelling", "clearing", "over"}
               PROVE  r \in withdrawn'
    BY DEF MarkedInv
  <1>1. /\ answer \in [Requests -> Result \union {"none", "refused", "abandoned", "failed"}]
        /\ result \in [Requests -> Result \union {"none"}]
        /\ dispatch = [p \in Requests |-> dispatch[p]]
    BY DEF TypeInv, TypeOK, CallersOK, RedisOK
  <1>2. withdrawn \subseteq withdrawn'
    BY DEF CallerStep, Bind, Dispatch, Push, PushLands, TakeResult, GiveUp, Withdraw, PushCancel,
       Clear, RedisFails, Enqueue, Marked, redis
  <1>3. CASE r # q
    <2>1. answer'[r] = answer[r] /\ dispatch'[r] = dispatch[r]
      BY <1>1, <1>3 DEF CallerStep, Bind, Dispatch, Push, PushLands, TakeResult, GiveUp, Withdraw,
         PushCancel, Clear, RedisFails
    <2> QED
      BY <1>2, <2>1 DEF MarkedInv
  <1>4. CASE r = q
    <2>1. CASE Bind(q) \/ Push(q) \/ GiveUp(q)
      BY <1>1, <1>4, <2>1 DEF Bind, Push, GiveUp
    <2>2. CASE Dispatch(q)
      BY <1>1, <1>4, <2>2 DEF Dispatch
    <2>3. CASE PushLands(q)
      BY <1>2, <2>3 DEF PushLands, MarkedInv
    <2>4. CASE TakeResult(q)
      BY <1>1, <1>4, <2>4 DEF TakeResult, Result
    <2>5. CASE Withdraw(q)
      BY <1>4, <2>5 DEF Withdraw, Marked
    <2>6. CASE PushCancel(q) \/ Clear(q)
      <3>1. answer' = answer /\ dispatch[q] \in {"cancelling", "clearing"}
        BY <2>6 DEF PushCancel, Clear
      <3> QED
        BY <1>2, <1>4, <3>1 DEF MarkedInv
    <2>7. CASE RedisFails(q)
      BY <1>1, <1>4, <2>7 DEF RedisFails
    <2> QED
      BY <2>1, <2>2, <2>3, <2>4, <2>5, <2>6, <2>7 DEF CallerStep
  <1> QED
    BY <1>3, <1>4

(* No caller stops waiting without an answer. *)
LEMMA CallerAnswers ==
    ASSUME TypeInv, AnsweredInv, NEW q \in Requests, CallerStep(q)
    PROVE  AnsweredInv'
  <1> SUFFICES ASSUME NEW r \in Requests,
                      dispatch'[r] \in {"withdrawing", "cancelling", "clearing", "over"}
               PROVE  answer'[r] # "none"
    BY DEF AnsweredInv
  <1>1. /\ answer = [p \in Requests |-> answer[p]]
        /\ dispatch = [p \in Requests |-> dispatch[p]]
    BY DEF TypeInv, TypeOK, CallersOK
  <1>2. CASE r # q
    <2>1. answer'[r] = answer[r] /\ dispatch'[r] = dispatch[r]
      BY <1>1, <1>2 DEF CallerStep, Bind, Dispatch, Push, PushLands, TakeResult, GiveUp, Withdraw,
         PushCancel, Clear, RedisFails
    <2> QED
      BY <2>1 DEF AnsweredInv
  <1>3. CASE r = q
    <2>1. CASE Bind(q) \/ Dispatch(q) \/ Push(q) \/ PushLands(q)
      BY <1>1, <1>3, <2>1 DEF Bind, Dispatch, Push, PushLands, AnsweredInv
    <2>2. CASE TakeResult(q) \/ GiveUp(q) \/ RedisFails(q)
      BY <1>1, <1>3, <2>2 DEF TakeResult, GiveUp, RedisFails
    <2>3. CASE Withdraw(q) \/ PushCancel(q) \/ Clear(q)
      BY <1>1, <1>3, <2>3 DEF Withdraw, PushCancel, Clear, AnsweredInv
    <2> QED
      BY <2>1, <2>2, <2>3 DEF CallerStep
  <1> QED
    BY <1>2, <1>3

(* Nobody else answers for a request or takes its marker away. *)
LEMMA MarksKept ==
    ASSUME MarkedInv, AnsweredInv, UNCHANGED <<answer, dispatch, withdrawn>>
    PROVE  MarkedInv' /\ AnsweredInv'
  BY DEF MarkedInv, AnsweredInv

(* What a gateway takes from the queue unchecked is a request. *)
LEMMA TakenUnchecked ==
    ASSUME TypeInv, UncheckedInv, NEW s \in Sessions, TakeRequest(s)
    PROVE  UncheckedInv'
  <1>1. Head(queue) \in Message
    BY Taken DEF TakeRequest, TypeInv, TypeOK, RedisOK
  <1>2. \A t \in Sessions :
          hand'[t] = IF t = s THEN <<Head(queue), Head(queue).kind = "cancel">> ELSE hand[t]
    BY DEF TakeRequest, TypeInv, TypeOK, GatewaysOK
  <1>3. Head(queue).kind # "cancel" => Head(queue).kind = "run"
    BY <1>1, MessageKinds
  <1>4. hand'[s][1] = Head(queue) /\ hand'[s][2] = (Head(queue).kind = "cancel")
    BY <1>2
  <1> QED
    BY <1>2, <1>3, <1>4 DEF UncheckedInv

(* A hand that is checked, or emptied, holds nothing unchecked. *)
LEMMA UncheckedKept ==
    ASSUME UncheckedInv,
           \A t \in Sessions : \/ hand'[t] = hand[t] \/ hand'[t] = Empty
                               \/ \E m : hand'[t] = <<m, TRUE>>
    PROVE  UncheckedInv'
  <1> SUFFICES ASSUME NEW t \in Sessions, hand'[t] # Empty, ~hand'[t][2]
               PROVE  hand'[t][1].kind = "run"
    BY DEF UncheckedInv
  <1>1. ASSUME NEW m, hand'[t] = <<m, TRUE>> PROVE FALSE
    <2>1. hand'[t][2] = TRUE
      BY <1>1
    <2> QED
      BY <2>1
  <1>2. hand'[t] = hand[t]
    BY <1>1
  <1> QED
    BY <1>2 DEF UncheckedInv

-----------------------------------------------------------------------------
(* The cancel behind a request its caller has given up.                     *)

(* A step that takes nothing from the queue that chases r, brings r no      *)
(* nearer to the device and leaves the current session's socket alone, or   *)
(* breaks it.                                                               *)
LEMMA ChaseKept ==
    ASSUME NEW r \in Requests, Chased(r),
           HasLeft(r)' => HasLeft(r), dropped \subseteq dropped', running' \subseteq running,
           Cancel(r) \in ToSet(queue) => Cancel(r) \in ToSet(queue'),
           \A s \in Sessions :
               s = session' /\ link'[s] # "broken" =>
                   /\ s = session /\ link[s] # "broken"
                   /\ hand'[s] = hand[s] /\ down'[s] = down[s]
    PROVE  Chased(r)'
  BY DEF Chased, InDown

(* A gateway that has decided to send r holds it. *)
LEMMA HeldRun == \A s, r, b : hand[s] = <<Run(r), b>> => InHand(s, r)
  <1> SUFFICES ASSUME NEW s, NEW r, NEW b, hand[s] = <<Run(r), b>> PROVE InHand(s, r)
    OBVIOUS
  <1>1. hand[s] # Empty
    BY PairNotEmpty
  <1>2. hand[s][1] = Run(r)
    BY DEF Run
  <1> QED
    BY <1>1, <1>2 DEF InHand

(* The caller's steps: it leaves when its request is back from the queue,   *)
(* or when its cancel is in the queue.                                      *)
LEMMA CallerChases ==
    ASSUME DeviceInv, NEW q \in Requests, CallerStep(q), NEW r \in Requests, Chased(r)
    PROVE  Chased(r)'
  <1>1. /\ UNCHANGED <<dropped, running, session, link, hand, down>>
        /\ TypeInv /\ OneCopy(r) /\ Spent(r) /\ Once(queue, Run(q))
    BY DEF CallerStep, Bind, Dispatch, Push, PushLands, TakeResult, GiveUp, Withdraw, PushCancel,
       Clear, RedisFails, Fault, gateways, sockets, sidecar, history, DeviceInv, CopyInv, OneCopy
  <1>2. queue \in Seq(Message) /\ Run(q) \in Message /\ Cancel(q) \in Message /\ Run(q) # Cancel(r)
    BY <1>1, MessageKinds DEF TypeInv, TypeOK, RedisOK
  <1>3. Cancel(r) \in ToSet(queue) => Cancel(r) \in ToSet(queue')
    <2>1. CASE queue' = queue
      BY <2>1
    <2>2. CASE queue' = Append(queue, Run(q)) \/ queue' = Append(queue, Cancel(q))
      <3>1. CASE queue' = Append(queue, Run(q))
        BY <1>2, <3>1, Appended
      <3>2. CASE queue' = Append(queue, Cancel(q))
        BY <1>2, <3>2, Appended
      <3> QED
        BY <2>2, <3>1, <3>2
    <2>3. CASE queue' = RemoveFirst(queue, Run(q))
      BY <1>1, <1>2, <2>3, Removed
    <2> QED
      BY <2>1, <2>2, <2>3 DEF CallerStep, Bind, Dispatch, Push, PushLands, TakeResult, GiveUp,
         Withdraw, PushCancel, Clear, RedisFails, Enqueue, CancelQueued, redis
  <1>4. CASE HasLeft(r)' => HasLeft(r)
    BY <1>1, <1>3, <1>4, ChaseKept
  <1>5. CASE HasLeft(r)' /\ ~HasLeft(r)
    <2>1. /\ dispatch = [p \in Requests |-> dispatch[p]]
          /\ answer \in [Requests -> Result \union {"none", "refused", "abandoned", "failed"}]
          /\ result \in [Requests -> Result \union {"none"}]
      BY <1>1 DEF TypeInv, TypeOK, CallersOK, RedisOK
    <2>2. r = q
      BY <1>5, <2>1 DEF HasLeft, CallerStep, Bind, Dispatch, Push, PushLands, TakeResult, GiveUp,
         Withdraw, PushCancel, Clear, RedisFails
    <2>3. ~Bind(q) /\ ~Dispatch(q) /\ ~Push(q) /\ ~PushLands(q) /\ ~TakeResult(q) /\ ~GiveUp(q)
          /\ ~Clear(q) /\ ~RedisFails(q)
      <3>1. ~Bind(q) /\ ~Push(q) /\ ~GiveUp(q)
        BY <1>5, <2>1, <2>2 DEF HasLeft, Bind, Push, GiveUp
      <3>2. ~Dispatch(q) /\ ~PushLands(q) /\ ~Clear(q)
        BY <1>5, <2>1, <2>2 DEF HasLeft, Dispatch, PushLands, Clear
      <3>3. ~TakeResult(q)
        BY <1>5, <2>1, <2>2 DEF HasLeft, TakeResult, Result
      <3>4. ~RedisFails(q)
        BY <1>5, <2>1, <2>2 DEF HasLeft, RedisFails
      <3> QED
        BY <3>1, <3>2, <3>3, <3>4
    <2>4. CASE PushCancel(q)
      <3>1. Cancel(r) \in ToSet(queue')
        BY <1>2, <2>2, <2>4, Appended DEF PushCancel, CancelQueued
      <3> QED
        BY <3>1 DEF Chased
    <2>5. CASE Withdraw(q)
      <3>1. dispatch'[q] = "clearing"
        BY <1>5, <2>1, <2>2, <2>5 DEF HasLeft, Withdraw
      <3>2. InQueue(r)
        BY <2>1, <2>2, <2>5, <3>1 DEF Withdraw, InQueue
      <3>3. r \notin running /\ \A s \in Sessions : ~Carries(s, r)
        BY <1>1, <3>2 DEF OneCopy, Spent, Nowhere
      <3>4. ASSUME NEW s \in Sessions PROVE hand'[s] # <<Run(r), TRUE>> /\ ~InDown(s, r)'
        <4>1. ~InHand(s, r) /\ ~InDown(s, r)
          BY <3>3 DEF Carries
        <4>2. hand'[s] # <<Run(r), TRUE>>
          BY <1>1, <4>1, HeldRun
        <4> QED
          BY <1>1, <4>1, <4>2 DEF InDown
      <3> QED
        BY <1>1, <3>3, <3>4 DEF Chased
    <2> QED
      BY <2>3, <2>4, <2>5 DEF CallerStep
  <1> QED
    BY <1>4, <1>5

(* The gateway takes a cancel: into the hand that delivers it, or it is     *)
(* counted as dropped.                                                      *)
LEMMA TakeRequestChases ==
    ASSUME TypeInv, NEW s \in Sessions, TakeRequest(s), NEW r \in Requests, Chased(r)
    PROVE  Chased(r)'
  <1>1. /\ UNCHANGED <<answer, dispatch, session, link, down, running>>
        /\ hand[s] = Empty /\ queue # <<>>
    BY DEF TakeRequest, callers, sockets, sidecar
  <1>2. HasLeft(r)' <=> HasLeft(r)
    BY <1>1 DEF HasLeft
  <1>3. Head(queue) \in Message /\ ToSet(queue) = {Head(queue)} \union ToSet(queue')
    BY <1>1, Taken DEF TakeRequest, TypeInv, TypeOK, RedisOK
  <1>4. /\ \A t \in Sessions : t # s => hand'[t] = hand[t]
        /\ hand'[s] = <<Head(queue), Head(queue).kind = "cancel">>
    BY DEF TakeRequest, TypeInv, TypeOK, GatewaysOK
  <1>5. /\ dropped \subseteq dropped'
        /\ Head(queue).kind = "cancel" /\ s # session => Head(queue).req \in dropped'
    BY DEF TakeRequest
  <1>6. Cancel(r).kind = "cancel" /\ Cancel(r).req = r /\ Run(r).kind = "run" /\ Run(r) # Cancel(r)
    BY MessageKinds
  <1> SUFFICES ASSUME HasLeft(r), r \notin dropped', NEW t \in Sessions, t = session,
                      link[t] # "broken", Cancel(r) \notin ToSet(queue')
               PROVE  /\ hand'[t] # <<Run(r), TRUE>>
                      /\ InDown(t, r) \/ r \in running =>
                           hand'[t] = <<Cancel(r), TRUE>> \/ Follows(down[t], Run(r), Cancel(r))
    BY <1>1, <1>2 DEF Chased, InDown
  <1>7. CASE Head(queue) = Cancel(r)
    <2>1. t = s
      BY <1>5, <1>6, <1>7
    <2>2. hand'[t] = <<Cancel(r), TRUE>>
      BY <1>4, <1>6, <1>7, <2>1
    <2> QED
      BY <1>6, <2>2
  <1>8. CASE Head(queue) # Cancel(r)
    <2>1. Cancel(r) \notin ToSet(queue) /\ r \notin dropped
      BY <1>3, <1>5, <1>8
    <2>2. /\ hand[t] # <<Run(r), TRUE>>
          /\ InDown(t, r) \/ r \in running =>
               hand[t] = <<Cancel(r), TRUE>> \/ Follows(down[t], Run(r), Cancel(r))
      BY <2>1 DEF Chased
    <2>3. CASE t # s
      BY <1>4, <2>2, <2>3
    <2>4. CASE t = s
      <3>1. hand[t] # <<Cancel(r), TRUE>>
        BY <1>1, <2>4, PairNotEmpty
      <3>2. hand'[t] # <<Run(r), TRUE>>
        <4> SUFFICES ASSUME hand'[t] = <<Run(r), TRUE>> PROVE FALSE
          OBVIOUS
        <4> DEFINE b == Head(queue).kind = "cancel"
        <4>1. <<Head(queue), b>> = <<Run(r), TRUE>>
          BY <1>4, <2>4
        <4>2. Head(queue) = Run(r) /\ b = TRUE
          BY <4>1, PairParts, Zenon
        <4> QED
          BY <1>6, <4>2
      <3> QED
        BY <2>2, <3>1, <3>2
    <2> QED
      BY <2>3, <2>4
  <1> QED
    BY <1>7, <1>8

(* The marker keeps the request from the device. *)
LEMMA CheckRequestChases ==
    ASSUME TypeInv, MarkedInv, NEW s \in Sessions, CheckRequest(s), NEW r \in Requests, Chased(r)
    PROVE  Chased(r)'
  <1>1. /\ UNCHANGED <<answer, dispatch, dropped, queue, session, link, down, running>>
        /\ hand[s] # Empty /\ ~hand[s][2]
    BY DEF CheckRequest, redis, callers, sockets, sidecar, history
  <1>2. HasLeft(r)' <=> HasLeft(r)
    BY <1>1 DEF HasLeft
  <1>3. /\ \A t \in Sessions : t # s => hand'[t] = hand[t]
        /\ hand'[s] = IF hand[s][1].req \in withdrawn THEN Empty ELSE <<hand[s][1], TRUE>>
    BY DEF CheckRequest, TypeInv, TypeOK, GatewaysOK
  <1> SUFFICES ASSUME HasLeft(r), r \notin dropped, NEW t \in Sessions, t = session,
                      link[t] # "broken", Cancel(r) \notin ToSet(queue)
               PROVE  /\ hand'[t] # <<Run(r), TRUE>>
                      /\ InDown(t, r) \/ r \in running =>
                           hand'[t] = <<Cancel(r), TRUE>> \/ Follows(down[t], Run(r), Cancel(r))
    BY <1>1, <1>2 DEF Chased, InDown
  <1>4. r \in withdrawn
    BY DEF MarkedInv, HasLeft
  <1>5. /\ hand[t] # <<Run(r), TRUE>>
        /\ InDown(t, r) \/ r \in running =>
             hand[t] = <<Cancel(r), TRUE>> \/ Follows(down[t], Run(r), Cancel(r))
    BY DEF Chased
  <1>6. CASE t # s
    BY <1>3, <1>5, <1>6
  <1>7. CASE t = s
    <2>1. hand[t] # <<Cancel(r), TRUE>>
      <3> SUFFICES ASSUME hand[t] = <<Cancel(r), TRUE>> PROVE FALSE
        OBVIOUS
      <3>1. hand[s][2] = TRUE
        <4>1. hand[s] = <<Cancel(r), TRUE>>
          BY <1>7
        <4> QED
          BY <4>1, PairParts
      <3> QED
        BY <1>1, <3>1
    <2>2. hand'[t] # <<Run(r), TRUE>>
      <3> SUFFICES ASSUME hand'[t] = <<Run(r), TRUE>> PROVE FALSE
        OBVIOUS
      <3>1. hand[s][1].req \notin withdrawn /\ hand'[s] = <<hand[s][1], TRUE>>
        <4>1. hand'[s] # Empty
          BY <1>7, PairNotEmpty, Zenon
        <4> QED
          BY <1>3, <4>1
      <3>2. hand[s][1] = Run(r)
        <4>1. <<hand[s][1], TRUE>> = <<Run(r), TRUE>>
          BY <1>7, <3>1
        <4> QED
          BY <4>1, PairParts, Zenon
      <3> QED
        BY <1>4, <3>1, <3>2, MessageKinds
    <2> QED
      BY <1>5, <2>1, <2>2
  <1> QED
    BY <1>6, <1>7

(* A cancel that is delivered is behind the request it chases. *)
LEMMA DeliverChases ==
    ASSUME TypeInv, SessionInv, NEW s \in Sessions, Deliver(s), NEW r \in Requests, Chased(r)
    PROVE  Chased(r)'
  <1>1. /\ UNCHANGED <<answer, dispatch, dropped, queue, session, link, running>>
        /\ hand[s] # Empty /\ hand[s][2] /\ link[s] # "none"
    BY DEF Deliver, redis, callers, sidecar, history, SessionInv
  <1>2. HasLeft(r)' <=> HasLeft(r)
    BY <1>1 DEF HasLeft
  <1>3. /\ \A t \in Sessions : t # s => hand'[t] = hand[t] /\ down'[t] = down[t]
        /\ hand'[s] = Empty
        /\ link[s] = "up" => down'[s] = Append(down[s], hand[s][1])
    BY DEF Deliver, TypeInv, TypeOK, GatewaysOK, SocketsOK
  <1>4. /\ hand[s][1] \in Message /\ hand[s] = <<hand[s][1], TRUE>>
        /\ down[s] \in Seq(Message) /\ link[s] \in {"none", "up", "broken"}
    <2>1. hand[s][1] \in Message /\ hand[s] = <<hand[s][1], hand[s][2]>> /\ hand[s][2] \in BOOLEAN
      BY <1>1, HandTyped
    <2>2. hand[s][2] = TRUE
      BY <1>1, <2>1
    <2> QED
      BY <2>1, <2>2 DEF TypeInv, TypeOK, SocketsOK
  <1>5. Run(r) # Cancel(r)
    BY MessageKinds
  <1> SUFFICES ASSUME HasLeft(r), r \notin dropped, NEW t \in Sessions, t = session,
                      link[t] # "broken", Cancel(r) \notin ToSet(queue)
               PROVE  /\ hand'[t] # <<Run(r), TRUE>>
                      /\ InDown(t, r)' \/ r \in running =>
                           hand'[t] = <<Cancel(r), TRUE>> \/ Follows(down'[t], Run(r), Cancel(r))
    BY <1>1, <1>2 DEF Chased, InDown
  <1>6. /\ hand[t] # <<Run(r), TRUE>>
        /\ InDown(t, r) \/ r \in running =>
             hand[t] = <<Cancel(r), TRUE>> \/ Follows(down[t], Run(r), Cancel(r))
    BY DEF Chased
  <1>7. CASE t # s
    BY <1>3, <1>6, <1>7 DEF InDown
  <1>8. CASE t = s
    <2>1. down'[t] = Append(down[t], hand[t][1]) /\ hand[t][1] # Run(r)
      BY <1>1, <1>3, <1>4, <1>6, <1>8
    <2>2. InDown(t, r)' => InDown(t, r)
      <3>1. ToSet(down'[t]) = ToSet(down[t]) \union {hand[t][1]}
        BY <1>4, <1>8, <2>1, Appended
      <3> QED
        BY <2>1, <3>1 DEF InDown
    <2>3. hand'[t] # <<Run(r), TRUE>>
      BY <1>3, <1>8, PairNotEmpty
    <2>4. CASE hand[t][1] = Cancel(r)
      <3>1. Follows(down'[t], Run(r), Cancel(r))
        BY <1>4, <1>5, <1>8, <2>1, <2>4, Appended
      <3> QED
        BY <2>3, <3>1
    <2>5. CASE hand[t][1] # Cancel(r)
      <3>1. hand[t] # <<Cancel(r), TRUE>>
        BY <2>5, PairParts, Zenon
      <3>2. Follows(down[t], Run(r), Cancel(r)) => Follows(down'[t], Run(r), Cancel(r))
        BY <1>4, <1>8, <2>1, Appended
      <3> QED
        BY <1>6, <2>2, <2>3, <3>1, <3>2
    <2> QED
      BY <2>4, <2>5
  <1> QED
    BY <1>7, <1>8

(* A deleted queue: the cancels in it are counted as dropped. *)
LEMMA DeleteSessionChases ==
    ASSUME NEW c \in Cleaners, DeleteSession(c), NEW r \in Requests, Chased(r)
    PROVE  Chased(r)'
  <1>1. /\ UNCHANGED <<answer, dispatch, session, link, hand, down, running>>
        /\ dropped' = dropped \union {p \in Requests : Cancel(p) \in ToSet(queue)}
    BY DEF DeleteSession, callers, sockets, sidecar
  <1>2. HasLeft(r)' <=> HasLeft(r)
    BY <1>1 DEF HasLeft
  <1>3. CASE Cancel(r) \in ToSet(queue)
    <2>1. r \in dropped'
      BY <1>1, <1>3
    <2> QED
      BY <2>1 DEF Chased
  <1>4. CASE Cancel(r) \notin ToSet(queue)
    BY <1>1, <1>2, <1>4, ChaseKept
  <1> QED
    BY <1>3, <1>4

(* A new session has nothing in flight. *)
LEMMA RegisterChases ==
    ASSUME TypeInv, SessionInv, Register, NEW r \in Requests
    PROVE  Chased(r)'
  <1>1. session' \in Sessions /\ session' > session
    BY BoundsAssumption DEF Register, TypeInv, TypeOK, SidecarOK, Sessions, NoSession
  <1>2. \A s \in Sessions : s = session' => hand[s] = Empty /\ down[s] = <<>>
    BY <1>1 DEF SessionInv, Untouched
  <1>3. running' = {} /\ UNCHANGED <<hand, down>>
    BY DEF Register, SessionInv, gateways, sockets
  <1>4. \A s \in Sessions : s = session' => hand'[s] # <<Run(r), TRUE>> /\ ~InDown(s, r)'
    <2>1. ToSet(<<>>) = {}
      BY DEF ToSet
    <2>2. \A s \in Sessions : s = session' => hand'[s] # <<Run(r), TRUE>>
      BY <1>2, <1>3, PairNotEmpty, Zenon
    <2> QED
      BY <1>2, <1>3, <2>1, <2>2 DEF InDown
  <1> QED
    BY <1>3, <1>4 DEF Chased

(* What the device reads: the request leaves a cancel behind it on the      *)
(* socket, and the cancel ends the run.                                     *)
LEMMA SocketReadChases ==
    ASSUME TypeInv, ReceiveRequest \/ ReceiveCancel, NEW r \in Requests, Chased(r)
    PROVE  Chased(r)'
  <1>1. /\ UNCHANGED <<answer, dispatch, dropped, queue, session, link, hand>>
        /\ session \in Sessions
        /\ \A t \in Sessions : t = session => down[t] # <<>> /\ down'[t] = Tail(down[t])
    BY DEF ReceiveRequest, ReceiveCancel, redis, callers, gateways, history, TypeInv, TypeOK,
       SideHasSession, SocketsOK
  <1>2. HasLeft(r)' <=> HasLeft(r)
    BY <1>1 DEF HasLeft
  <1> SUFFICES ASSUME HasLeft(r), r \notin dropped, NEW t \in Sessions, t = session,
                      link[t] # "broken", Cancel(r) \notin ToSet(queue)
               PROVE  /\ hand[t] # <<Run(r), TRUE>>
                      /\ InDown(t, r)' \/ r \in running' =>
                           hand[t] = <<Cancel(r), TRUE>> \/ Follows(down'[t], Run(r), Cancel(r))
    BY <1>1, <1>2 DEF Chased, InDown
  <1> DEFINE m == Head(down[t])
  <1>3. /\ m \in Message /\ ToSet(down[t]) = {m} \union ToSet(down'[t])
        /\ Follows(down[t], Run(r), Cancel(r)) /\ (m = Cancel(r) => InDown(t, r)) =>
             Follows(down'[t], Run(r), Cancel(r))
    <2>1. down[t] \in Seq(Message) /\ down[t] # <<>> /\ down'[t] = Tail(down[t])
      BY <1>1 DEF TypeInv, TypeOK, SocketsOK
    <2>2. Run(r) # Cancel(r)
      BY MessageKinds
    <2> QED
      BY <2>1, <2>2, Taken DEF InDown
  <1>4. \/ m.kind = "run" /\ (running' = running \/ running' = running \union {m.req})
        \/ m.kind = "cancel" /\ running' = running \ {m.req}
    BY DEF ReceiveRequest, ReceiveCancel
  <1> HIDE DEF m
  <1>5. m.kind = "run" => m = Run(m.req)
    BY <1>3, MessageKinds
  <1>6. Cancel(r).kind = "cancel" /\ Cancel(r).req = r
    BY MessageKinds
  <1>7. InDown(t, r)' => InDown(t, r)
    BY <1>3 DEF InDown
  <1>8. r \in running' => r \in running \/ InDown(t, r)
    BY <1>3, <1>4, <1>5 DEF InDown
  <1>9. /\ hand[t] # <<Run(r), TRUE>>
        /\ InDown(t, r) \/ r \in running =>
             hand[t] = <<Cancel(r), TRUE>> \/ Follows(down[t], Run(r), Cancel(r))
    BY DEF Chased
  <1>10. m = Cancel(r) /\ (InDown(t, r)' \/ r \in running') => InDown(t, r)
    BY <1>4, <1>6, <1>7
  <1> QED
    BY <1>3, <1>7, <1>8, <1>9, <1>10

(* A socket that is found broken has nothing to promise. *)
LEMMA BrokenChases ==
    ASSUME TypeInv, NEW r \in Requests, Chased(r),
           \/ \E s \in Sessions : DeliveryFails(s) \/ CloseGateway(s) \/ CrashGateway(s) \/ Break(s)
           \/ SyncFails \/ Disconnect
    PROVE  Chased(r)'
  <1>1. /\ UNCHANGED <<answer, dispatch, dropped, queue, session>>
        /\ running' \subseteq running
    BY DEF DeliveryFails, CloseGateway, CrashGateway, Break, SyncFails, Disconnect, Fault, redis,
       callers, sidecar, history
  <1>2. HasLeft(r)' <=> HasLeft(r)
    BY <1>1 DEF HasLeft
  <1>3. \A t \in Sessions : t = session /\ link'[t] # "broken" =>
          link[t] # "broken" /\ hand'[t] = hand[t] /\ down'[t] = down[t]
    <2>1. ASSUME NEW s \in Sessions, DeliveryFails(s) \/ CloseGateway(s) \/ CrashGateway(s)
          PROVE  \A t \in Sessions : t = session /\ link'[t] # "broken" =>
                   link[t] # "broken" /\ hand'[t] = hand[t] /\ down'[t] = down[t]
      BY <2>1 DEF DeliveryFails, CloseGateway, CrashGateway, TypeInv, TypeOK, GatewaysOK,
         SocketsOK, sockets
    <2>2. ASSUME NEW s \in Sessions, Break(s)
          PROVE  \A t \in Sessions : t = session /\ link'[t] # "broken" =>
                   link[t] # "broken" /\ hand'[t] = hand[t] /\ down'[t] = down[t]
      BY <2>2 DEF Break, TypeInv, TypeOK, SocketsOK, gateways
    <2>3. SyncFails \/ Disconnect =>
            \A t \in Sessions : t = session /\ link'[t] # "broken" =>
              link[t] # "broken" /\ hand'[t] = hand[t] /\ down'[t] = down[t]
      BY DEF SyncFails, Disconnect, TypeInv, TypeOK, SocketsOK, gateways
    <2> QED
      BY <2>1, <2>2, <2>3
  <1> QED
    BY <1>1, <1>2, <1>3, ChaseKept

(* Every step keeps the cancel behind its request. *)
LEMMA CancelNext == DeviceInv /\ CancelInv /\ [Next]_vars => CancelInv'
  <1> SUFFICES ASSUME DeviceInv, CancelInv, [Next]_vars PROVE CancelInv'
    OBVIOUS
  <1>1. /\ TypeInv /\ SessionInv /\ MarkedInv /\ AnsweredInv /\ UncheckedInv
        /\ \A r \in Requests : Chased(r)
    BY DEF DeviceInv, CancelInv
  <1>2. ASSUME NEW q \in Requests, CallerStep(q) PROVE CancelInv'
    <2>1. MarkedInv' /\ AnsweredInv'
      BY <1>1, <1>2, CallerMarks, CallerAnswers
    <2>2. hand' = hand
      BY <1>2 DEF CallerStep, Bind, Dispatch, Push, PushLands, TakeResult, GiveUp, Withdraw,
         PushCancel, Clear, RedisFails, gateways
    <2>3. \A r \in Requests : Chased(r)'
      BY <1>1, <1>2, CallerChases
    <2> QED
      BY <1>1, <2>1, <2>2, <2>3, UncheckedKept DEF CancelInv
  <1>3. ASSUME NEW s \in Sessions, GatewayStep(s) \/ Break(s) PROVE CancelInv'
    <2>1. UNCHANGED <<answer, dispatch, withdrawn>>
      BY <1>3 DEF GatewayStep, TakeRequest, CheckRequest, Deliver, DeliveryFails, ReceiveResult,
         ReadHeartbeat, WriteHeartbeat, CloseGateway, CrashGateway, Break, redis, callers
    <2>2. UncheckedInv'
      <3>1. CASE TakeRequest(s)
        BY <1>1, <3>1, TakenUnchecked
      <3>2. CASE ~TakeRequest(s)
        <4>1. \A t \in Sessions : \/ hand'[t] = hand[t] \/ hand'[t] = Empty
                                  \/ hand'[t] = <<hand[t][1], TRUE>>
          BY <1>1, <1>3, <3>2 DEF GatewayStep, CheckRequest, Deliver, DeliveryFails,
             ReceiveResult, ReadHeartbeat, WriteHeartbeat, CloseGateway, CrashGateway, Break,
             gateways, TypeInv, TypeOK, GatewaysOK
        <4> QED
          BY <1>1, <4>1, UncheckedKept
      <3> QED
        BY <3>1, <3>2
    <2>3. ASSUME NEW r \in Requests PROVE Chased(r)'
      <3>1. ReceiveResult(s) \/ ReadHeartbeat(s) \/ WriteHeartbeat(s) =>
              UNCHANGED <<answer, dispatch, dropped, running, queue, session, link, hand, down>>
        BY DEF ReceiveResult, ReadHeartbeat, WriteHeartbeat, redis, callers, gateways, sockets,
           sidecar, history
      <3>2. ReceiveResult(s) \/ ReadHeartbeat(s) \/ WriteHeartbeat(s) => Chased(r)'
        BY <1>1, <3>1, ChaseKept DEF HasLeft
      <3>3. DeliveryFails(s) \/ CloseGateway(s) \/ CrashGateway(s) \/ Break(s) => Chased(r)'
        BY <1>1, BrokenChases
      <3> QED
        BY <1>1, <1>3, <3>2, <3>3, TakeRequestChases, CheckRequestChases, DeliverChases
           DEF GatewayStep
    <2> QED
      BY <1>1, <2>1, <2>2, <2>3, MarksKept DEF CancelInv
  <1>4. ASSUME Expire \/ GoStale \/ \E c \in Cleaners : CleanerStep(c) PROVE CancelInv'
    <2>1. UNCHANGED <<answer, dispatch, withdrawn, hand>>
      BY <1>4 DEF Expire, GoStale, CleanerStep, FailRequest, DropPending, DeleteSession, redis,
         callers, gateways
    <2>2. ASSUME NEW r \in Requests PROVE Chased(r)'
      <3>1. CASE \E c \in Cleaners : DeleteSession(c)
        BY <1>1, <3>1, DeleteSessionChases
      <3>2. CASE ~\E c \in Cleaners : DeleteSession(c)
        <4>1. UNCHANGED <<dropped, running, queue, session, link, down>>
          BY <1>4, <3>2 DEF Expire, GoStale, Fault, CleanerStep, FailRequest, DropPending, redis,
             sockets, sidecar, history
        <4> QED
          BY <1>1, <2>1, <4>1, ChaseKept DEF HasLeft
      <3> QED
        BY <3>1, <3>2
    <2> QED
      BY <1>1, <2>1, <2>2, MarksKept, UncheckedKept DEF CancelInv
  <1>5. ASSUME SidecarStep PROVE CancelInv'
    <2>1. UNCHANGED <<answer, dispatch, withdrawn, hand>>
      BY <1>5 DEF SidecarStep, Register, Connect, AskSync, AskRefresh, ReadSync, WriteSync,
         Mirror, SyncFails, ReceiveRequest, ReceiveCancel, Finish, Disconnect, redis, callers,
         gateways
    <2>2. ASSUME NEW r \in Requests PROVE Chased(r)'
      <3>1. CASE Register
        BY <1>1, <3>1, RegisterChases
      <3>2. CASE Connect
        <4>1. UNCHANGED <<dropped, running, queue, session, down>>
          BY <3>2 DEF Connect, history
        <4>2. \A t \in Sessions : t = session => link[t] # "broken"
          BY <1>1, <3>2 DEF Connect, SessionInv, Untouched
        <4> QED
          BY <1>1, <2>1, <4>1, <4>2, ChaseKept DEF HasLeft
      <3>3. CASE \/ AskSync \/ AskRefresh \/ ReadSync \/ WriteSync \/ Mirror
                 \/ \E q \in Requests : Finish(q)
        <4>1. UNCHANGED <<dropped, queue, session, link, down>> /\ running' \subseteq running
          BY <3>3 DEF AskSync, AskRefresh, ReadSync, WriteSync, Mirror, Finish, redis, sockets,
             history
        <4> QED
          BY <1>1, <2>1, <4>1, ChaseKept DEF HasLeft
      <3>4. CASE SyncFails \/ Disconnect
        BY <1>1, <3>4, BrokenChases
      <3>5. CASE ReceiveRequest \/ ReceiveCancel
        BY <1>1, <3>5, SocketReadChases
      <3> QED
        BY <1>5, <3>1, <3>2, <3>3, <3>4, <3>5 DEF SidecarStep
    <2> QED
      BY <1>1, <2>1, <2>2, MarksKept, UncheckedKept DEF CancelInv
  <1>6. CASE UNCHANGED vars
    <2>1. UNCHANGED <<answer, dispatch, withdrawn, hand, dropped, running, queue, session, link,
                      down>>
      BY <1>6 DEF vars, redis, callers, gateways, sockets, sidecar, history
    <2>2. \A r \in Requests : Chased(r)'
      BY <1>1, <2>1, ChaseKept DEF HasLeft
    <2> QED
      BY <1>1, <2>1, <2>2, MarksKept, UncheckedKept DEF CancelInv
  <1> QED
    BY <1>2, <1>3, <1>4, <1>5, <1>6 DEF Next

(* In every reachable state the cancels are where they must be. *)
LEMMA CancelInvariance == Spec => [](DeviceInv /\ CancelInv)
  <1>1. Init => CancelInv
    BY DEF Init, CancelInv, MarkedInv, AnsweredInv, UncheckedInv, Chased, HasLeft
  <1> QED
    BY <1>1, DeviceInit, DeviceNext, CancelNext, PTL DEF Spec

(* _withdraw and the gateway: while the device runs a call whose dispatch   *)
(* is over, either the caller was told "maybe" or that Redis failed, or it  *)
(* has given up; and then its cancel is queued, held by a gateway or on a   *)
(* socket, or it went with an ended session or to a gateway of an older     *)
(* one, or the socket is broken, and the sidecar will end the run when it   *)
(* finds out.                                                               *)
THEOREM CancelIsBehind == Spec => []CancelFollows
  <1>1. ASSUME DeviceInv, CancelInv PROVE CancelFollows
    <2> SUFFICES ASSUME NEW r \in running, Closed(r), r \notin dropped,
                        Cancel(r) \notin ToSet(queue), link[session] # "broken"
                 PROVE  Held(Cancel(r))
      BY DEF CancelFollows
    <2>1. r \in Requests /\ session \in Sessions
      BY <1>1 DEF DeviceInv, TypeInv, TypeOK, SidecarOK, SideHasSession, SessionInv
    <2>2. answer[r] = "abandoned"
      <3>1. answer[r] \in Result \union {"none", "refused", "abandoned", "failed"}
        BY <1>1, <2>1 DEF DeviceInv, TypeInv, TypeOK, CallersOK
      <3>2. answer[r] # "none"
        BY <1>1, <2>1 DEF CancelInv, AnsweredInv, Closed
      <3>3. NotSent(r) /\ Spent(r)
        BY <1>1, <2>1 DEF DeviceInv, CopyInv
      <3>4. answer[r] \notin {"rejected", "refused", "ran"}
        BY <3>3 DEF NotSent, Spent, Says
      <3> QED
        BY <3>1, <3>2, <3>4 DEF Closed, Result
    <2>3. HasLeft(r) /\ Chased(r)
      BY <1>1, <2>1, <2>2 DEF CancelInv, Closed, HasLeft
    <2>4. hand[session] = <<Cancel(r), TRUE>> \/ Follows(down[session], Run(r), Cancel(r))
      BY <2>1, <2>3 DEF Chased
    <2>5. CASE hand[session] = <<Cancel(r), TRUE>>
      <3>1. hand[session] # Empty /\ hand[session][1] = Cancel(r)
        BY <2>5, PairNotEmpty, PairParts
      <3> QED
        BY <2>1, <3>1 DEF Held
    <2>6. CASE Follows(down[session], Run(r), Cancel(r))
      <3>1. Cancel(r) \in ToSet(down[session])
        BY <2>6 DEF Follows, ToSet
      <3> QED
        BY <2>1, <3>1 DEF Held
    <2> QED
      BY <2>4, <2>5, <2>6
  <1> QED
    BY <1>1, CancelInvariance, PTL

(* get_next_request and the withdrawn marker: a call whose caller has given *)
(* up, and that no gateway had decided to send, is not sent and not started *)
(* by any later step, not even by one that pushes it to the queue late.     *)
THEOREM WithdrawnIsFinal == Spec => WithdrawnStaysOff
  <1> DEFINE Off(r) == GaveUp(r) /\ r \notin started /\ ~Committed(r)
             Stays == \A r \in Requests : Off(r) => r \notin started' /\ ~Committed(r)'
  <1>1. ASSUME DeviceInv, CancelInv, [Next]_vars PROVE Stays
    <2> SUFFICES ASSUME NEW r \in Requests, GaveUp(r), r \notin started, ~Committed(r)
                 PROVE  r \notin started' /\ ~Committed(r)'
      OBVIOUS
    <2>1. TypeInv /\ r \in withdrawn
      BY <1>1 DEF DeviceInv, CancelInv, MarkedInv, GaveUp
    <2>2. \A s \in Sessions : hand[s] # <<Run(r), TRUE>> /\ Run(r) \notin ToSet(down[s])
      BY DEF Committed
    <2>3. CASE UNCHANGED <<started, hand, down>>
      BY <2>2, <2>3 DEF Committed
    <2>4. ASSUME NEW s \in Sessions, TakeRequest(s) PROVE r \notin started' /\ ~Committed(r)'
      <3>1. /\ UNCHANGED <<started, down>>
            /\ \A t \in Sessions : t # s => hand'[t] = hand[t]
            /\ hand'[s] = <<Head(queue), Head(queue).kind = "cancel">>
        BY <2>1, <2>4 DEF TakeRequest, sockets, TypeInv, TypeOK, GatewaysOK
      <3>2. hand'[s] # <<Run(r), TRUE>>
        <4> SUFFICES ASSUME hand'[s] = <<Run(r), TRUE>> PROVE FALSE
          OBVIOUS
        <4> DEFINE b == Head(queue).kind = "cancel"
        <4>1. <<Head(queue), b>> = <<Run(r), TRUE>>
          BY <3>1
        <4>2. Head(queue) = Run(r) /\ b = TRUE
          BY <4>1, PairParts, Zenon
        <4> QED
          BY <4>2, MessageKinds
      <3> QED
        BY <2>2, <3>1, <3>2 DEF Committed
    <2>5. ASSUME NEW s \in Sessions, CheckRequest(s) PROVE r \notin started' /\ ~Committed(r)'
      <3>1. /\ UNCHANGED <<started, down>>
            /\ \A t \in Sessions : t # s => hand'[t] = hand[t]
            /\ hand'[s] = IF hand[s][1].req \in withdrawn THEN Empty ELSE <<hand[s][1], TRUE>>
        BY <2>1, <2>5 DEF CheckRequest, sockets, history, TypeInv, TypeOK, GatewaysOK
      <3>2. hand'[s] # <<Run(r), TRUE>>
        <4>1. CASE hand[s][1].req \in withdrawn
          <5>1. hand'[s] = Empty
            BY <3>1, <4>1
          <5> QED
            BY <5>1, PairNotEmpty
        <4>2. CASE hand[s][1].req \notin withdrawn
          <5>1. hand[s][1] # Run(r)
            BY <2>1, <4>2, MessageKinds
          <5>2. hand'[s] = <<hand[s][1], TRUE>>
            BY <3>1, <4>2
          <5> QED
            BY <5>1, <5>2, PairParts, Zenon
        <4> QED
          BY <4>1, <4>2
      <3> QED
        BY <2>2, <3>1, <3>2 DEF Committed
    <2>6. ASSUME NEW s \in Sessions, Deliver(s) PROVE r \notin started' /\ ~Committed(r)'
      <3>1. /\ UNCHANGED started /\ hand[s] # Empty /\ hand[s][2] /\ down[s] \in Seq(Message)
            /\ \A t \in Sessions : t # s => hand'[t] = hand[t] /\ down'[t] = down[t]
            /\ hand'[s] = Empty
            /\ down'[s] = down[s] \/ down'[s] = Append(down[s], hand[s][1])
        BY <2>1, <2>6 DEF Deliver, history, TypeInv, TypeOK, GatewaysOK, SocketsOK
      <3>2. hand[s][1] \in Message /\ hand[s][1] # Run(r)
        <4>1. /\ hand[s][1] \in Message /\ hand[s] = <<hand[s][1], hand[s][2]>>
              /\ hand[s][2] \in BOOLEAN
          BY <2>1, <3>1, HandTyped
        <4>2. hand[s][2] = TRUE
          BY <3>1, <4>1
        <4> QED
          BY <2>2, <4>1, <4>2
      <3>3. Run(r) \notin ToSet(down'[s])
        <4>1. CASE down'[s] = Append(down[s], hand[s][1])
          <5>1. ToSet(down'[s]) = ToSet(down[s]) \union {hand[s][1]}
            BY <3>1, <3>2, <4>1, Appended
          <5> QED
            BY <2>2, <3>2, <5>1
        <4> QED
          BY <2>2, <3>1, <4>1
      <3>4. hand'[s] # <<Run(r), TRUE>>
        BY <3>1, PairNotEmpty
      <3> QED
        BY <2>2, <3>1, <3>3, <3>4 DEF Committed
    <2>7. ASSUME ReceiveRequest \/ ReceiveCancel PROVE r \notin started' /\ ~Committed(r)'
      <3>1. /\ UNCHANGED hand /\ session \in Sessions
            /\ \A t \in Sessions : t = session => down[t] # <<>> /\ down'[t] = Tail(down[t])
            /\ \A t \in Sessions : t # session => down'[t] = down[t]
        BY <2>1, <2>7 DEF ReceiveRequest, ReceiveCancel, gateways, TypeInv, TypeOK, SideHasSession,
                          SocketsOK
      <3>2. ASSUME NEW t \in Sessions, t = session
            PROVE  /\ Head(down[t]) \in Message
                   /\ ToSet(down[t]) = {Head(down[t])} \union ToSet(down'[t])
        <4>1. down[t] \in Seq(Message) /\ down[t] # <<>> /\ down'[t] = Tail(down[t])
          BY <2>1, <3>1, <3>2 DEF TypeInv, TypeOK, SocketsOK
        <4> QED
          BY <4>1, Taken
      <3>3. \A t \in Sessions : Run(r) \notin ToSet(down'[t])
        BY <2>2, <3>1, <3>2
      <3>4. r \notin started'
        <4>1. \/ UNCHANGED started
              \/ /\ started' = started \union {Head(down[session]).req}
                 /\ Head(down[session]).kind = "run"
          BY <2>7 DEF ReceiveRequest, ReceiveCancel, history
        <4>2. Head(down[session]) # Run(r) /\ Head(down[session]) \in Message
          BY <2>2, <3>1, <3>2
        <4>3. Head(down[session]).kind = "run" => Head(down[session]).req # r
          BY <4>2, MessageKinds
        <4> QED
          BY <4>1, <4>3
      <3> QED
        BY <2>2, <3>1, <3>3, <3>4 DEF Committed
    <2>8. ASSUME UNCHANGED started, \A t \in Sessions : hand'[t] = hand[t] \/ hand'[t] = Empty,
                 \A t \in Sessions : down'[t] = down[t] \/ down'[t] = <<>>
          PROVE  r \notin started' /\ ~Committed(r)'
      <3>1. ToSet(<<>>) = {}
        BY DEF ToSet
      <3> QED
        BY <2>2, <2>8, <3>1, PairNotEmpty DEF Committed
    <2>9. ASSUME NEW s \in Sessions, GatewayStep(s) \/ Break(s)
          PROVE  r \notin started' /\ ~Committed(r)'
      <3>1. ~TakeRequest(s) /\ ~CheckRequest(s) /\ ~Deliver(s) =>
              /\ UNCHANGED <<started, down>>
              /\ \A t \in Sessions : hand'[t] = hand[t] \/ hand'[t] = Empty
        BY <2>1, <2>9 DEF GatewayStep, DeliveryFails, ReceiveResult, ReadHeartbeat,
           WriteHeartbeat, CloseGateway, CrashGateway, Break, Fault, gateways, sockets, history,
           TypeInv, TypeOK, GatewaysOK
      <3>2. CASE ~TakeRequest(s) /\ ~CheckRequest(s) /\ ~Deliver(s)
        BY <2>8, <3>1, <3>2
      <3> QED
        BY <2>4, <2>5, <2>6, <3>2
    <2>10. ASSUME SidecarStep PROVE r \notin started' /\ ~Committed(r)'
      <3>1. SidecarStep => \/ ReceiveRequest \/ ReceiveCancel
                           \/ /\ UNCHANGED <<started, hand>>
                              /\ \A t \in Sessions : down'[t] = down[t] \/ down'[t] = <<>>
        BY <2>1 DEF SidecarStep, Register, Connect, AskSync, AskRefresh, ReadSync, WriteSync,
           Mirror, SyncFails, Finish, Disconnect, Fault, gateways, sockets, history, TypeInv,
           TypeOK, SocketsOK
      <3> QED
        BY <2>7, <2>8, <2>10, <3>1
    <2>11. ASSUME \E q \in Requests : CallerStep(q) PROVE UNCHANGED <<started, hand, down>>
      BY <2>11 DEF CallerStep, Bind, Dispatch, Push, PushLands, TakeResult, GiveUp, Withdraw,
         PushCancel, Clear, RedisFails, Fault, gateways, sockets, history
    <2>12. ASSUME Expire \/ GoStale \/ \E c \in Cleaners : CleanerStep(c)
           PROVE  UNCHANGED <<started, hand, down>>
      BY <2>12 DEF Expire, GoStale, Fault, CleanerStep, FailRequest, DropPending, DeleteSession,
         gateways, sockets, history
    <2>13. ASSUME UNCHANGED vars PROVE UNCHANGED <<started, hand, down>>
      BY <2>13 DEF vars, gateways, sockets, history
    <2> QED
      BY <1>1, <2>3, <2>9, <2>10, <2>11, <2>12, <2>13 DEF Next
  <1>2. DeviceInv /\ CancelInv /\ [Next]_vars => [Stays]_vars
    BY <1>1
  <1> HIDE DEF Stays
  <1>3. Spec => [][Stays]_vars
    BY <1>2, CancelInvariance, PTL DEF Spec
  <1> QED
    BY <1>3 DEF WithdrawnStaysOff, Stays
=============================================================================
