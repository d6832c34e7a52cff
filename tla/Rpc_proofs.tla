----------------------------- MODULE Rpc_proofs -----------------------------
(***************************************************************************)
(* Proofs about Rpc, for any boxes, threads, pools, gateways and groups.   *)
(***************************************************************************)
EXTENDS Rpc, WellFoundedInduction, SequenceTheorems, TLAPS

----------------------------------------------------------------------------
\* Queues of distinct slots.

Distinct(q) == \A i, j \in 1 .. Len(q) : q[i] = q[j] => i = j

LEMMA RangeIs ==
  ASSUME NEW S, NEW q \in Seq(S)
  PROVE  Range(q) = {q[i] : i \in 1 .. Len(q)} /\ Range(q) \subseteq S
  BY DEF Range

LEMMA AppendRange ==
  ASSUME NEW S, NEW q \in Seq(S), NEW x \in S
  PROVE  /\ Append(q, x) \in Seq(S)
         /\ Range(Append(q, x)) = Range(q) \cup {x}
         /\ Distinct(q) /\ x \notin Range(q) => Distinct(Append(q, x))
<1> DEFINE r == Append(q, x)
<1>1. /\ r \in Seq(S) /\ Len(r) = Len(q) + 1 /\ Len(q) \in Nat /\ r[Len(q) + 1] = x
      /\ \A i \in 1 .. Len(q) : r[i] = q[i]
  BY AppendProperties
<1> HIDE DEF r
<1>2. Range(q) = {q[i] : i \in 1 .. Len(q)} /\ Range(r) = {r[i] : i \in 1 .. Len(r)}
  BY <1>1, RangeIs
<1>3. \A y : y \in Range(r) <=> y \in Range(q) \cup {x}
  <2>1. TAKE y
  <2>2. ASSUME y \in Range(r) PROVE y \in Range(q) \cup {x}
    <3>1. PICK i \in 1 .. Len(r) : y = r[i]
      BY <1>2, <2>2
    <3>2. i \in 1 .. Len(q) \/ i = Len(q) + 1
      BY <1>1
    <3>3. QED
      BY <1>1, <1>2, <3>1, <3>2
  <2>3. ASSUME y \in Range(q) \cup {x} PROVE y \in Range(r)
    <3>1. CASE y = x
      <4>1. Len(q) + 1 \in 1 .. Len(r)
        BY <1>1
      <4>2. QED
        BY <1>1, <1>2, <3>1, <4>1
    <3>2. CASE y \in Range(q)
      <4>1. PICK i \in 1 .. Len(q) : y = q[i]
        BY <1>2, <3>2
      <4>2. i \in 1 .. Len(r) /\ r[i] = y
        BY <1>1, <4>1
      <4>3. QED
        BY <1>2, <4>2
    <3>3. QED
      BY <2>3, <3>1, <3>2
  <2>4. QED
    BY <2>2, <2>3
<1>4. ASSUME Distinct(q), x \notin Range(q) PROVE Distinct(r)
  <2> SUFFICES ASSUME NEW i \in 1 .. Len(r), NEW j \in 1 .. Len(r), r[i] = r[j] PROVE i = j
    BY DEF Distinct
  <2>1. \A k \in 1 .. Len(r) : k \in 1 .. Len(q) \/ k = Len(q) + 1
    BY <1>1
  <2>2. \A k \in 1 .. Len(q) : r[k] # x
    BY <1>1, <1>2, <1>4
  <2>3. QED
    BY <1>1, <1>4, <2>1, <2>2 DEF Distinct
<1>5. QED
  BY <1>1, <1>3, <1>4 DEF r

LEMMA TailRange ==
  ASSUME NEW S, NEW q \in Seq(S), q # <<>>
  PROVE  /\ Head(q) \in S /\ Tail(q) \in Seq(S)
         /\ Range(q) = Range(Tail(q)) \cup {Head(q)}
         /\ Distinct(q) => Distinct(Tail(q)) /\ Head(q) \notin Range(Tail(q))
<1> DEFINE r == Tail(q)
           h == Head(q)
<1>1. /\ Len(q) \in Nat \ {0} /\ h = q[1] /\ h \in S /\ r \in Seq(S) /\ Len(r) = Len(q) - 1
      /\ \A i \in 1 .. Len(r) : r[i] = q[i + 1]
  BY HeadTailProperties, EmptySeq
<1> HIDE DEF r, h
<1>2. Range(q) = {q[i] : i \in 1 .. Len(q)} /\ Range(r) = {r[i] : i \in 1 .. Len(r)}
  BY <1>1, RangeIs
<1>3. \A y : y \in Range(q) <=> y \in Range(r) \cup {h}
  <2>1. TAKE y
  <2>2. ASSUME y \in Range(q) PROVE y \in Range(r) \cup {h}
    <3>1. PICK i \in 1 .. Len(q) : y = q[i]
      BY <1>2, <2>2
    <3>2. CASE i = 1
      BY <1>1, <3>1, <3>2
    <3>3. CASE i # 1
      <4>1. i - 1 \in 1 .. Len(r) /\ (i - 1) + 1 = i
        BY <1>1, <3>3
      <4>2. r[i - 1] = q[i]
        BY <1>1, <4>1
      <4>3. QED
        BY <1>2, <3>1, <4>1, <4>2
    <3>4. QED
      BY <3>2, <3>3
  <2>3. ASSUME y \in Range(r) \cup {h} PROVE y \in Range(q)
    <3>1. CASE y = h
      <4>1. 1 \in 1 .. Len(q)
        BY <1>1
      <4>2. QED
        BY <1>1, <1>2, <3>1, <4>1
    <3>2. CASE y \in Range(r)
      <4>1. PICK i \in 1 .. Len(r) : y = r[i]
        BY <1>2, <3>2
      <4>2. i + 1 \in 1 .. Len(q) /\ r[i] = q[i + 1]
        BY <1>1
      <4>3. QED
        BY <1>2, <4>1, <4>2
    <3>3. QED
      BY <2>3, <3>1, <3>2
  <2>4. QED
    BY <2>2, <2>3
<1>4. ASSUME Distinct(q) PROVE Distinct(r) /\ h \notin Range(r)
  <2>1. ASSUME NEW i \in 1 .. Len(r), NEW j \in 1 .. Len(r), r[i] = r[j] PROVE i = j
    <3>1. i + 1 \in 1 .. Len(q) /\ j + 1 \in 1 .. Len(q) /\ q[i + 1] = q[j + 1]
      BY <1>1, <2>1
    <3>2. i + 1 = j + 1
      BY <1>4, <3>1 DEF Distinct
    <3>3. QED
      BY <3>2
  <2>2. ASSUME NEW i \in 1 .. Len(r), h = r[i] PROVE FALSE
    <3>1. i + 1 \in 1 .. Len(q) /\ 1 \in 1 .. Len(q) /\ q[i + 1] = q[1]
      BY <1>1, <2>2
    <3>2. i + 1 = 1
      BY <1>4, <3>1 DEF Distinct
    <3>3. QED
      BY <3>2
  <2>3. QED
    BY <1>2, <2>1, <2>2 DEF Distinct
<1>5. QED
  BY <1>1, <1>3, <1>4 DEF r, h

LEMMA PrependRange ==
  ASSUME NEW S, NEW q \in Seq(S), NEW x \in S
  PROVE  /\ <<x>> \o q \in Seq(S)
         /\ Range(<<x>> \o q) = Range(q) \cup {x}
         /\ Distinct(q) /\ x \notin Range(q) => Distinct(<<x>> \o q)
<1> DEFINE r == <<x>> \o q
<1>1. /\ r \in Seq(S) /\ Len(r) = Len(q) + 1 /\ Len(q) \in Nat /\ r[1] = x
      /\ \A i \in 2 .. Len(r) : r[i] = q[i - 1]
  <2>1. <<x>> \in Seq(S) /\ Len(<<x>>) = 1 /\ <<x>>[1] = x
    OBVIOUS
  <2>2. QED
    BY <2>1, ConcatProperties
<1> HIDE DEF r
<1>2. Range(q) = {q[i] : i \in 1 .. Len(q)} /\ Range(r) = {r[i] : i \in 1 .. Len(r)}
  BY <1>1, RangeIs
<1>2a. \A k \in 1 .. Len(r) : k = 1 \/ (k \in 2 .. Len(r) /\ k - 1 \in 1 .. Len(q))
  BY <1>1
<1>3. \A y : y \in Range(r) <=> y \in Range(q) \cup {x}
  <2>1. TAKE y
  <2>2. ASSUME y \in Range(r) PROVE y \in Range(q) \cup {x}
    <3>1. PICK i \in 1 .. Len(r) : y = r[i]
      BY <1>2, <2>2
    <3>2. QED
      BY <1>1, <1>2, <1>2a, <3>1
  <2>3. ASSUME y \in Range(q) \cup {x} PROVE y \in Range(r)
    <3>1. CASE y = x
      <4>1. 1 \in 1 .. Len(r)
        BY <1>1
      <4>2. QED
        BY <1>1, <1>2, <3>1, <4>1
    <3>2. CASE y \in Range(q)
      <4>1. PICK i \in 1 .. Len(q) : y = q[i]
        BY <1>2, <3>2
      <4>2. i + 1 \in 2 .. Len(r) /\ i + 1 \in 1 .. Len(r) /\ (i + 1) - 1 = i
        BY <1>1
      <4>3. r[i + 1] = y
        BY <1>1, <4>1, <4>2
      <4>4. QED
        BY <1>2, <4>2, <4>3
    <3>3. QED
      BY <2>3, <3>1, <3>2
  <2>4. QED
    BY <2>2, <2>3
<1>4. ASSUME Distinct(q), x \notin Range(q) PROVE Distinct(r)
  <2> SUFFICES ASSUME NEW i \in 1 .. Len(r), NEW j \in 1 .. Len(r), r[i] = r[j] PROVE i = j
    BY DEF Distinct
  <2>1. \A k \in 2 .. Len(r) : k - 1 \in 1 .. Len(q) /\ r[k] = q[k - 1] /\ r[k] # x
    BY <1>1, <1>2, <1>4
  <2>2. CASE i = 1 \/ j = 1
    BY <1>1, <1>2a, <2>1, <2>2
  <2>3. CASE i # 1 /\ j # 1
    <3>1. i - 1 \in 1 .. Len(q) /\ j - 1 \in 1 .. Len(q) /\ q[i - 1] = q[j - 1]
      BY <1>2a, <2>1, <2>3
    <3>2. i - 1 = j - 1
      BY <1>4, <3>1 DEF Distinct
    <3>3. QED
      BY <3>2
  <2>4. QED
    BY <2>2, <2>3
<1>5. QED
  BY <1>1, <1>3, <1>4 DEF r

----------------------------------------------------------------------------
\* Types.

CallJobs == [call : {"call"}, gateway : Gateways, sync : BOOLEAN, slot : OutSlots \cup {NONE},
             arg : ArgType, ret : ArgType]
ServeJobs == [call : {"serve"}, fns : Groups, group : 0 .. NumGroups, fresh : BOOLEAN,
              slot : In!Slots \cup {NONE}]

\* What a thread executes fits where it is.
JobsFit ==
  \A t \in Threads :
    /\ pc[t] \in {"alloc", "send", "pend", "free"} => job[t] \in CallJobs
    /\ pc[t] \in {"send", "pend", "free"} => job[t].slot \in OutSlots
    /\ pc[t] \in {"group", "list", "find", "take", "run", "done", "wait"} => job[t] \in ServeJobs
    /\ pc[t] \in {"take", "run", "done"} => job[t].slot \in In!Slots

\* A cookie that a box was given names a slot that has been used.
CookiesFit ==
  /\ \A b \in Boxes : \A c \in cookies[b] :
       c.slot \in OutSlots /\ c.counter \in 1 .. counter[b] /\ out[b][c.slot].gateway \in Gateways
  /\ \A t \in Threads : pc[t] = "send" =>
       LET b == BoxOf[t]
           m == out[b][job[t].slot]
       IN  /\ m.gateway \in Gateways
           /\ m.match.slot = job[t].slot /\ m.match.counter \in 1 .. counter[b]

TypeInv ==
  /\ TypeOK
  /\ counter \in [Boxes -> Nat]
  /\ \A b \in Boxes : Len(groups[b]) <= NumGroups
  /\ drain.phase # "none" => drain.box \in Boxes
  /\ JobsFit
  /\ CookiesFit

LEMMA BytesOf ==
  /\ In!INVALID \in In!Bytes /\ In!FREE \in In!Bytes /\ In!DEQUEUED \in In!Bytes
  /\ \A s \in In!Slots : s \in In!Bytes /\ s # In!INVALID
  /\ \A n \in In!Bytes : (n + 1) % 256 \in In!Bytes /\ (n - 1) % 256 \in In!Bytes
<1>1. \A n \in 0 .. 255 : (n + 1) % 256 \in 0 .. 255 /\ (n - 1) % 256 \in 0 .. 255
  OBVIOUS
<1>2. QED
  BY <1>1, RpcAssumption DEF In!INVALID, In!FREE, In!DEQUEUED, In!Bytes, In!Slots

\* The operations of the pool keep its type, whatever the slots and the links.
LEMMA PoolTypes ==
  ASSUME NEW m \in In!Memory, NEW q \in {"todo", "done"}, NEW s \in In!Slots
  PROVE  /\ In!pool_queue_init \in In!Memory
         /\ m.first_free \in In!Slots => In!pool_alloc(m) \in In!Memory
         /\ In!enqueue(m, q, s) \in In!Memory
         /\ In!dequeue(m, q, s) \in In!Memory
         /\ In!pool_free(m, s) \in In!Memory
<1>1. /\ m.first_free \in In!Bytes /\ m.num_allocated \in In!Bytes
      /\ m.next \in [In!Slots -> In!Bytes] /\ m.prev \in [In!Slots -> In!Bytes]
      /\ m.head \in [{"todo", "done"} -> In!Bytes] /\ m.tail \in [{"todo", "done"} -> In!Bytes]
  BY DEF In!Memory
<1>2. In!pool_queue_init \in In!Memory
  <2>1. \A k \in In!Slots : (IF k = NumIn - 1 THEN In!INVALID ELSE k + 1) \in In!Bytes
    BY RpcAssumption, BytesOf DEF In!Slots, In!Bytes
  <2>2. 0 \in In!Bytes
    BY DEF In!Bytes
  <2>3. QED
    BY <2>1, <2>2, BytesOf DEF In!pool_queue_init, In!Memory
<1>3. m.first_free \in In!Slots => In!pool_alloc(m) \in In!Memory
  BY <1>1, BytesOf, ZenonT(60) DEF In!pool_alloc, In!Memory
<1>4. In!enqueue(m, q, s) \in In!Memory
  BY <1>1, BytesOf, ZenonT(60) DEF In!enqueue, In!Memory
<1>5. In!dequeue(m, q, s) \in In!Memory
  BY <1>1, BytesOf, ZenonT(60) DEF In!dequeue, In!Memory
<1>6. In!pool_free(m, s) \in In!Memory
  BY <1>1, BytesOf, ZenonT(60) DEF In!pool_free, In!Memory
<1>7. QED
  BY <1>2, <1>3, <1>4, <1>5, <1>6

\* A slot of a pool is rewritten.
LEMMA Rewritten ==
  ASSUME NEW A, NEW B, NEW T, NEW f \in [A -> [B -> T]], NEW a \in A, NEW b \in B, NEW x \in T
  PROVE  /\ [f EXCEPT ![a][b] = x] \in [A -> [B -> T]]
         /\ [f EXCEPT ![a][b] = x][a][b] = x
         /\ \A c \in A, d \in B : c # a \/ d # b => [f EXCEPT ![a][b] = x][c][d] = f[c][d]
  OBVIOUS

LEMMA JobKinds ==
  /\ NoJob \in JobType /\ CallJobs \subseteq JobType /\ ServeJobs \subseteq JobType
  BY DEF JobType, CallJobs, ServeJobs

LEMMA NoneIsNoSlot == NONE \notin OutSlots /\ OutSlots \subseteq Nat
  BY RpcAssumption DEF NONE, OutSlots

LEMMA TypeInit == Init => TypeInv
<1> SUFFICES ASSUME Init PROVE TypeInv
  OBVIOUS
<1>1. NullCookie \in CookieType /\ NoCall \in ArgType /\ NoGateway \in GatewayType
  BY DEF NullCookie, Cookie, CookieType, Counters, NONE, ArgType, GatewayType
<1>2. NoOut \in OutType /\ NoIn \in InType
  BY <1>1 DEF NoOut, NoIn, OutType, InType
<1>3. outpool \in [Boxes -> [free : Seq(OutSlots), queue : Seq(OutSlots)]]
  <2>1. [s \in OutSlots |-> s] \in Seq(OutSlots)
    BY RpcAssumption DEF OutSlots
  <2>2. <<>> \in Seq(OutSlots)
    OBVIOUS
  <2>3. QED
    BY <2>1, <2>2 DEF Init
<1>4. inpool \in [Boxes -> In!Memory]
  <2>1. In!pool_queue_init \in In!Memory
    <3>1. \A k \in In!Slots : (IF k = NumIn - 1 THEN In!INVALID ELSE k + 1) \in In!Bytes
      BY RpcAssumption, BytesOf DEF In!Slots, In!Bytes
    <3>2. 0 \in In!Bytes
      BY DEF In!Bytes
    <3>3. QED
      BY <3>1, <3>2, BytesOf DEF In!pool_queue_init, In!Memory
  <2>2. QED
    BY <2>1 DEF Init
<1>5. out \in [Boxes -> [OutSlots -> OutType]] /\ in \in [Boxes -> [In!Slots -> InType]]
  BY <1>2 DEF Init
<1>6. drain \in [box : Boxes \cup {NONE}, phase : {"none", "messages", "results"},
                 first : OutSlots \cup {NONE}, tick : BOOLEAN,
                 held : SUBSET (Boxes \X {"out", "in", "groups"})] /\ drain.phase = "none"
  BY DEF Init, Idle
<1>7. groups \in [Boxes -> Seq([fns : Groups, sem : 0 .. 1, listed : BOOLEAN])]
      /\ \A b \in Boxes : Len(groups[b]) <= NumGroups
  BY RpcAssumption DEF Init
<1>8. /\ counter \in [Boxes -> Nat] /\ counter \in [Boxes -> Counters]
      /\ cookies \in [Boxes -> SUBSET CookieType] /\ \A b \in Boxes : cookies[b] = {}
      /\ pc \in [Threads -> Places] /\ \A t \in Threads : pc[t] = "idle"
      /\ job \in [Threads -> JobType]
  BY JobKinds DEF Init, Counters, Places
<1>9. DOMAIN ran = Boxes /\ \A b \in Boxes : ran[b] \in [1 .. 2 * MaxCalls[b] -> Nat]
  BY DEF Init
<1>10. JobsFit /\ CookiesFit
  BY <1>8 DEF JobsFit, CookiesFit
<1>11. TypeOK
  BY <1>3, <1>4, <1>5, <1>6, <1>7, <1>8, <1>9 DEF TypeOK
<1>12. QED
  BY <1>6, <1>7, <1>8, <1>10, <1>11 DEF TypeInv

\* A thread that goes elsewhere with a job that fits there, and cookies and
\* outgoing messages as they were.
LEMMA GoesOnType ==
  ASSUME TypeInv, NEW t \in Threads, NEW from, NEW to \in Places, GoTo(t, from, to),
         NEW j \in JobType, job' = [job EXCEPT ![t] = j],
         to \in {"alloc", "send", "pend", "free"} => j \in CallJobs,
         to \in {"send", "pend", "free"} => j.slot \in OutSlots,
         to \in {"group", "list", "find", "take", "run", "done", "wait"} => j \in ServeJobs,
         to \in {"take", "run", "done"} => j.slot \in In!Slots
  PROVE  /\ pc' \in [Threads -> Places] /\ job' \in [Threads -> JobType] /\ JobsFit'
         /\ to # "send" /\ UNCHANGED <<out, counter, cookies>> => CookiesFit'
<1>1. /\ pc \in [Threads -> Places] /\ job \in [Threads -> JobType] /\ pc' = [pc EXCEPT ![t] = to]
  BY DEF TypeInv, TypeOK, GoTo
<1>2. pc' \in [Threads -> Places] /\ job' \in [Threads -> JobType]
  BY <1>1
<1>3. pc'[t] = to /\ job'[t] = j /\ \A u \in Threads : u # t => pc'[u] = pc[u] /\ job'[u] = job[u]
  BY <1>1
<1>4. JobsFit'
  <2> SUFFICES ASSUME NEW u \in Threads
               PROVE  /\ pc'[u] \in {"alloc", "send", "pend", "free"} => job'[u] \in CallJobs
                      /\ pc'[u] \in {"send", "pend", "free"} => job'[u].slot \in OutSlots
                      /\ pc'[u] \in {"group", "list", "find", "take", "run", "done", "wait"} => job'[u] \in ServeJobs
                      /\ pc'[u] \in {"take", "run", "done"} => job'[u].slot \in In!Slots
    BY DEF JobsFit
  <2>1. CASE u = t
    BY <1>3, <2>1
  <2>2. CASE u # t
    BY <1>3, <2>2 DEF TypeInv, JobsFit
  <2>3. QED
    BY <2>1, <2>2
<1>5. ASSUME to # "send", UNCHANGED <<out, counter, cookies>> PROVE CookiesFit'
  <2>1. CookiesFit
    BY DEF TypeInv
  <2>2. \A u \in Threads : pc'[u] = "send" => pc[u] = "send" /\ job'[u] = job[u]
    BY <1>3, <1>5
  <2>3. QED
    BY <1>5, <2>1, <2>2 DEF CookiesFit
<1>6. QED
  BY <1>2, <1>4, <1>5

\* What the cookies say survives a step that keeps gateways and matches.
LEMMA CookiesKept ==
  ASSUME TypeInv, UNCHANGED <<counter, cookies>>,
         \A b \in Boxes, s \in OutSlots : out'[b][s].gateway = out[b][s].gateway /\ out'[b][s].match = out[b][s].match,
         \A u \in Threads : pc'[u] = "send" => pc[u] = "send" /\ job'[u] = job[u]
  PROVE  CookiesFit'
<1>1. CookiesFit /\ JobsFit /\ BoxOf \in [Threads -> Boxes]
  BY RpcAssumption DEF TypeInv
<1>2. ASSUME NEW b \in Boxes, NEW c \in cookies'[b]
      PROVE  c.slot \in OutSlots /\ c.counter \in 1 .. counter'[b] /\ out'[b][c.slot].gateway \in Gateways
  BY <1>1, <1>2 DEF CookiesFit
<1>3. ASSUME NEW t \in Threads, pc'[t] = "send"
      PROVE  LET b == BoxOf[t]
                 m == out'[b][job'[t].slot]
             IN  /\ m.gateway \in Gateways
                 /\ m.match.slot = job'[t].slot /\ m.match.counter \in 1 .. counter'[b]
  <2>1. pc[t] = "send" /\ job'[t] = job[t] /\ job[t].slot \in OutSlots /\ BoxOf[t] \in Boxes
    BY <1>1, <1>3 DEF JobsFit
  <2>2. QED
    BY <1>1, <2>1 DEF CookiesFit
<1>4. QED
  BY <1>2, <1>3 DEF CookiesFit

\* A step of a thread that changes nothing but where it is and its job.
LEMMA OnlyGoesOn ==
  ASSUME TypeInv, NEW t \in Threads, NEW from, NEW to \in Places \ {"send"}, GoTo(t, from, to),
         NEW j \in JobType, job' = [job EXCEPT ![t] = j],
         to \in {"alloc", "send", "pend", "free"} => j \in CallJobs,
         to \in {"send", "pend", "free"} => j.slot \in OutSlots,
         to \in {"group", "list", "find", "take", "run", "done", "wait"} => j \in ServeJobs,
         to \in {"take", "run", "done"} => j.slot \in In!Slots,
         UNCHANGED <<outpool, out, inpool, in, groups, counter, cookies, drain, ran>>
  PROVE  TypeInv'
<1>1. /\ pc' \in [Threads -> Places] /\ job' \in [Threads -> JobType] /\ JobsFit' /\ CookiesFit'
  BY GoesOnType
<1>2. TypeOK'
  BY <1>1 DEF TypeInv, TypeOK
<1>3. QED
  BY <1>1, <1>2 DEF TypeInv

\* The same, when the thread keeps its job.
LEMMA KeepsJob ==
  ASSUME TypeInv, NEW t \in Threads, UNCHANGED job
  PROVE  job' = [job EXCEPT ![t] = job[t]]
  BY DEF TypeInv, TypeOK

LEMMA IdleFits ==
  /\ NoJob \in JobType /\ "idle" \in Places \ {"send"}
  /\ {"alloc", "pend", "free", "find", "take", "done", "group", "list", "wait", "run"} \subseteq Places \ {"send"}
  /\ "send" \in Places
  BY JobKinds DEF Places, PoolOf

LEMMA EndsType ==
  ASSUME TypeInv, NEW t \in Threads, NEW from, GoTo(t, from, "idle"), job' = [job EXCEPT ![t] = NoJob],
         UNCHANGED <<outpool, out, inpool, in, groups, counter, cookies, drain, ran>>
  PROVE  TypeInv'
<1> DEFINE to == "idle"
<1>1. NoJob \in JobType /\ to \in Places \ {"send"}
  BY IdleFits
<1>2. to \notin {"alloc", "send", "pend", "free"} /\ to \notin {"send", "pend", "free"}
      /\ to \notin {"group", "list", "find", "take", "run", "done", "wait"} /\ to \notin {"take", "run", "done"}
  OBVIOUS
<1>3. GoTo(t, from, to)
  OBVIOUS
<1> HIDE DEF to
<1>4. QED
  BY <1>1, <1>2, <1>3, OnlyGoesOn

LEMMA fncall_type ==
  ASSUME TypeInv, NEW t \in Threads, rpc_fncall(t) PROVE TypeInv'
<1>1. PICK c \in Calls[t] :
        job' = [job EXCEPT ![t] = [call |-> "call", gateway |-> c.gateway, sync |-> c.sync,
                                   slot |-> NONE, arg |-> NoCall, ret |-> NoCall]]
  BY DEF rpc_fncall
<1> DEFINE j == [call |-> "call", gateway |-> c.gateway, sync |-> c.sync,
                 slot |-> NONE, arg |-> NoCall, ret |-> NoCall]
           to == "alloc"
<1>2. c.gateway \in Gateways /\ c.sync \in BOOLEAN
  BY RpcAssumption DEF Gateways
<1>3. j \in CallJobs
  BY <1>2 DEF CallJobs, ArgType
<1>4. j \in JobType /\ to \in Places \ {"send"} /\ GoTo(t, "idle", to)
  BY <1>3, JobKinds, IdleFits DEF rpc_fncall
<1>5. UNCHANGED <<outpool, out, inpool, in, groups, counter, cookies, drain, ran>>
  BY DEF rpc_fncall
<1>6. to \notin {"group", "list", "find", "take", "run", "done", "wait"} /\ to \notin {"send", "pend", "free"}
      /\ to \notin {"take", "run", "done"}
  OBVIOUS
<1> HIDE DEF j, to
<1>7. job' = [job EXCEPT ![t] = j]
  BY <1>1 DEF j
<1>8. QED
  BY <1>3, <1>4, <1>5, <1>6, <1>7, OnlyGoesOn

LEMMA full_type ==
  ASSUME TypeInv, NEW t \in Threads, send_outgoing_rpc_full(t) PROVE TypeInv'
<1>1. UNCHANGED <<outpool, out, inpool, in, groups, counter, cookies, drain, ran>> /\ pc[t] = "alloc"
  BY DEF send_outgoing_rpc_full
<1>2. CASE job[t].sync
  <2> DEFINE to == "alloc"
             j == job[t]
  <2>1. GoTo(t, "alloc", to) /\ UNCHANGED job /\ to \in Places \ {"send"}
    BY <1>2, IdleFits DEF send_outgoing_rpc_full
  <2>2. job' = [job EXCEPT ![t] = j]
    BY <2>1, KeepsJob
  <2>3. j \in CallJobs /\ j \in JobType
    BY <1>1, JobKinds DEF TypeInv, JobsFit
  <2>4. to \notin {"group", "list", "find", "take", "run", "done", "wait"} /\ to \notin {"send", "pend", "free"}
        /\ to \notin {"take", "run", "done"}
    OBVIOUS
  <2> HIDE DEF to, j
  <2>5. QED
    BY <1>1, <2>1, <2>2, <2>3, <2>4, OnlyGoesOn
<1>3. CASE ~job[t].sync
  BY <1>1, <1>3, EndsType DEF send_outgoing_rpc_full
<1>4. QED
  BY <1>2, <1>3

LEMMA timeout_type ==
  ASSUME TypeInv, NEW t \in Threads, wait_timeout(t) \/ waitfor_timeout(t) PROVE TypeInv'
<1>1. CASE wait_timeout(t)
  BY <1>1, EndsType DEF wait_timeout
<1>2. CASE waitfor_timeout(t)
  BY <1>2, EndsType DEF waitfor_timeout
<1>3. QED
  BY <1>1, <1>2

\* send_outgoing_rpc with slot s, message m, counter n and job j.
Sends(t, b, s, m, n, j) ==
  /\ b \in Boxes /\ n = counter[b] + 2
  /\ outpool[b].free \in Seq(OutSlots) /\ outpool[b].free # <<>> /\ s = Head(outpool[b].free)
  /\ outpool' = [outpool EXCEPT ![b] = [@ EXCEPT !.free = Tail(outpool[b].free)]]
  /\ counter' = [counter EXCEPT ![b] = n]
  /\ m.gateway \in Gateways /\ m.wait = Cookie(n, s) /\ m.match = Cookie(n, s)
  /\ m.state = "ready" /\ m.sem = out[b][s].sem /\ m.arg = <<b, n>>
  /\ out' = [out EXCEPT ![b][s] = m]
  /\ j.slot = s /\ j.arg = <<b, n>> /\ job' = [job EXCEPT ![t] = j]

LEMMA SendSteps ==
  ASSUME TypeInv, NEW t \in Threads, send_outgoing_rpc(t)
  PROVE  \E s \in OutSlots, m \in OutType, n \in Nat \ {0}, j \in CallJobs : Sends(t, BoxOf[t], s, m, n, j)
<1> DEFINE b == BoxOf[t]
           s == Head(outpool[b].free)
           n == counter[b] + 2
           q == outpool[b].free
<1>1. b \in Boxes /\ t \in Threads
  BY RpcAssumption
<1>2. /\ outpool \in [Boxes -> [free : Seq(OutSlots), queue : Seq(OutSlots)]]
      /\ out \in [Boxes -> [OutSlots -> OutType]] /\ counter \in [Boxes -> Nat]
      /\ job \in [Threads -> JobType] /\ pc[t] = "alloc"
  BY DEF TypeInv, TypeOK, send_outgoing_rpc, GoTo
<1>3. q \in Seq(OutSlots) /\ q # <<>>
  BY <1>1, <1>2 DEF send_outgoing_rpc
<1>4. s \in OutSlots /\ Tail(q) \in Seq(OutSlots)
  BY <1>3, TailRange
<1>5. n \in Nat \ {0}
  BY <1>1, <1>2
<1>6. job[t] \in CallJobs
  BY <1>2 DEF TypeInv, JobsFit
<1>7. /\ counter' = [counter EXCEPT ![b] = n]
      /\ outpool' = [outpool EXCEPT ![b].free = Tail(q)]
      /\ out' = [out EXCEPT ![b][s] = [out[b][s] EXCEPT !.gateway = job[t].gateway, !.arg = <<b, n>>,
                         !.wait = Cookie(n, s), !.match = Cookie(n, s), !.state = "ready"]]
      /\ job' = [job EXCEPT ![t] = [job[t] EXCEPT !.slot = s, !.arg = <<b, n>>]]
  BY <1>1, <1>2, <1>4 DEF send_outgoing_rpc
<1> DEFINE m == [out[b][s] EXCEPT !.gateway = job[t].gateway, !.arg = <<b, n>>,
                         !.wait = Cookie(n, s), !.match = Cookie(n, s), !.state = "ready"]
           j == [job[t] EXCEPT !.slot = s, !.arg = <<b, n>>]
<1> HIDE DEF s, n, b, q
<1>8. Cookie(n, s) \in CookieType /\ <<b, n>> \in ArgType
  BY <1>1, <1>4, <1>5 DEF Cookie, CookieType, Counters, ArgType
<1>9. job[t].gateway \in Gateways /\ job[t].gateway \in GatewayType
  BY <1>6 DEF CallJobs, GatewayType
<1>10. out[b][s] \in OutType
  BY <1>1, <1>2, <1>4
<1>11. /\ m \in OutType /\ m.gateway \in Gateways /\ m.wait = Cookie(n, s) /\ m.match = Cookie(n, s)
       /\ m.state = "ready" /\ m.sem = out[b][s].sem /\ m.arg = <<b, n>>
  BY <1>8, <1>9, <1>10 DEF OutType
<1>12. j \in CallJobs /\ j.slot = s /\ j.arg = <<b, n>>
  BY <1>4, <1>6, <1>8 DEF CallJobs
<1> HIDE DEF m, j
<1>13. outpool' = [outpool EXCEPT ![b] = [@ EXCEPT !.free = Tail(q)]]
  BY <1>7
<1>14. out' = [out EXCEPT ![b][s] = m] /\ job' = [job EXCEPT ![t] = j]
  BY <1>7 DEF m, j
<1>15. QED
  <2>1. Sends(t, b, s, m, n, j)
    BY <1>1, <1>3, <1>4, <1>5, <1>7, <1>11, <1>12, <1>13, <1>14 DEF Sends, b, s, n, q
  <2>2. QED
    BY <1>4, <1>5, <1>11, <1>12, <2>1 DEF b

LEMMA send_type ==
  ASSUME TypeInv, NEW t \in Threads, send_outgoing_rpc(t) PROVE TypeInv'
<1> DEFINE b == BoxOf[t]
<1>0. PICK s \in OutSlots, m \in OutType, n \in Nat \ {0}, j \in CallJobs : Sends(t, b, s, m, n, j)
  BY SendSteps
<1> DEFINE to == "send"
<1>1. /\ b \in Boxes /\ n = counter[b] + 2
      /\ outpool[b].free \in Seq(OutSlots) /\ outpool[b].free # <<>>
      /\ outpool' = [outpool EXCEPT ![b] = [@ EXCEPT !.free = Tail(outpool[b].free)]]
      /\ counter' = [counter EXCEPT ![b] = n]
      /\ m.gateway \in Gateways /\ m.match = Cookie(n, s)
      /\ out' = [out EXCEPT ![b][s] = m]
  BY <1>0 DEF Sends
<1>2. j \in CallJobs /\ j.slot = s /\ j \in JobType /\ job' = [job EXCEPT ![t] = j]
  BY <1>0, JobKinds DEF Sends
<1>3. UNCHANGED <<inpool, in, groups, cookies, drain, ran>> /\ GoTo(t, "alloc", to)
  BY DEF send_outgoing_rpc
<1>4. /\ outpool \in [Boxes -> [free : Seq(OutSlots), queue : Seq(OutSlots)]]
      /\ out \in [Boxes -> [OutSlots -> OutType]] /\ counter \in [Boxes -> Nat]
      /\ job \in [Threads -> JobType] /\ pc \in [Threads -> Places] /\ JobsFit /\ CookiesFit
  BY DEF TypeInv, TypeOK
<1>5. to \in Places /\ to \notin {"group", "list", "find", "take", "run", "done", "wait"}
      /\ to \notin {"take", "run", "done"}
  BY IdleFits
<1> HIDE DEF b, to
<1>6. /\ pc' \in [Threads -> Places] /\ job' \in [Threads -> JobType] /\ JobsFit'
  BY <1>2, <1>3, <1>5, GoesOnType
<1>7. outpool' \in [Boxes -> [free : Seq(OutSlots), queue : Seq(OutSlots)]]
  <2>1. Tail(outpool[b].free) \in Seq(OutSlots)
    BY <1>1, TailRange
  <2>2. QED
    BY <1>1, <1>4, <2>1
<1>8. /\ out' \in [Boxes -> [OutSlots -> OutType]] /\ out'[b][s] = m
      /\ \A c \in Boxes, d \in OutSlots : c # b \/ d # s => out'[c][d] = out[c][d]
  <2> DEFINE O == [out EXCEPT ![b][s] = m]
  <2>1. /\ O \in [Boxes -> [OutSlots -> OutType]] /\ O[b][s] = m
        /\ \A c \in Boxes, d \in OutSlots : c # b \/ d # s => O[c][d] = out[c][d]
    BY <1>1, <1>4, Rewritten
  <2>2. QED
    BY <1>1, <2>1
<1>9. /\ counter' \in [Boxes -> Nat] /\ counter' \in [Boxes -> Counters]
      /\ \A c \in Boxes : counter'[c] \in Nat /\ counter[c] \in Nat /\ counter[c] <= counter'[c]
      /\ counter'[b] = n
  BY <1>1, <1>4 DEF Counters
<1>10. ASSUME NEW k \in Boxes, NEW c \in cookies[k]
       PROVE  c.slot \in OutSlots /\ c.counter \in 1 .. counter'[k] /\ out'[k][c.slot].gateway \in Gateways
  <2>1. c.slot \in OutSlots /\ c.counter \in 1 .. counter[k] /\ out[k][c.slot].gateway \in Gateways
    BY <1>4 DEF CookiesFit
  <2>2. c.counter \in 1 .. counter'[k]
    BY <1>9, <2>1
  <2>3. QED
    BY <1>1, <1>8, <2>1, <2>2
<1>11. ASSUME NEW u \in Threads, pc'[u] = "send"
       PROVE  LET k == BoxOf[u]
                  x == out'[k][job'[u].slot]
              IN  /\ x.gateway \in Gateways
                  /\ x.match.slot = job'[u].slot /\ x.match.counter \in 1 .. counter'[k]
  <2>1. m.match.slot = s /\ m.match.counter = n /\ n \in 1 .. n
    BY <1>1 DEF Cookie
  <2>2. BoxOf[u] \in Boxes
    BY RpcAssumption
  <2>3. CASE u = t
    <3>1. job'[u].slot = s
      BY <1>2, <1>4, <2>3
    <3>2. QED
      BY <1>1, <1>8, <1>9, <2>1, <2>3, <3>1 DEF b
  <2>4. CASE u # t
    <3>1. pc[u] = "send" /\ job'[u] = job[u]
      BY <1>2, <1>3, <1>4, <1>11, <2>4 DEF GoTo
    <3>2. job[u].slot \in OutSlots
      BY <1>4, <3>1 DEF JobsFit
    <3>3. CASE BoxOf[u] = b /\ job[u].slot = s
      BY <1>1, <1>8, <1>9, <2>1, <3>1, <3>3
    <3>4. CASE ~(BoxOf[u] = b /\ job[u].slot = s)
      <4>1. out'[BoxOf[u]][job[u].slot] = out[BoxOf[u]][job[u].slot]
        BY <1>8, <2>2, <3>2, <3>4
      <4>2. /\ out[BoxOf[u]][job[u].slot].gateway \in Gateways
            /\ out[BoxOf[u]][job[u].slot].match.slot = job[u].slot
            /\ out[BoxOf[u]][job[u].slot].match.counter \in 1 .. counter[BoxOf[u]]
        BY <1>4, <3>1 DEF CookiesFit
      <4>3. out[BoxOf[u]][job[u].slot].match.counter \in 1 .. counter'[BoxOf[u]]
        BY <1>9, <2>2, <4>2
      <4>4. QED
        BY <3>1, <4>1, <4>2, <4>3
    <3>5. QED
      BY <3>3, <3>4
  <2>5. QED
    BY <2>3, <2>4
<1>12. CookiesFit'
  BY <1>3, <1>10, <1>11 DEF CookiesFit
<1>13. TypeOK'
  BY <1>3, <1>6, <1>7, <1>8, <1>9 DEF TypeInv, TypeOK
<1>14. QED
  BY <1>3, <1>6, <1>9, <1>12, <1>13 DEF TypeInv

LEMMA enqueue_type ==
  ASSUME TypeInv, NEW t \in Threads, enqueue_outgoing(t) PROVE TypeInv'
<1> DEFINE b == BoxOf[t]
           s == job[t].slot
<1>1. /\ pc[t] = "send" /\ outpool' = [outpool EXCEPT ![b].queue = Append(@, s)]
      /\ UNCHANGED <<out, inpool, in, groups, counter, drain, ran>> /\ b \in Boxes
  BY RpcAssumption DEF enqueue_outgoing
<1>2. /\ outpool \in [Boxes -> [free : Seq(OutSlots), queue : Seq(OutSlots)]]
      /\ cookies \in [Boxes -> SUBSET CookieType] /\ out \in [Boxes -> [OutSlots -> OutType]]
      /\ JobsFit /\ CookiesFit /\ counter \in [Boxes -> Nat]
  BY DEF TypeInv, TypeOK
<1>3. s \in OutSlots /\ job[t] \in CallJobs
  BY <1>1, <1>2 DEF JobsFit
<1>4. outpool' \in [Boxes -> [free : Seq(OutSlots), queue : Seq(OutSlots)]]
  <2>1. outpool[b].queue \in Seq(OutSlots)
    BY <1>1, <1>2
  <2>2. Append(outpool[b].queue, s) \in Seq(OutSlots)
    BY <1>3, <2>1, AppendRange
  <2> HIDE DEF b, s
  <2>3. QED
    BY <1>1, <1>2, <2>2
<1>5. CASE job[t].sync
  <2> DEFINE to == "pend"
             j == job[t]
  <2>1. GoTo(t, "send", to) /\ UNCHANGED <<cookies, job>> /\ to \in Places
    BY <1>5, IdleFits DEF enqueue_outgoing
  <2>2. j \in JobType /\ job' = [job EXCEPT ![t] = j]
    BY <1>3, <2>1, KeepsJob, JobKinds
  <2>3. to # "send" /\ to \notin {"group", "list", "find", "take", "run", "done", "wait"}
        /\ to \notin {"take", "run", "done"}
    OBVIOUS
  <2>4. j \in CallJobs /\ j.slot \in OutSlots
    BY <1>3
  <2> HIDE DEF to, j
  <2>5. pc' \in [Threads -> Places] /\ job' \in [Threads -> JobType] /\ JobsFit' /\ CookiesFit'
    BY <1>1, <2>1, <2>2, <2>3, <2>4, GoesOnType
  <2>6. TypeOK'
    BY <1>1, <1>4, <2>1, <2>5 DEF TypeInv, TypeOK
  <2>7. QED
    BY <1>1, <2>5, <2>6 DEF TypeInv
<1>6. CASE ~job[t].sync
  <2> DEFINE to == "idle"
             c == out[b][s].match
  <2>1. GoTo(t, "send", to) /\ cookies' = [cookies EXCEPT ![b] = @ \cup {c}]
        /\ job' = [job EXCEPT ![t] = NoJob] /\ to \in Places
    BY <1>6, IdleFits DEF enqueue_outgoing
  <2>2. /\ to # "send" /\ to \notin {"group", "list", "find", "take", "run", "done", "wait"}
        /\ to \notin {"take", "run", "done"} /\ to \notin {"alloc", "send", "pend", "free"}
        /\ to \notin {"send", "pend", "free"}
    OBVIOUS
  <2>3. c \in CookieType /\ c.slot = s /\ c.counter \in 1 .. counter[b] /\ out[b][s].gateway \in Gateways
    BY <1>1, <1>2, <1>3 DEF CookiesFit, OutType
  <2> HIDE DEF to, c
  <2>4. pc' \in [Threads -> Places] /\ job' \in [Threads -> JobType] /\ JobsFit'
    BY <2>1, <2>2, JobKinds, GoesOnType
  <2>5. cookies' \in [Boxes -> SUBSET CookieType]
    BY <1>1, <1>2, <2>1, <2>3
  <2>6. \A k \in Boxes : \A d \in cookies'[k] : d \in cookies[k] \/ (k = b /\ d = c)
    BY <1>1, <1>2, <2>1
  <2>7. \A u \in Threads : pc'[u] = "send" => pc[u] = "send" /\ job'[u] = job[u]
    <3>1. pc \in [Threads -> Places] /\ job \in [Threads -> JobType] /\ pc' = [pc EXCEPT ![t] = to]
      BY <2>1 DEF TypeInv, TypeOK, GoTo
    <3>2. QED
      BY <2>1, <2>2, <3>1
  <2>8. ASSUME NEW k \in Boxes, NEW d \in cookies'[k]
        PROVE  d.slot \in OutSlots /\ d.counter \in 1 .. counter'[k] /\ out'[k][d.slot].gateway \in Gateways
    <3>1. CASE d \in cookies[k]
      BY <1>1, <1>2, <3>1 DEF CookiesFit
    <3>2. CASE k = b /\ d = c
      BY <1>1, <1>3, <2>3, <3>2
    <3>3. QED
      BY <2>6, <3>1, <3>2
  <2>9. CookiesFit'
    BY <1>1, <1>2, <2>7, <2>8 DEF CookiesFit
  <2>10. TypeOK'
    BY <1>1, <1>4, <2>4, <2>5 DEF TypeInv, TypeOK
  <2>11. QED
    BY <1>1, <2>4, <2>9, <2>10 DEF TypeInv
<1>7. QED
  BY <1>5, <1>6

\* Message s of box b becomes m.
Patches(b, s, m) ==
  /\ out' = [out EXCEPT ![b][s] = m]
  /\ m \in OutType /\ b \in Boxes /\ s \in OutSlots
  /\ m.gateway = out[b][s].gateway /\ m.match = out[b][s].match

LEMMA Patched ==
  ASSUME TypeInv, NEW b, NEW s, NEW m, Patches(b, s, m)
  PROVE  /\ out' \in [Boxes -> [OutSlots -> OutType]] /\ out'[b][s] = m
         /\ \A c \in Boxes, d \in OutSlots : c # b \/ d # s => out'[c][d] = out[c][d]
         /\ \A c \in Boxes, d \in OutSlots :
              out'[c][d].gateway = out[c][d].gateway /\ out'[c][d].match = out[c][d].match
<1>1. out \in [Boxes -> [OutSlots -> OutType]] /\ b \in Boxes /\ s \in OutSlots /\ m \in OutType
  BY DEF TypeInv, TypeOK, Patches
<1> DEFINE O == [out EXCEPT ![b][s] = m]
<1>2. /\ O \in [Boxes -> [OutSlots -> OutType]] /\ O[b][s] = m
      /\ \A c \in Boxes, d \in OutSlots : c # b \/ d # s => O[c][d] = out[c][d]
  BY <1>1, Rewritten
<1>3. out' = O
  BY DEF Patches
<1> HIDE DEF O
<1>4. ASSUME NEW c \in Boxes, NEW d \in OutSlots
      PROVE  out'[c][d].gateway = out[c][d].gateway /\ out'[c][d].match = out[c][d].match
  <2>1. CASE c # b \/ d # s
    BY <1>2, <1>3, <2>1
  <2>2. CASE c = b /\ d = s
    BY <1>2, <1>3, <2>2 DEF Patches
  <2>3. QED
    BY <2>1, <2>2
<1>5. QED
  BY <1>2, <1>3, <1>4

\* A thread goes on, not to send, and one outgoing message changes.
LEMMA PatchType ==
  ASSUME TypeInv, NEW t \in Threads, NEW from, NEW to \in Places \ {"send"}, GoTo(t, from, to),
         NEW j \in CallJobs, job' = [job EXCEPT ![t] = j], j.slot \in OutSlots, to \in {"pend", "free"},
         NEW b, NEW s, NEW m, Patches(b, s, m),
         UNCHANGED <<outpool, inpool, in, groups, counter, cookies, drain, ran>>
  PROVE  TypeInv'
<1>1. to \notin {"group", "list", "find", "take", "run", "done", "wait"} /\ to \notin {"take", "run", "done"}
      /\ j \in JobType /\ to # "send" /\ to \in Places
  BY JobKinds
<1>2. pc' \in [Threads -> Places] /\ job' \in [Threads -> JobType] /\ JobsFit'
  BY <1>1, GoesOnType
<1>3. /\ out' \in [Boxes -> [OutSlots -> OutType]]
      /\ \A c \in Boxes, d \in OutSlots :
           out'[c][d].gateway = out[c][d].gateway /\ out'[c][d].match = out[c][d].match
  BY Patched
<1>4. \A u \in Threads : pc'[u] = "send" => pc[u] = "send" /\ job'[u] = job[u]
  <2>1. pc \in [Threads -> Places] /\ job \in [Threads -> JobType] /\ pc' = [pc EXCEPT ![t] = to]
    BY DEF TypeInv, TypeOK, GoTo
  <2>2. QED
    BY <1>1, <2>1
<1>5. CookiesFit'
  BY <1>3, <1>4, CookiesKept
<1>6. TypeOK'
  BY <1>2, <1>3 DEF TypeInv, TypeOK
<1>7. QED
  BY <1>2, <1>5, <1>6 DEF TypeInv

\* rpc_fncall_wait with cookie c and job j.
Waits(t, b, c, j) ==
  /\ out[b][c.slot].wait = c
  /\ Patches(b, c.slot, [out[b][c.slot] EXCEPT !.wait = Cookie(INVALID_COUNTER, c.slot)])
  /\ j.slot = c.slot /\ c.slot \in OutSlots /\ b \in Boxes /\ j.arg = <<b, c.counter>>
  /\ job' = [job EXCEPT ![t] = j]

LEMMA WaitSteps ==
  ASSUME TypeInv, NEW t \in Threads, rpc_fncall_wait(t)
  PROVE  \E c \in cookies[BoxOf[t]], j \in CallJobs : Waits(t, BoxOf[t], c, j)
<1> DEFINE b == BoxOf[t]
<1>1. PICK c \in cookies[b] :
        /\ out[b][c.slot].wait = c
        /\ out' = Spent(b, c)
        /\ job' = [job EXCEPT ![t] = [call |-> "call", gateway |-> out[b][c.slot].gateway,
                                      sync |-> FALSE, slot |-> c.slot, arg |-> <<b, c.counter>>,
                                      ret |-> NoCall]]
  BY DEF rpc_fncall_wait
<1> DEFINE j == [call |-> "call", gateway |-> out[b][c.slot].gateway,
                 sync |-> FALSE, slot |-> c.slot, arg |-> <<b, c.counter>>, ret |-> NoCall]
           s == c.slot
           m == [out[b][s] EXCEPT !.wait = Cookie(INVALID_COUNTER, s)]
<1>2. /\ out \in [Boxes -> [OutSlots -> OutType]] /\ b \in Boxes /\ counter[b] \in Nat
      /\ s \in OutSlots /\ c.counter \in 1 .. counter[b] /\ out[b][s].gateway \in Gateways
  BY RpcAssumption DEF TypeInv, TypeOK, CookiesFit
<1>3. j \in CallJobs /\ j.slot = s /\ j.arg = <<b, c.counter>>
  <2>1. c.counter \in Nat
    BY <1>2
  <2>2. <<b, c.counter>> \in ArgType /\ NoCall \in ArgType
    BY <1>2, <2>1 DEF ArgType, Counters
  <2>3. QED
    BY <1>2, <2>2 DEF CallJobs
<1>4. out' = [out EXCEPT ![b][s] = m]
  BY <1>1, <1>2 DEF Spent
<1>5. m \in OutType /\ m.gateway = out[b][s].gateway /\ m.match = out[b][s].match
  <2>1. Cookie(INVALID_COUNTER, s) \in CookieType
    BY <1>2 DEF Cookie, CookieType, Counters
  <2>2. out[b][s] \in OutType
    BY <1>2
  <2> HIDE DEF s, b
  <2>3. QED
    BY <2>1, <2>2 DEF OutType
<1>6. Waits(t, b, c, j)
  <2>1. Patches(b, s, m)
    BY <1>2, <1>4, <1>5 DEF Patches
  <2>2. QED
    BY <1>1, <1>2, <1>3, <2>1 DEF Waits
<1>7. QED
  BY <1>3, <1>6

LEMMA wait_type ==
  ASSUME TypeInv, NEW t \in Threads, rpc_fncall_wait(t) PROVE TypeInv'
<1>1. PICK c \in cookies[BoxOf[t]], j \in CallJobs : Waits(t, BoxOf[t], c, j)
  BY WaitSteps
<1> DEFINE m == [out[BoxOf[t]][c.slot] EXCEPT !.wait = Cookie(INVALID_COUNTER, c.slot)]
           to == "pend"
<1>2. /\ Patches(BoxOf[t], c.slot, m) /\ j.slot \in OutSlots /\ job' = [job EXCEPT ![t] = j]
      /\ GoTo(t, "idle", to) /\ UNCHANGED <<outpool, inpool, in, groups, counter, cookies, drain, ran>>
      /\ to \in Places \ {"send"} /\ to \in {"pend", "free"}
  BY <1>1, IdleFits DEF Waits, rpc_fncall_wait
<1> HIDE DEF m, to
<1>3. QED
  BY <1>2, PatchType

\* wait_for_rpc_result with job j.
Gets(t, b, s, j) ==
  /\ out[b][s].sem = 1
  /\ Patches(b, s, [out[b][s] EXCEPT !.sem = 0])
  /\ j.slot = s /\ s = job[t].slot /\ s \in OutSlots /\ b \in Boxes
  /\ j.arg = job[t].arg /\ j.ret = out[b][s].result
  /\ job' = [job EXCEPT ![t] = j]

LEMMA GetSteps ==
  ASSUME TypeInv, NEW t \in Threads, wait_for_rpc_result(t)
  PROVE  \E j \in CallJobs : Gets(t, BoxOf[t], job[t].slot, j)
<1> DEFINE b == BoxOf[t]
           s == job[t].slot
           r == out[b][s].result
           j == [job[t] EXCEPT !.ret = r]
           m == [out[b][s] EXCEPT !.sem = 0]
<1>1. /\ out \in [Boxes -> [OutSlots -> OutType]] /\ b \in Boxes
      /\ job \in [Threads -> JobType] /\ pc[t] = "pend"
  BY RpcAssumption DEF TypeInv, TypeOK, wait_for_rpc_result, GoTo
<1>2. s \in OutSlots /\ job[t] \in CallJobs
  BY <1>1 DEF TypeInv, JobsFit
<1>3. out[b][s] \in OutType
  BY <1>1, <1>2
<1>4. out[b][s].sem = 1 /\ r \in ArgType
  BY <1>3 DEF wait_for_rpc_result, OutType
<1>5. job' = [job EXCEPT ![t] = j]
  BY <1>1 DEF wait_for_rpc_result
<1>6. out' = [out EXCEPT ![b][s].sem = 0]
  BY <1>4 DEF wait_for_rpc_result
<1> HIDE DEF b, s, r
<1>7. out' = [out EXCEPT ![b][s] = m]
  BY <1>6
<1>8. m \in OutType /\ m.gateway = out[b][s].gateway /\ m.match = out[b][s].match
  BY <1>3 DEF OutType
<1>9. j \in CallJobs /\ j.slot = s /\ j.arg = job[t].arg /\ j.ret = r
  BY <1>2, <1>4 DEF CallJobs, s
<1>10. Patches(b, s, m)
  BY <1>1, <1>2, <1>7, <1>8 DEF Patches
<1>11. s = job[t].slot
  BY DEF s
<1>12. Gets(t, b, s, j)
  BY <1>1, <1>2, <1>4, <1>5, <1>9, <1>10, <1>11 DEF Gets, r
<1>13. QED
  BY <1>9, <1>12 DEF b, s

LEMMA result_type ==
  ASSUME TypeInv, NEW t \in Threads, wait_for_rpc_result(t) PROVE TypeInv'
<1>1. PICK j \in CallJobs : Gets(t, BoxOf[t], job[t].slot, j)
  BY GetSteps
<1> DEFINE m == [out[BoxOf[t]][job[t].slot] EXCEPT !.sem = 0]
           to == "free"
<1>2. /\ Patches(BoxOf[t], job[t].slot, m) /\ j.slot \in OutSlots /\ job' = [job EXCEPT ![t] = j]
      /\ GoTo(t, "pend", to) /\ UNCHANGED <<outpool, inpool, in, groups, counter, cookies, drain, ran>>
      /\ to \in Places \ {"send"} /\ to \in {"pend", "free"}
  BY <1>1, IdleFits DEF Gets, wait_for_rpc_result
<1> HIDE DEF m, to
<1>3. QED
  BY <1>2, PatchType

LEMMA free_type ==
  ASSUME TypeInv, NEW t \in Threads, free_outgoing_msg(t) PROVE TypeInv'
<1> DEFINE b == BoxOf[t]
           s == job[t].slot
           to == "idle"
<1>1. /\ outpool \in [Boxes -> [free : Seq(OutSlots), queue : Seq(OutSlots)]]
      /\ b \in Boxes /\ pc[t] = "free" /\ GoTo(t, "free", to)
      /\ outpool' = [outpool EXCEPT ![b].free = <<s>> \o @]
      /\ job' = [job EXCEPT ![t] = NoJob] /\ to \in Places
      /\ UNCHANGED <<out, inpool, in, groups, counter, cookies, drain, ran>>
  BY RpcAssumption, IdleFits DEF TypeInv, TypeOK, free_outgoing_msg, GoTo
<1>2. s \in OutSlots
  BY <1>1 DEF TypeInv, JobsFit
<1>3. outpool[b].free \in Seq(OutSlots)
  BY <1>1
<1>4. <<s>> \o outpool[b].free \in Seq(OutSlots)
  BY <1>2, <1>3, PrependRange
<1>5. /\ to # "send" /\ to \notin {"group", "list", "find", "take", "run", "done", "wait"}
      /\ to \notin {"take", "run", "done"} /\ to \notin {"alloc", "send", "pend", "free"}
      /\ to \notin {"send", "pend", "free"}
  OBVIOUS
<1> HIDE DEF b, s, to
<1>6. outpool' \in [Boxes -> [free : Seq(OutSlots), queue : Seq(OutSlots)]]
  BY <1>1, <1>4
<1>7. pc' \in [Threads -> Places] /\ job' \in [Threads -> JobType] /\ JobsFit' /\ CookiesFit'
  BY <1>1, <1>5, JobKinds, GoesOnType
<1>8. TypeOK'
  BY <1>1, <1>6, <1>7 DEF TypeInv, TypeOK
<1>9. QED
  BY <1>1, <1>7, <1>8 DEF TypeInv

\* A set of natural numbers has a least element.
LEMMA LeastElement ==
  ASSUME NEW S, S \subseteq Nat, S # {}
  PROVE  \E i \in S : \A j \in S : i <= j
<1>1. \E i \in S : \A j \in S : <<j, i>> \notin OpToRel(<, Nat)
  BY NatLessThanWellFounded, WFMin, Zenon
<1>2. ASSUME NEW i \in S, \A j \in S : <<j, i>> \notin OpToRel(<, Nat), NEW j \in S
      PROVE  i <= j
  <2>1. ~(j < i)
    BY <1>2 DEF OpToRel
  <2>2. QED
    BY <2>1
<1>3. QED
  BY <1>1, <1>2

GroupType == [fns : Groups, sem : 0 .. 1, listed : BOOLEAN]

\* A step of a server: its place, its job, and what a callee's box keeps.
LEMMA ServesOn ==
  ASSUME TypeInv, NEW t \in Threads, NEW from,
         NEW to \in {"idle", "wait", "group", "list", "find", "take", "run", "done"}, GoTo(t, from, to),
         NEW j \in {NoJob} \cup ServeJobs, to # "idle" => j \in ServeJobs,
         to \in {"take", "run", "done"} => j.slot \in In!Slots, job' = [job EXCEPT ![t] = j],
         UNCHANGED <<outpool, out, counter, cookies, drain>>,
         inpool' \in [Boxes -> In!Memory], in' \in [Boxes -> [In!Slots -> InType]],
         groups' \in [Boxes -> Seq(GroupType)], \A b \in Boxes : Len(groups'[b]) <= NumGroups,
         DOMAIN ran' = Boxes, \A b \in Boxes : ran'[b] \in [1 .. 2 * MaxCalls[b] -> Nat]
  PROVE  TypeInv'
<1>1. j \in JobType /\ to \in Places \ {"send"} /\ to \in Places
  BY JobKinds, IdleFits
<1>2. /\ to \notin {"alloc", "send", "pend", "free"} /\ to \notin {"send", "pend", "free"} /\ to # "send"
      /\ to \in {"group", "list", "find", "take", "run", "done", "wait"} => j \in ServeJobs
  OBVIOUS
<1>3. pc' \in [Threads -> Places] /\ job' \in [Threads -> JobType] /\ JobsFit' /\ CookiesFit'
  BY <1>1, <1>2, GoesOnType
<1>4. TypeOK'
  BY <1>3 DEF TypeInv, TypeOK, GroupType
<1>5. QED
  BY <1>3, <1>4 DEF TypeInv

\* What a server leaves alone has its type.
LEMMA CalleeTypes ==
  ASSUME TypeInv
  PROVE  /\ inpool \in [Boxes -> In!Memory] /\ in \in [Boxes -> [In!Slots -> InType]]
         /\ groups \in [Boxes -> Seq(GroupType)] /\ \A b \in Boxes : Len(groups[b]) <= NumGroups
         /\ DOMAIN ran = Boxes /\ \A b \in Boxes : ran[b] \in [1 .. 2 * MaxCalls[b] -> Nat]
         /\ \A t \in Threads : BoxOf[t] \in Boxes
  BY RpcAssumption DEF TypeInv, TypeOK, GroupType

LEMMA GoesServing ==
  ASSUME TypeInv, NEW t \in Threads, NEW from,
         NEW to \in {"idle", "wait", "group", "list", "find", "take", "run", "done"}, GoTo(t, from, to),
         NEW j \in {NoJob} \cup ServeJobs, to # "idle" => j \in ServeJobs,
         to \in {"take", "run", "done"} => j.slot \in In!Slots, job' = [job EXCEPT ![t] = j],
         UNCHANGED <<outpool, out, inpool, in, groups, counter, cookies, drain, ran>>
  PROVE  TypeInv'
<1>1. /\ inpool' \in [Boxes -> In!Memory] /\ in' \in [Boxes -> [In!Slots -> InType]]
      /\ groups' \in [Boxes -> Seq(GroupType)] /\ \A b \in Boxes : Len(groups'[b]) <= NumGroups
      /\ DOMAIN ran' = Boxes /\ \A b \in Boxes : ran'[b] \in [1 .. 2 * MaxCalls[b] -> Nat]
  BY CalleeTypes
<1>2. UNCHANGED <<outpool, out, counter, cookies, drain>>
  OBVIOUS
<1>3. QED
  BY <1>1, <1>2, ServesOn

LEMMA waitfor_type ==
  ASSUME TypeInv, NEW t \in Threads, rpc_fncall_waitfor(t) PROVE TypeInv'
<1> DEFINE b == BoxOf[t]
<1>1. PICK g \in Serves[t] :
       IF SlotsOf(b, g) = {}
       THEN /\ GoTo(t, "idle", "group")
            /\ job' = [job EXCEPT ![t] = Serve(g, NONE, TRUE)]
       ELSE /\ GoTo(t, "idle", "wait")
            /\ job' = [job EXCEPT ![t] =
                 Serve(g, CHOOSE i \in SlotsOf(b, g) : \A j \in SlotsOf(b, g) : i <= j, FALSE)]
  BY DEF rpc_fncall_waitfor
<1>2. g \in Groups /\ b \in Boxes /\ UNCHANGED <<outpool, out, inpool, in, groups, counter, cookies, drain, ran>>
  BY CalleeTypes DEF Groups, rpc_fncall_waitfor
<1>3. \A i \in 0 .. NumGroups : \A f \in BOOLEAN : Serve(g, i, f) \in ServeJobs
  BY <1>2 DEF Serve, ServeJobs
<1> DEFINE i == CHOOSE i \in SlotsOf(b, g) : \A j \in SlotsOf(b, g) : i <= j
<1>4. CASE SlotsOf(b, g) = {}
  <2> DEFINE j == Serve(g, NONE, TRUE)
             to == "group"
  <2>1. j \in ServeJobs
    <3>1. NONE \in 0 .. NumGroups /\ TRUE \in BOOLEAN
      BY RpcAssumption DEF NONE
    <3>2. QED
      BY <1>3, <3>1
  <2>2. GoTo(t, "idle", to) /\ job' = [job EXCEPT ![t] = j]
    BY <1>1, <1>4
  <2>3. to \in {"idle", "wait", "group", "list", "find", "take", "run", "done"} /\ to \notin {"take", "run", "done"}
    OBVIOUS
  <2> HIDE DEF j, to
  <2>4. QED
    BY <1>2, <2>1, <2>2, <2>3, GoesServing
<1>5. CASE SlotsOf(b, g) # {}
  <2> DEFINE j == Serve(g, i, FALSE)
             to == "wait"
  <2>1. SlotsOf(b, g) \subseteq 1 .. NumGroups /\ 1 .. NumGroups \subseteq Nat
    <3>1. groups[b] \in Seq(GroupType) /\ Len(groups[b]) <= NumGroups
      BY <1>2, CalleeTypes
    <3>2. DOMAIN groups[b] = 1 .. Len(groups[b]) /\ Len(groups[b]) \in Nat
      BY <3>1
    <3>3. QED
      BY <3>1, <3>2, RpcAssumption DEF SlotsOf
  <2>2. \E k \in SlotsOf(b, g) : \A l \in SlotsOf(b, g) : k <= l
    BY <1>5, <2>1, LeastElement
  <2>3. i \in SlotsOf(b, g)
    BY <2>2
  <2> HIDE DEF i
  <2>4. i \in 0 .. NumGroups
    BY <2>1, <2>3, RpcAssumption
  <2>5. j \in ServeJobs
    BY <1>3, <2>4
  <2>6. GoTo(t, "idle", to) /\ job' = [job EXCEPT ![t] = j]
    BY <1>1, <1>5 DEF i
  <2>7. to \in {"idle", "wait", "group", "list", "find", "take", "run", "done"} /\ to \notin {"take", "run", "done"}
    OBVIOUS
  <2> HIDE DEF j, to
  <2>8. QED
    BY <1>2, <2>5, <2>6, <2>7, GoesServing
<1>6. QED
  BY <1>4, <1>5

LEMMA allocate_type ==
  ASSUME TypeInv, NEW t \in Threads, allocate_function_group(t) PROVE TypeInv'
<1> DEFINE b == BoxOf[t]
           L == Len(groups[b])
<1>1. /\ inpool \in [Boxes -> In!Memory] /\ in \in [Boxes -> [In!Slots -> InType]]
      /\ groups \in [Boxes -> Seq(GroupType)] /\ \A k \in Boxes : Len(groups[k]) <= NumGroups
      /\ DOMAIN ran = Boxes /\ \A k \in Boxes : ran[k] \in [1 .. 2 * MaxCalls[k] -> Nat]
      /\ b \in Boxes
  BY CalleeTypes
<1>2. UNCHANGED <<outpool, out, inpool, in, counter, cookies, drain, ran>>
  BY DEF allocate_function_group
<1>3. CASE L = NumGroups
  BY <1>2, <1>3, EndsType DEF allocate_function_group
<1>4. CASE L # NumGroups
  <2> DEFINE x == [fns |-> job[t].fns, sem |-> 0, listed |-> FALSE]
             j == [job[t] EXCEPT !.group = L + 1]
             to == "list"
             G == Append(groups[b], x)
  <2>1. /\ GoTo(t, "group", to) /\ groups' = [groups EXCEPT ![b] = G]
        /\ job' = [job EXCEPT ![t].group = L + 1]
    BY <1>4 DEF allocate_function_group
  <2>2. pc[t] = "group" /\ job[t] \in ServeJobs
    BY <2>1 DEF TypeInv, JobsFit, GoTo
  <2>3. x \in GroupType
    BY <2>2 DEF GroupType, ServeJobs
  <2>4. groups[b] \in Seq(GroupType) /\ L <= NumGroups /\ L \in Nat
    BY <1>1
  <2>5. G \in Seq(GroupType) /\ Len(G) = L + 1
    BY <2>3, <2>4
  <2> HIDE DEF L
  <2>6. L + 1 \in 0 .. NumGroups
    BY <1>4, <2>4, RpcAssumption
  <2>7. j \in ServeJobs
    BY <2>2, <2>6 DEF ServeJobs
  <2> HIDE DEF G, x
  <2>8. groups' \in [Boxes -> Seq(GroupType)] /\ \A k \in Boxes : Len(groups'[k]) <= NumGroups
    <3>1. L + 1 <= NumGroups
      BY <2>6
    <3>2. QED
      BY <1>1, <2>1, <2>5, <3>1 DEF b
  <2>9. job' = [job EXCEPT ![t] = j]
    BY <2>1
  <2>10. to \in {"idle", "wait", "group", "list", "find", "take", "run", "done"} /\ to \notin {"take", "run", "done"}
    OBVIOUS
  <2>11. /\ inpool' \in [Boxes -> In!Memory] /\ in' \in [Boxes -> [In!Slots -> InType]]
         /\ DOMAIN ran' = Boxes /\ \A k \in Boxes : ran'[k] \in [1 .. 2 * MaxCalls[k] -> Nat]
         /\ UNCHANGED <<outpool, out, counter, cookies, drain>>
    BY <1>1, <1>2
  <2>12. GoTo(t, "group", to) /\ j \in {NoJob} \cup ServeJobs
    BY <2>1, <2>7
  <2> HIDE DEF j, to, b
  <2>13. QED
    BY <2>7, <2>8, <2>9, <2>10, <2>11, <2>12, ServesOn
<1>5. QED
  BY <1>3, <1>4

\* A field of one group changes.
LEMMA GroupRewritten ==
  ASSUME TypeInv, NEW b \in Boxes, NEW i, NEW x,
         i \in DOMAIN groups[b] => x \in GroupType
  PROVE  /\ [groups EXCEPT ![b][i] = x] \in [Boxes -> Seq(GroupType)]
         /\ \A k \in Boxes : Len([groups EXCEPT ![b][i] = x][k]) <= NumGroups
<1>1. groups \in [Boxes -> Seq(GroupType)] /\ \A k \in Boxes : Len(groups[k]) <= NumGroups
  BY CalleeTypes
<1> DEFINE G == groups[b]
           H == [G EXCEPT ![i] = x]
<1>2. G \in Seq(GroupType)
  BY <1>1
<1>3. H \in Seq(GroupType) /\ Len(H) = Len(G)
  <2>1. CASE i \in 1 .. Len(G)
    <3>1. x \in GroupType
      BY <1>2, <2>1
    <3> HIDE DEF G
    <3>2. QED
      BY <1>2, <2>1, <3>1, ExceptSeq
  <2>2. CASE i \notin 1 .. Len(G)
    <3>1. DOMAIN G = 1 .. Len(G) /\ G = [n \in DOMAIN G |-> G[n]]
      BY <1>2
    <3> HIDE DEF G
    <3>2. H = G
      BY <2>2, <3>1
    <3>3. QED
      BY <1>2, <3>2
  <2>3. QED
    BY <2>1, <2>2
<1>4. [groups EXCEPT ![b][i] = x] = [groups EXCEPT ![b] = H]
  OBVIOUS
<1> HIDE DEF H
<1>5. QED
  BY <1>1, <1>3, <1>4

LEMMA list_type ==
  ASSUME TypeInv, NEW t \in Threads, list_function_group(t) \/ pend_group(t) PROVE TypeInv'
<1> DEFINE b == BoxOf[t]
           i == job[t].group
           j == job[t]
           to == "find"
<1>1. /\ UNCHANGED <<outpool, out, inpool, in, counter, cookies, job, drain, ran>>
      /\ \E from \in {"list", "wait"} : GoTo(t, from, to)
  BY DEF list_function_group, pend_group
<1>2. PICK from \in {"list", "wait"} : GoTo(t, from, to)
  BY <1>1
<1>3. /\ inpool' \in [Boxes -> In!Memory] /\ in' \in [Boxes -> [In!Slots -> InType]]
      /\ DOMAIN ran' = Boxes /\ (\A k \in Boxes : ran'[k] \in [1 .. 2 * MaxCalls[k] -> Nat])
      /\ b \in Boxes /\ groups \in [Boxes -> Seq(GroupType)]
  BY <1>1, CalleeTypes
<1>4. j \in ServeJobs /\ j \in {NoJob} \cup ServeJobs
  BY <1>2 DEF TypeInv, JobsFit, GoTo
<1>5. PICK x : groups' = [groups EXCEPT ![b][i] = x] /\ (i \in DOMAIN groups[b] => x \in GroupType)
  <2> DEFINE G == groups[b][i]
  <2>1. i \in DOMAIN groups[b] => G \in GroupType
    <3>1. groups[b] \in Seq(GroupType)
      BY <1>3
    <3>2. DOMAIN groups[b] = 1 .. Len(groups[b])
      BY <3>1
    <3>3. QED
      BY <3>1, <3>2
  <2>2. CASE list_function_group(t)
    <3>1. groups' = [groups EXCEPT ![b][i] = [G EXCEPT !.listed = TRUE]]
      BY <2>2 DEF list_function_group
    <3>2. G \in GroupType => [G EXCEPT !.listed = TRUE] \in GroupType
      BY DEF GroupType
    <3>3. QED
      BY <2>1, <3>1, <3>2
  <2>3. CASE pend_group(t)
    <3>1. groups' = [groups EXCEPT ![b][i] = [G EXCEPT !.sem = G.sem - 1]] /\ G.sem > 0
      BY <2>3 DEF pend_group
    <3>2. G \in GroupType => [G EXCEPT !.sem = G.sem - 1] \in GroupType
      BY <3>1 DEF GroupType
    <3>3. QED
      BY <2>1, <3>1, <3>2
  <2>4. QED
    BY <2>2, <2>3
<1>6. groups' \in [Boxes -> Seq(GroupType)] /\ \A k \in Boxes : Len(groups'[k]) <= NumGroups
  <2> HIDE DEF b, i
  <2>1. /\ [groups EXCEPT ![b][i] = x] \in [Boxes -> Seq(GroupType)]
        /\ \A k \in Boxes : Len([groups EXCEPT ![b][i] = x][k]) <= NumGroups
    BY <1>3, <1>5, GroupRewritten
  <2>2. QED
    BY <1>5, <2>1
<1>7. job' = [job EXCEPT ![t] = j]
  BY <1>1, KeepsJob
<1>8. to \in {"idle", "wait", "group", "list", "find", "take", "run", "done"} /\ to \notin {"take", "run", "done"}
  OBVIOUS
<1>9. UNCHANGED <<outpool, out, counter, cookies, drain>>
  BY <1>1
<1> HIDE DEF b, i, j, to
<1>10. QED
  BY <1>2, <1>3, <1>4, <1>6, <1>7, <1>8, <1>9, ServesOn

\* NotHandled leads somewhere with a job that fits.
LEMMA NotHandledGoes ==
  ASSUME TypeInv, NEW t \in Threads, NEW from \in {"find", "take"}, NotHandled(t, from)
  PROVE  \E to \in {"idle", "wait"}, j \in {NoJob} \cup ServeJobs :
           /\ GoTo(t, from, to) /\ (to # "idle" => j \in ServeJobs) /\ job' = [job EXCEPT ![t] = j]
<1>1. CASE job[t].fresh
  <2> DEFINE j == [job[t] EXCEPT !.fresh = FALSE, !.slot = NONE]
  <2>1. GoTo(t, from, "wait") /\ job' = [job EXCEPT ![t] = j]
    BY <1>1 DEF NotHandled
  <2>2. job[t] \in ServeJobs
    BY <2>1 DEF TypeInv, JobsFit, GoTo
  <2>3. j \in ServeJobs
    BY <2>2 DEF ServeJobs
  <2> HIDE DEF j
  <2>4. QED
    BY <2>1, <2>3
<1>2. CASE ~job[t].fresh
  <2>1. GoTo(t, from, "idle") /\ job' = [job EXCEPT ![t] = NoJob]
    BY <1>2 DEF NotHandled
  <2>2. QED
    BY <2>1
<1>3. QED
  BY <1>1, <1>2

LEMMA find_type ==
  ASSUME TypeInv, NEW t \in Threads, find_incoming(t) PROVE TypeInv'
<1> DEFINE found == In!find_first_body(inpool[BoxOf[t]], "todo", query_for_fn_group(t)).ret
<1>1. /\ UNCHANGED <<outpool, out, inpool, in, groups, counter, cookies, drain, ran>> /\ pc[t] = "find"
      /\ IF found \in In!Slots
         THEN GoTo(t, "find", "take") /\ job' = [job EXCEPT ![t].slot = found]
         ELSE NotHandled(t, "find")
  BY DEF find_incoming
<1> HIDE DEF found
<1>2. CASE found \in In!Slots
  <2> DEFINE j == [job[t] EXCEPT !.slot = found]
             to == "take"
  <2>1. job[t] \in ServeJobs
    BY <1>1 DEF TypeInv, JobsFit
  <2>2. j \in ServeJobs /\ j.slot \in In!Slots /\ j \in {NoJob} \cup ServeJobs
    BY <1>2, <2>1 DEF ServeJobs
  <2>3. GoTo(t, "find", to) /\ job' = [job EXCEPT ![t] = j]
    BY <1>1, <1>2
  <2>4. to \in {"idle", "wait", "group", "list", "find", "take", "run", "done"}
    OBVIOUS
  <2> HIDE DEF j, to
  <2>5. QED
    BY <1>1, <2>2, <2>3, <2>4, GoesServing
<1>3. CASE found \notin In!Slots
  <2>1. PICK to \in {"idle", "wait"}, j \in {NoJob} \cup ServeJobs :
           /\ GoTo(t, "find", to) /\ (to # "idle" => j \in ServeJobs) /\ job' = [job EXCEPT ![t] = j]
    BY <1>1, <1>3, NotHandledGoes
  <2>2. to \in {"idle", "wait", "group", "list", "find", "take", "run", "done"} /\ to \notin {"take", "run", "done"}
    BY <2>1
  <2>3. QED
    BY <1>1, <2>1, <2>2, GoesServing
<1>4. QED
  BY <1>2, <1>3

LEMMA dequeue_type ==
  ASSUME TypeInv, NEW t \in Threads, dequeue_incoming(t) PROVE TypeInv'
<1> DEFINE b == BoxOf[t]
           r == In!dequeue_body(inpool[b], "todo", job[t].slot)
<1>1. /\ UNCHANGED <<outpool, out, in, groups, counter, cookies, drain, ran>> /\ pc[t] = "take"
      /\ inpool' = [inpool EXCEPT ![b] = r.mem]
      /\ IF r.ret \in In!Slots
         THEN GoTo(t, "take", "run") /\ UNCHANGED job
         ELSE NotHandled(t, "take")
  BY DEF dequeue_incoming
<1>2. job[t] \in ServeJobs /\ job[t].slot \in In!Slots /\ b \in Boxes /\ inpool[b] \in In!Memory
  BY <1>1, CalleeTypes DEF TypeInv, JobsFit
<1>3. r.mem \in In!Memory
  <2> DEFINE m == inpool[b]
             s == job[t].slot
  <2>1. In!dequeue(m, "todo", s) \in In!Memory
    BY <1>2, PoolTypes
  <2>2. r.mem \in {m, In!dequeue(m, "todo", s)}
    BY DEF In!dequeue_body, In!Result
  <2>3. QED
    BY <1>2, <2>1, <2>2
<1> HIDE DEF r, b
<1>4. /\ inpool' \in [Boxes -> In!Memory] /\ in' \in [Boxes -> [In!Slots -> InType]]
      /\ groups' \in [Boxes -> Seq(GroupType)] /\ (\A k \in Boxes : Len(groups'[k]) <= NumGroups)
      /\ DOMAIN ran' = Boxes /\ (\A k \in Boxes : ran'[k] \in [1 .. 2 * MaxCalls[k] -> Nat])
      /\ UNCHANGED <<outpool, out, counter, cookies, drain>>
  BY <1>1, <1>2, <1>3, CalleeTypes
<1>5. CASE r.ret \in In!Slots
  <2> DEFINE j == job[t]
             to == "run"
  <2>1. GoTo(t, "take", to) /\ job' = [job EXCEPT ![t] = j]
    BY <1>1, <1>5, KeepsJob
  <2>2. j \in ServeJobs /\ j.slot \in In!Slots /\ j \in {NoJob} \cup ServeJobs
    BY <1>2
  <2>3. to \in {"idle", "wait", "group", "list", "find", "take", "run", "done"}
    OBVIOUS
  <2> HIDE DEF j, to
  <2>4. QED
    BY <1>4, <2>1, <2>2, <2>3, ServesOn
<1>6. CASE r.ret \notin In!Slots
  <2>1. PICK to \in {"idle", "wait"}, j \in {NoJob} \cup ServeJobs :
           /\ GoTo(t, "take", to) /\ (to # "idle" => j \in ServeJobs) /\ job' = [job EXCEPT ![t] = j]
    BY <1>1, <1>6, NotHandledGoes
  <2>2. to \in {"idle", "wait", "group", "list", "find", "take", "run", "done"} /\ to \notin {"take", "run", "done"}
    BY <2>1
  <2>3. QED
    BY <1>4, <2>1, <2>2, ServesOn
<1>7. QED
  BY <1>5, <1>6

LEMMA Counted ==
  ASSUME NEW D, NEW f \in [D -> Nat], NEW c
  PROVE  [f EXCEPT ![c] = @ + 1] \in [D -> Nat]
<1>1. CASE c \in D
  <2>1. f[c] + 1 \in Nat
    BY <1>1
  <2>2. QED
    BY <1>1, <2>1
<1>2. CASE c \notin D
  <2>1. \A d \in D : [f EXCEPT ![c] = @ + 1][d] = f[d]
    BY <1>2
  <2>2. QED
    BY <2>1
<1>3. QED
  BY <1>1, <1>2

LEMMA dispatch_type ==
  ASSUME TypeInv, NEW t \in Threads, dispatch(t) PROVE TypeInv'
<1> DEFINE b == BoxOf[t]
           s == job[t].slot
           m == in[b][s]
           x == [m EXCEPT !.result = m.arg, !.state = "done"]
           a == m.arg[1]
           c == m.arg[2]
           j == job[t]
           to == "done"
<1>1. /\ UNCHANGED <<outpool, out, inpool, groups, counter, cookies, job, drain>>
      /\ in' = [in EXCEPT ![b][s] = x] /\ ran' = [ran EXCEPT ![a][c] = @ + 1] /\ GoTo(t, "run", to)
  BY DEF dispatch
<1>2. /\ j \in ServeJobs /\ s \in In!Slots /\ b \in Boxes /\ in \in [Boxes -> [In!Slots -> InType]]
      /\ DOMAIN ran = Boxes /\ (\A k \in Boxes : ran[k] \in [1 .. 2 * MaxCalls[k] -> Nat])
      /\ j \in {NoJob} \cup ServeJobs
  BY <1>1, CalleeTypes DEF TypeInv, JobsFit, GoTo
<1>3. m \in InType
  BY <1>2
<1>4. x \in InType
  <2> HIDE DEF m
  <2>1. QED
    BY <1>3 DEF InType
<1>5. DOMAIN ran' = Boxes /\ \A k \in Boxes : ran'[k] \in [1 .. 2 * MaxCalls[k] -> Nat]
  <2> HIDE DEF a, c
  <2>1. DOMAIN ran' = Boxes
    BY <1>1, <1>2
  <2>2. ASSUME NEW k \in Boxes PROVE ran'[k] \in [1 .. 2 * MaxCalls[k] -> Nat]
    <3>1. CASE k # a
      BY <1>1, <1>2, <3>1
    <3>2. CASE k = a
      <4>1. ran'[k] = [ran[k] EXCEPT ![c] = @ + 1]
        BY <1>1, <1>2, <3>2
      <4>3. ran[k] \in [1 .. 2 * MaxCalls[k] -> Nat]
        BY <1>2
      <4>4. QED
        <5> DEFINE D == 1 .. 2 * MaxCalls[k]
                   f == ran[k]
        <5>1. f \in [D -> Nat] /\ ran'[k] = [f EXCEPT ![c] = @ + 1]
          BY <4>1, <4>3
        <5> HIDE DEF D, f
        <5>2. [f EXCEPT ![c] = @ + 1] \in [D -> Nat]
          BY <5>1, Counted
        <5>3. ran'[k] \in [D -> Nat]
          BY <5>1, <5>2, Zenon
        <5>4. QED
          BY <5>3 DEF D
    <3>3. QED
      BY <3>1, <3>2
  <2>3. QED
    BY <2>1, <2>2
<1> HIDE DEF x, a, c, b, s
<1>6. in' \in [Boxes -> [In!Slots -> InType]]
  <2>1. [in EXCEPT ![b][s] = x] \in [Boxes -> [In!Slots -> InType]]
    BY <1>2, <1>4, Rewritten
  <2>2. QED
    BY <1>1, <2>1
<1>7. /\ inpool' \in [Boxes -> In!Memory]
      /\ groups' \in [Boxes -> Seq(GroupType)] /\ (\A k \in Boxes : Len(groups'[k]) <= NumGroups)
      /\ UNCHANGED <<outpool, out, counter, cookies, drain>>
  BY <1>1, CalleeTypes
<1>8. job' = [job EXCEPT ![t] = j]
  BY <1>1, KeepsJob
<1>9. to \in {"idle", "wait", "group", "list", "find", "take", "run", "done"} /\ j.slot \in In!Slots
  BY <1>2 DEF s
<1>10. GoTo(t, "run", to) /\ j \in ServeJobs /\ j \in {NoJob} \cup ServeJobs
  BY <1>1, <1>2
<1> HIDE DEF j, to, m
<1>11. QED
  BY <1>5, <1>6, <1>7, <1>8, <1>9, <1>10, ServesOn

LEMMA done_type ==
  ASSUME TypeInv, NEW t \in Threads, enqueue_done(t) PROVE TypeInv'
<1> DEFINE b == BoxOf[t]
           s == job[t].slot
           to == "idle"
           j == NoJob
           m == In!enqueue(inpool[b], "done", s)
<1>1. /\ UNCHANGED <<outpool, out, in, groups, counter, cookies, drain, ran>> /\ GoTo(t, "done", to)
      /\ inpool' = [inpool EXCEPT ![b] = m] /\ job' = [job EXCEPT ![t] = j]
  BY DEF enqueue_done
<1>2. s \in In!Slots /\ b \in Boxes /\ inpool[b] \in In!Memory
  BY <1>1, CalleeTypes DEF TypeInv, JobsFit, GoTo
<1>3. m \in In!Memory
  BY <1>2, PoolTypes
<1> HIDE DEF m, b, s
<1>4. /\ inpool' \in [Boxes -> In!Memory] /\ in' \in [Boxes -> [In!Slots -> InType]]
      /\ groups' \in [Boxes -> Seq(GroupType)] /\ (\A k \in Boxes : Len(groups'[k]) <= NumGroups)
      /\ DOMAIN ran' = Boxes /\ (\A k \in Boxes : ran'[k] \in [1 .. 2 * MaxCalls[k] -> Nat])
      /\ UNCHANGED <<outpool, out, counter, cookies, drain>>
  BY <1>1, <1>2, <1>3, CalleeTypes
<1>5. /\ to \in {"idle", "wait", "group", "list", "find", "take", "run", "done"}
      /\ to \notin {"take", "run", "done"} /\ to = "idle" /\ j \in {NoJob} \cup ServeJobs
  OBVIOUS
<1> HIDE DEF j, to
<1>6. QED
  BY <1>1, <1>4, <1>5, ServesOn

----------------------------------------------------------------------------
\* The core.

DrainType == [box : Boxes \cup {NONE}, phase : {"none", "messages", "results"},
              first : OutSlots \cup {NONE}, tick : BOOLEAN,
              held : SUBSET (Boxes \X {"out", "in", "groups"})]

LEMMA CoreType ==
  ASSUME TypeInv, UNCHANGED <<counter, cookies, pc, job, ran>>,
         outpool' \in [Boxes -> [free : Seq(OutSlots), queue : Seq(OutSlots)]],
         out' \in [Boxes -> [OutSlots -> OutType]],
         \A b \in Boxes, s \in OutSlots : out'[b][s].gateway = out[b][s].gateway /\ out'[b][s].match = out[b][s].match,
         inpool' \in [Boxes -> In!Memory], in' \in [Boxes -> [In!Slots -> InType]],
         groups' \in [Boxes -> Seq(GroupType)], \A b \in Boxes : Len(groups'[b]) <= NumGroups,
         drain' \in DrainType, drain'.phase # "none" => drain'.box \in Boxes
  PROVE  TypeInv'
<1>1. CookiesFit'
  BY CookiesKept
<1>2. JobsFit'
  BY DEF TypeInv, JobsFit
<1>3. TypeOK'
  BY DEF TypeInv, TypeOK, GroupType, DrainType
<1>4. QED
  BY <1>1, <1>2, <1>3 DEF TypeInv

LEMMA switch_type ==
  ASSUME TypeInv, NEW b \in Boxes, thread_switch(b) PROVE TypeInv'
<1>1. PICK held \in SUBSET (MayHold \cap ({<<b, "out">>} \cup Boxes \X {"in"})) :
       drain' = [box |-> b, phase |-> "messages", first |-> NONE, held |-> held, tick |-> FALSE]
  BY DEF thread_switch
<1>2. held \in SUBSET (Boxes \X {"out", "in", "groups"})
  BY <1>1
<1>3. drain' \in DrainType /\ drain'.box \in Boxes
  BY <1>1, <1>2 DEF DrainType
<1>4. UNCHANGED <<outpool, out, inpool, in, groups, counter, cookies, pc, job, ran>>
  BY DEF thread_switch
<1>5. /\ JobsFit' /\ CookiesFit'
  BY <1>4 DEF TypeInv, JobsFit, CookiesFit
<1>6. TypeOK'
  BY <1>3, <1>4 DEF TypeInv, TypeOK, DrainType
<1>7. QED
  BY <1>3, <1>4, <1>5, <1>6 DEF TypeInv

\* What the core finds in the outgoing queue.
LEMMA QueueFacts ==
  ASSUME TypeInv, CanDequeue
  PROVE  /\ drain.box \in Boxes /\ OutQueue \in Seq(OutSlots) /\ OutQueue # <<>>
         /\ Slot \in OutSlots /\ Message \in OutType /\ Message = out[drain.box][Slot]
         /\ Tail(OutQueue) \in Seq(OutSlots) /\ PutBack(OutQueue) \in Seq(OutSlots)
         /\ Message.gateway.valid => Callee \in Boxes
<1>1. drain.box \in Boxes /\ OutQueue # <<>>
  BY DEF TypeInv, CanDequeue
<1>2. OutQueue \in Seq(OutSlots) /\ out \in [Boxes -> [OutSlots -> OutType]]
  BY <1>1 DEF TypeInv, TypeOK, OutQueue
<1>3. Slot \in OutSlots /\ Tail(OutQueue) \in Seq(OutSlots)
  BY <1>1, <1>2, TailRange DEF Slot
<1>4. PutBack(OutQueue) \in Seq(OutSlots)
  BY <1>3, AppendRange DEF PutBack, Slot
<1>5. Message \in OutType
  BY <1>1, <1>2, <1>3 DEF Message
<1>6. ASSUME Message.gateway.valid PROVE Callee \in Boxes
  <2>1. Message.gateway \in Gateways \cup {NoGateway}
    BY <1>5 DEF OutType, GatewayType
  <2>2. NoGateway.valid = FALSE
    BY DEF NoGateway
  <2>3. Message.gateway \in Gateways
    BY <1>6, <2>1, <2>2
  <2>4. QED
    BY <1>6, <2>3, RpcAssumption DEF Callee
<1>7. QED
  BY <1>1, <1>2, <1>3, <1>4, <1>5, <1>6 DEF Message

LEMMA NextPhaseType ==
  ASSUME TypeInv, drain.phase = "messages", NextPhase
  PROVE  drain' \in DrainType /\ drain'.box \in Boxes
<1>1. drain \in DrainType /\ drain.box \in Boxes
  BY DEF TypeInv, TypeOK, DrainType
<1>2. QED
  BY <1>1 DEF NextPhase, DrainType

LEMMA VisitType ==
  ASSUME TypeInv, Visit
  PROVE  drain' \in DrainType /\ drain'.box \in Boxes /\ CanDequeue
<1>1. drain \in DrainType /\ drain.box \in Boxes /\ Slot \in OutSlots /\ CanDequeue
  BY QueueFacts DEF TypeInv, TypeOK, DrainType, Visit
<1>2. drain' = [drain EXCEPT !.first = IF drain.first = NONE THEN Slot ELSE drain.first, !.tick = ~drain.tick]
  BY DEF Visit
<1>3. (IF drain.first = NONE THEN Slot ELSE drain.first) \in OutSlots \cup {NONE}
  BY <1>1 DEF DrainType
<1>4. (~drain.tick) \in BOOLEAN
  OBVIOUS
<1>5. QED
  BY <1>1, <1>2, <1>3, <1>4 DEF DrainType

\* The queue of the box that is drained becomes q.
LEMMA QueueType ==
  ASSUME TypeInv, drain.box \in Boxes, NEW q \in Seq(OutSlots),
         outpool' = [outpool EXCEPT ![drain.box].queue = q]
  PROVE  outpool' \in [Boxes -> [free : Seq(OutSlots), queue : Seq(OutSlots)]]
<1>1. outpool \in [Boxes -> [free : Seq(OutSlots), queue : Seq(OutSlots)]]
  BY DEF TypeInv, TypeOK
<1>2. QED
  BY <1>1

\* The steps of the core that change nothing but the queue and the drain.
LEMMA queue_type ==
  ASSUME TypeInv,
         drain_message_stop \/ drain_message_seen \/ drain_message_drop \/ drain_message_busy \/ drain_result_stop
  PROVE  TypeInv'
<1>1. UNCHANGED <<out, inpool, in, groups, counter, cookies, pc, job, ran>>
  BY DEF drain_message_stop, drain_message_seen, drain_message_drop, drain_message_busy, drain_result_stop
<1>2. outpool' \in [Boxes -> [free : Seq(OutSlots), queue : Seq(OutSlots)]]
  <2>1. CASE UNCHANGED outpool
    BY <2>1 DEF TypeInv, TypeOK
  <2>2. CASE drain_message_seen \/ drain_message_busy
    <3>1. CanDequeue /\ outpool' = [outpool EXCEPT ![drain.box].queue = PutBack(OutQueue)]
      BY <2>2 DEF drain_message_seen, drain_message_busy, Visit, OutQueue
    <3>2. drain.box \in Boxes /\ PutBack(OutQueue) \in Seq(OutSlots)
      BY <3>1, QueueFacts
    <3>3. QED
      BY <3>1, <3>2, QueueType
  <2>3. CASE drain_message_drop
    <3>1. CanDequeue /\ outpool' = [outpool EXCEPT ![drain.box].queue = Tail(OutQueue)]
      BY <2>3 DEF drain_message_drop, Visit, OutQueue
    <3>2. drain.box \in Boxes /\ Tail(OutQueue) \in Seq(OutSlots)
      BY <3>1, QueueFacts
    <3>3. QED
      BY <3>1, <3>2, QueueType
  <2>4. QED
    BY <2>1, <2>2, <2>3 DEF drain_message_stop, drain_result_stop
<1>3. drain' \in DrainType /\ (drain'.phase # "none" => drain'.box \in Boxes)
  <2>1. CASE drain_message_stop \/ drain_message_seen
    <3>1. drain.phase = "messages" /\ NextPhase
      BY <2>1 DEF drain_message_stop, drain_message_seen, CanDequeue
    <3>2. QED
      BY <3>1, NextPhaseType
  <2>2. CASE drain_message_drop \/ drain_message_busy
    BY <2>2, VisitType DEF drain_message_drop, drain_message_busy
  <2>3. CASE drain_result_stop
    BY <2>3 DEF drain_result_stop, Idle, DrainType
  <2>4. QED
    BY <2>1, <2>2, <2>3
<1>4. /\ out' \in [Boxes -> [OutSlots -> OutType]]
      /\ \A b \in Boxes, s \in OutSlots : out'[b][s].gateway = out[b][s].gateway /\ out'[b][s].match = out[b][s].match
      /\ inpool' \in [Boxes -> In!Memory] /\ in' \in [Boxes -> [In!Slots -> InType]]
      /\ groups' \in [Boxes -> Seq(GroupType)] /\ \A b \in Boxes : Len(groups'[b]) <= NumGroups
  BY <1>1, CalleeTypes DEF TypeInv, TypeOK
<1>5. UNCHANGED <<counter, cookies, pc, job, ran>>
  BY <1>1
<1>6. QED
  BY <1>2, <1>3, <1>4, <1>5, CoreType

\* The message that is delivered is marked as sent.
LEMMA DeliverSteps ==
  ASSUME TypeInv, drain_message_deliver
  PROVE  /\ CanDequeue /\ Callee \in Boxes /\ inpool[Callee].first_free \in In!Slots
         /\ Patches(drain.box, Slot, [Message EXCEPT !.peer = Callee, !.state = "sent"])
         /\ outpool' = [outpool EXCEPT ![drain.box].queue = Tail(OutQueue)]
<1>1. CanDequeue /\ Message.gateway.valid /\ inpool[Callee].first_free \in In!Slots
  BY DEF drain_message_deliver, Visit, CalleeBusy
<1>2. /\ drain.box \in Boxes /\ Slot \in OutSlots /\ Message \in OutType /\ Message = out[drain.box][Slot]
      /\ Callee \in Boxes
  BY <1>1, QueueFacts
<1>3. outpool' = [outpool EXCEPT ![drain.box].queue = Tail(OutQueue)]
  BY DEF drain_message_deliver, OutQueue
<1> DEFINE m == [Message EXCEPT !.peer = Callee, !.state = "sent"]
<1>4. m \in OutType /\ m.gateway = Message.gateway /\ m.match = Message.match
  BY <1>2 DEF OutType
<1>5. out' = [out EXCEPT ![drain.box][Slot] = m]
  BY <1>2 DEF drain_message_deliver
<1>6. Patches(drain.box, Slot, m)
  BY <1>2, <1>4, <1>5 DEF Patches
<1>7. QED
  BY <1>1, <1>2, <1>3, <1>6

LEMMA deliver_type ==
  ASSUME TypeInv, drain_message_deliver PROVE TypeInv'
<1> DEFINE s == inpool[Callee].first_free
           m == In!enqueue(In!pool_alloc(inpool[Callee]), "todo", s)
           G == Posted(groups[Callee], Message.gateway.fn)
<1>1. /\ CanDequeue /\ Callee \in Boxes /\ s \in In!Slots
      /\ Patches(drain.box, Slot, [Message EXCEPT !.peer = Callee, !.state = "sent"])
      /\ outpool' = [outpool EXCEPT ![drain.box].queue = Tail(OutQueue)]
  BY DeliverSteps
<1>2. drain.box \in Boxes /\ Tail(OutQueue) \in Seq(OutSlots) /\ Message \in OutType
  BY <1>1, QueueFacts
<1>3. outpool' \in [Boxes -> [free : Seq(OutSlots), queue : Seq(OutSlots)]]
  BY <1>1, <1>2, QueueType
<1>4. /\ out' \in [Boxes -> [OutSlots -> OutType]]
      /\ \A b \in Boxes, k \in OutSlots : out'[b][k].gateway = out[b][k].gateway /\ out'[b][k].match = out[b][k].match
  BY <1>1, Patched
<1>5. drain' \in DrainType /\ (drain'.phase # "none" => drain'.box \in Boxes)
  BY VisitType DEF drain_message_deliver
<1>6. inpool[Callee] \in In!Memory /\ in[Callee] \in [In!Slots -> InType] /\ groups[Callee] \in Seq(GroupType)
      /\ Len(groups[Callee]) <= NumGroups
  BY <1>1, CalleeTypes
<1>7. inpool' \in [Boxes -> In!Memory]
  <2>1. In!pool_alloc(inpool[Callee]) \in In!Memory
    BY <1>1, <1>6, PoolTypes
  <2>2. m \in In!Memory
    BY <1>1, <2>1, PoolTypes
  <2>3. inpool' = [inpool EXCEPT ![Callee] = m]
    BY DEF drain_message_deliver
  <2> HIDE DEF m
  <2>4. QED
    BY <1>1, <2>2, <2>3, CalleeTypes
<1>8. in' \in [Boxes -> [In!Slots -> InType]]
  <2>1. in[Callee][s] \in InType
    BY <1>1, <1>6
  <2>2. Delivered \in InType
    BY <1>2, <2>1 DEF Delivered, InType, OutType
  <2>3. in' = [in EXCEPT ![Callee][s] = Delivered]
    BY DEF drain_message_deliver
  <2> HIDE DEF s
  <2>4. [in EXCEPT ![Callee][s] = Delivered] \in [Boxes -> [In!Slots -> InType]]
    BY <1>1, <2>2, CalleeTypes, Rewritten
  <2>5. QED
    BY <2>3, <2>4
<1>9. groups' \in [Boxes -> Seq(GroupType)] /\ \A b \in Boxes : Len(groups'[b]) <= NumGroups
  <2>1. G \in Seq(GroupType) /\ Len(G) = Len(groups[Callee])
    <3> DEFINE H == groups[Callee]
               fn == Message.gateway.fn
               L == Len(H)
    <3>1. L \in Nat /\ DOMAIN H = 1 .. L /\ \A i \in 1 .. L : H[i] \in GroupType
      BY <1>6
    <3>2. \A i \in 1 .. L : (IF H[i].listed /\ fn \in H[i].fns THEN [H[i] EXCEPT !.sem = 1] ELSE H[i]) \in GroupType
      BY <3>1 DEF GroupType
    <3> HIDE DEF H, fn, L
    <3>3. Posted(H, fn) = [i \in 1 .. L |-> IF H[i].listed /\ fn \in H[i].fns THEN [H[i] EXCEPT !.sem = 1] ELSE H[i]]
      BY <3>1 DEF Posted
    <3>4. Posted(H, fn) \in Seq(GroupType) /\ Len(Posted(H, fn)) = L
      BY <3>1, <3>2, <3>3
    <3>5. QED
      BY <3>4 DEF H, fn, L
  <2>2. groups' = [groups EXCEPT ![Callee] = G]
    BY DEF drain_message_deliver
  <2> HIDE DEF G
  <2>3. QED
    BY <1>1, <1>6, <2>1, <2>2, CalleeTypes
<1>10. UNCHANGED <<counter, cookies, pc, job, ran>>
  BY DEF drain_message_deliver
<1>11. QED
  BY <1>3, <1>4, <1>5, <1>7, <1>8, <1>9, <1>10, CoreType

\* A result completes a call that was sent, or changes no outgoing message.
LEMMA ResultSteps ==
  ASSUME TypeInv, drain_result
  PROVE  \/ UNCHANGED out
         \/ \E b \in Boxes, s \in OutSlots, m \in OutType :
              Patches(b, s, m) /\ out[b][s].state = "sent" /\ m.state = "done" /\ m.sem = 1 /\ m.wait = out[b][s].wait
<1> DEFINE b == Result.peer
           s == Result.match.slot
           m == [out[b][s] EXCEPT !.result = Result.result, !.state = "done", !.sem = 1]
<1>1. out \in [Boxes -> [OutSlots -> OutType]]
  BY DEF TypeInv, TypeOK
<1>2. CASE ~Expected(out[b][s], Result)
  BY <1>2 DEF drain_result
<1>3. CASE Expected(out[b][s], Result)
  <2>1. out' = [out EXCEPT ![b][s] = m] /\ out[b][s].state = "sent"
    BY <1>3 DEF drain_result, Expected
  <2>2. Result.result \in ArgType
    <3>1. drain.box \in Boxes /\ DoneSlot \in In!Slots
      BY DEF drain_result, TypeInv, HasResult
    <3>2. Result \in InType
      BY <3>1, CalleeTypes DEF Result
    <3>3. QED
      BY <3>2 DEF InType
  <2> HIDE DEF b, s
  <2>3. CASE b \in Boxes /\ s \in OutSlots
    <3>1. out[b][s] \in OutType
      BY <1>1, <2>3
    <3>2. /\ m \in OutType /\ m.gateway = out[b][s].gateway /\ m.match = out[b][s].match
          /\ m.state = "done" /\ m.sem = 1 /\ m.wait = out[b][s].wait
      <4> DEFINE o == out[b][s]
                 r == Result.result
      <4>1. o \in OutType /\ r \in ArgType /\ m = [o EXCEPT !.result = r, !.state = "done", !.sem = 1]
        BY <2>2, <3>1
      <4> HIDE DEF o, r, m
      <4>2. m \in OutType
        <5> DEFINE n == 1
                   d == "done"
        <5>1. n \in 0 .. 1 /\ d \in {"invalid", "ready", "sent", "done"} /\ m = [o EXCEPT !.result = r, !.state = d, !.sem = n]
          BY <4>1
        <5> HIDE DEF n, d
        <5>2. QED
          BY <4>1, <5>1 DEF OutType
      <4>3. m.gateway = o.gateway /\ m.match = o.match /\ m.wait = o.wait
        BY <4>1 DEF OutType
      <4>4. m.state = "done" /\ m.sem = 1
        BY <4>1 DEF OutType
      <4>5. QED
        BY <4>2, <4>3, <4>4 DEF o
    <3>3. Patches(b, s, m)
      BY <2>1, <2>3, <3>2 DEF Patches
    <3>4. QED
      BY <2>1, <2>3, <3>2, <3>3
  <2>4. CASE b \notin Boxes
    <3> HIDE DEF m
    <3>1. QED
      BY <1>1, <2>1, <2>4
  <2>5. CASE b \in Boxes /\ s \notin OutSlots
    <3> HIDE DEF m
    <3>1. [out[b] EXCEPT ![s] = m] = out[b]
      BY <1>1, <2>5
    <3>2. out' = [out EXCEPT ![b] = [out[b] EXCEPT ![s] = m]]
      BY <2>1
    <3>3. QED
      BY <1>1, <2>5, <3>1, <3>2
  <2>6. QED
    BY <2>3, <2>4, <2>5
<1>4. QED
  BY <1>2, <1>3

LEMMA drain_result_type ==
  ASSUME TypeInv, drain_result PROVE TypeInv'
<1> DEFINE m == In!dequeue(inpool[drain.box], "done", DoneSlot)
<1>1. drain.box \in Boxes /\ DoneSlot \in In!Slots /\ drain \in DrainType
  BY DEF drain_result, TypeInv, TypeOK, DrainType, HasResult
<1>2. /\ out' \in [Boxes -> [OutSlots -> OutType]]
      /\ \A b \in Boxes, k \in OutSlots : out'[b][k].gateway = out[b][k].gateway /\ out'[b][k].match = out[b][k].match
  <2>1. CASE UNCHANGED out
    BY <2>1 DEF TypeInv, TypeOK
  <2>2. CASE \E b \in Boxes, s \in OutSlots, x \in OutType : Patches(b, s, x)
    BY <2>2, Patched
  <2>3. QED
    BY <2>1, <2>2, ResultSteps
<1>3. inpool[drain.box] \in In!Memory /\ in \in [Boxes -> [In!Slots -> InType]]
  BY <1>1, CalleeTypes
<1>4. m \in In!Memory /\ In!pool_free(m, DoneSlot) \in In!Memory
  <2>1. m \in In!Memory
    BY <1>1, <1>3, PoolTypes
  <2> HIDE DEF m
  <2>2. QED
    BY <1>1, <2>1, PoolTypes
<1>5. \E x \in In!Memory : inpool' = [inpool EXCEPT ![drain.box] = x]
  <2>1. inpool' = [inpool EXCEPT ![drain.box] = In!pool_free(m, DoneSlot)] \/ inpool' = [inpool EXCEPT ![drain.box] = m]
    BY DEF drain_result
  <2> HIDE DEF m
  <2>2. QED
    BY <1>4, <2>1
<1>6. inpool' \in [Boxes -> In!Memory]
  BY <1>1, <1>5, CalleeTypes
<1>7. in' \in [Boxes -> [In!Slots -> InType]]
  <2> DEFINE x == [in[drain.box][DoneSlot] EXCEPT !.state = "idle"]
  <2>1. in' = [in EXCEPT ![drain.box][DoneSlot] = x] \/ in' = in
    BY DEF drain_result
  <2>2. in[drain.box][DoneSlot] \in InType
    BY <1>1, <1>3
  <2>3. x \in InType
    BY <2>2 DEF InType
  <2> HIDE DEF x
  <2>4. [in EXCEPT ![drain.box][DoneSlot] = x] \in [Boxes -> [In!Slots -> InType]]
    BY <1>1, <1>3, <2>3, Rewritten
  <2>5. QED
    BY <1>3, <2>1, <2>4
<1>8. drain' \in DrainType /\ (drain'.phase # "none" => drain'.box \in Boxes)
  <2>1. drain' = [drain EXCEPT !.tick = ~drain.tick] /\ (~drain.tick) \in BOOLEAN
    BY DEF drain_result
  <2>2. QED
    BY <1>1, <2>1 DEF DrainType
<1>9. UNCHANGED <<outpool, groups, counter, cookies, pc, job, ran>>
  BY DEF drain_result
<1>10. /\ outpool' \in [Boxes -> [free : Seq(OutSlots), queue : Seq(OutSlots)]]
       /\ groups' \in [Boxes -> Seq(GroupType)] /\ \A b \in Boxes : Len(groups'[b]) <= NumGroups
       /\ UNCHANGED <<counter, cookies, pc, job, ran>>
  BY <1>9, CalleeTypes DEF TypeInv, TypeOK
<1>11. QED
  BY <1>2, <1>6, <1>7, <1>8, <1>10, CoreType

LEMMA TypeStep == TypeInv /\ [Next]_vars => TypeInv'
<1> SUFFICES ASSUME TypeInv, [Next]_vars PROVE TypeInv'
  OBVIOUS
<1>1. ASSUME NEW t \in Threads,
             \/ rpc_fncall(t) \/ rpc_fncall_wait(t) \/ wait_timeout(t) \/ Call(t)
             \/ Serving(t) \/ pend_group(t) \/ waitfor_timeout(t)
      PROVE  TypeInv'
  BY <1>1, fncall_type, full_type, send_type, enqueue_type, wait_type, result_type, timeout_type, free_type,
     waitfor_type, allocate_type, list_type, find_type, dequeue_type, dispatch_type, done_type DEF Call, Serving
<1>2. ASSUME NEW b \in Boxes, thread_switch(b) PROVE TypeInv'
  BY <1>2, switch_type
<1>3. CASE Drain
  BY <1>3, queue_type, deliver_type, drain_result_type DEF Drain
<1>4. CASE UNCHANGED vars
  BY <1>4 DEF vars, TypeInv, TypeOK, JobsFit, CookiesFit
<1>5. QED
  BY <1>1, <1>2, <1>3, <1>4 DEF Next

\* Every variable has its type, whatever the interleaving: threads only use
\* slots they were given, and the core follows no invalid gateway.
THEOREM RpcTypes == Spec => []TypeOK
<1>1. TypeInv => TypeOK
  BY DEF TypeInv
<1>2. QED
  BY <1>1, TypeInit, TypeStep, PTL DEF Spec

----------------------------------------------------------------------------
(***************************************************************************)
(* The outgoing pool.  A slot is on the free list, in the hands of one     *)
(* thread, in the queue, with the core, or waiting for its waiter; what    *)
(* keeps these apart is its state, its semaphore and the wait cookie.      *)
(***************************************************************************)

SlotOK(b, s) ==
  LET m == out[b][s] IN
  /\ m.sem # 0 => m.state = "done"
  /\ s \in QueuedOut(b) => m.state = "ready"
  /\ m.wait.slot \in {s, NONE}
  /\ s \in FreeOut(b) =>
       m.state \in {"invalid", "done"} /\ m.sem = 0 /\ m.wait \notin cookies[b]

UserOK(t) ==
  LET b == BoxOf[t]
      s == job[t].slot
      m == out[b][s]
  IN  Uses(t) =>
        /\ s \notin FreeOut(b) /\ m.wait \notin cookies[b]
        /\ pc[t] = "send" => m.state = "ready" /\ s \notin QueuedOut(b) /\ m.match = m.wait
        /\ pc[t] = "free" => m.state = "done" /\ m.sem = 0

PoolsDistinct == \A b \in Boxes : Distinct(outpool[b].free) /\ Distinct(outpool[b].queue)

OutInv ==
  /\ PoolsDistinct
  /\ \A b \in Boxes : \A s \in OutSlots : SlotOK(b, s)
  /\ \A t \in Threads : UserOK(t)
  /\ WaiterUnique

LEMMA PoolRanges ==
  ASSUME NEW b
  PROVE  FreeOut(b) = Range(outpool[b].free) /\ QueuedOut(b) = Range(outpool[b].queue)
  BY DEF FreeOut, QueuedOut, F!Range, Range

LEMMA SlotKept ==
  ASSUME NEW b, NEW s, SlotOK(b, s), out'[b][s] = out[b][s],
         s \in QueuedOut(b)' => s \in QueuedOut(b), s \in FreeOut(b)' => s \in FreeOut(b),
         out[b][s].wait \in cookies'[b] => out[b][s].wait \in cookies[b]
  PROVE  SlotOK(b, s)'
  BY DEF SlotOK

LEMMA UserKept ==
  ASSUME NEW t, UserOK(t), Uses(t)' => pc'[t] = pc[t] /\ job'[t] = job[t],
         out'[BoxOf[t]][job[t].slot] = out[BoxOf[t]][job[t].slot],
         job[t].slot \in FreeOut(BoxOf[t])' => job[t].slot \in FreeOut(BoxOf[t]),
         pc[t] = "send" /\ job[t].slot \in QueuedOut(BoxOf[t])' => job[t].slot \in QueuedOut(BoxOf[t]),
         out[BoxOf[t]][job[t].slot].wait \in cookies'[BoxOf[t]]
           => out[BoxOf[t]][job[t].slot].wait \in cookies[BoxOf[t]]
  PROVE  UserOK(t)'
<1>1. CASE ~Uses(t)'
  BY <1>1 DEF UserOK
<1>2. CASE Uses(t)'
  <2>1. pc'[t] = pc[t] /\ job'[t] = job[t] /\ Uses(t)
    BY <1>2 DEF Uses
  <2>2. QED
    BY <2>1 DEF UserOK
<1>3. QED
  BY <1>1, <1>2

LEMMA OutInit == Init => OutInv
<1> SUFFICES ASSUME Init PROVE OutInv
  OBVIOUS
<1>1. \A b \in Boxes : outpool[b].free = [s \in OutSlots |-> s] /\ outpool[b].queue = <<>>
  BY DEF Init
<1>2. \A b \in Boxes : \A s \in OutSlots : out[b][s] = NoOut
  BY DEF Init
<1>3. \A b \in Boxes : cookies[b] = {}
  BY DEF Init
<1>4. \A t \in Threads : ~Uses(t)
  BY DEF Init, Uses
<1>5. PoolsDistinct
  <2> DEFINE q == [s \in OutSlots |-> s]
  <2>1. q \in Seq(OutSlots) /\ Len(q) = NumOut /\ \A i \in 1 .. NumOut : q[i] = i
    BY RpcAssumption DEF OutSlots
  <2>2. Distinct(q) /\ Distinct(<<>>)
    BY <2>1 DEF Distinct
  <2>3. QED
    BY <1>1, <2>2 DEF PoolsDistinct
<1>6. ASSUME NEW b \in Boxes, NEW s \in OutSlots PROVE SlotOK(b, s)
  <2>1. QueuedOut(b) = {}
    <3>1. <<>> \in Seq(OutSlots) /\ Len(<<>>) = 0
      OBVIOUS
    <3>2. Range(<<>>) = {<<>>[i] : i \in 1 .. 0}
      BY <3>1, RangeIs
    <3>3. Range(<<>>) = {}
      BY <3>2
    <3>4. QueuedOut(b) = Range(<<>>)
      BY <1>1, PoolRanges
    <3>5. QED
      BY <3>3, <3>4, Zenon
  <2>2. QED
    BY <1>2, <1>3, <1>6, <2>1 DEF SlotOK, NoOut, NullCookie, Cookie, NONE
<1>7. \A t \in Threads : UserOK(t)
  BY <1>4 DEF UserOK
<1>8. WaiterUnique
  BY <1>4 DEF WaiterUnique
<1>9. QED
  BY <1>5, <1>6, <1>7, <1>8 DEF OutInv

\* What a step that leaves the pool alone keeps.
LEMMA PoolKept ==
  ASSUME UNCHANGED outpool
  PROVE  \A b : FreeOut(b)' = FreeOut(b) /\ QueuedOut(b)' = QueuedOut(b)
  BY DEF FreeOut, QueuedOut

\* Threads use the slots they used.
LEMMA UniqueKept ==
  ASSUME WaiterUnique, \A t \in Threads : Uses(t)' => Uses(t) /\ job'[t].slot = job[t].slot
  PROVE  WaiterUnique'
  BY DEF WaiterUnique

LEMMA FrameOut ==
  ASSUME OutInv, UNCHANGED <<outpool, out, cookies>>,
         \A t \in Threads : Uses(t)' => pc'[t] = pc[t] /\ job'[t] = job[t]
  PROVE  OutInv'
<1>1. \A b : FreeOut(b)' = FreeOut(b) /\ QueuedOut(b)' = QueuedOut(b)
  BY PoolKept
<1>2. ASSUME NEW b \in Boxes, NEW s \in OutSlots PROVE SlotOK(b, s)'
  BY <1>1, SlotKept DEF OutInv
<1>3. ASSUME NEW t \in Threads PROVE UserOK(t)'
  <2>1. UserOK(t)
    BY DEF OutInv
  <2>2. QED
    BY <1>1, <2>1, UserKept
<1>4. WaiterUnique'
  <2>1. \A t \in Threads : Uses(t)' => Uses(t)
    BY DEF Uses
  <2>2. QED
    BY <2>1, UniqueKept DEF OutInv
<1>5. PoolsDistinct'
  BY DEF OutInv, PoolsDistinct, Distinct
<1>6. QED
  BY <1>2, <1>3, <1>4, <1>5 DEF OutInv

\* A thread that goes where it uses no slot.
LEMMA LeavesOut ==
  ASSUME TypeInv, NEW t \in Threads, NEW from, NEW to, to \notin {"send", "pend", "free"}, GoTo(t, from, to),
         \A u \in Threads \ {t} : job'[u] = job[u]
  PROVE  ~Uses(t)' /\ \A u \in Threads : Uses(u)' => u # t /\ pc'[u] = pc[u] /\ job'[u] = job[u] /\ Uses(u)
<1>1. pc \in [Threads -> Places] /\ pc' = [pc EXCEPT ![t] = to]
  BY DEF TypeInv, TypeOK, GoTo
<1>2. pc'[t] = to /\ \A u \in Threads : u # t => pc'[u] = pc[u]
  BY <1>1
<1>3. ~Uses(t)'
  BY <1>2 DEF Uses
<1>4. QED
  BY <1>2, <1>3 DEF Uses

LEMMA OneJob ==
  ASSUME TypeInv, NEW t \in Threads, NEW j, job' = [job EXCEPT ![t] = j] \/ job' = job
  PROVE  \A u \in Threads \ {t} : job'[u] = job[u]
  BY DEF TypeInv, TypeOK

\* The steps of a server, and those of a caller without a slot.
LEMMA other_out ==
  ASSUME TypeInv, OutInv, NEW t \in Threads,
         \/ rpc_fncall(t) \/ send_outgoing_rpc_full(t) \/ wait_timeout(t)
         \/ Serving(t) \/ pend_group(t) \/ waitfor_timeout(t)
  PROVE  OutInv'
<1>1. UNCHANGED <<outpool, out, cookies>>
  BY DEF rpc_fncall, send_outgoing_rpc_full, wait_timeout, Serving, pend_group, waitfor_timeout,
     rpc_fncall_waitfor, allocate_function_group, list_function_group, find_incoming, dequeue_incoming,
     dispatch, enqueue_done
<1>2. job \in [Threads -> JobType]
  BY DEF TypeInv, TypeOK
<1>3. \E from, to : to \notin {"send", "pend", "free"} /\ GoTo(t, from, to)
  <2> DEFINE P(to) == to \notin {"send", "pend", "free"}
  <2>0. P("alloc") /\ P("idle") /\ P("group") /\ P("wait") /\ P("list") /\ P("find") /\ P("take") /\ P("run") /\ P("done")
    OBVIOUS
  <2> HIDE DEF P
  <2>1. CASE rpc_fncall(t) \/ send_outgoing_rpc_full(t) \/ wait_timeout(t) \/ pend_group(t) \/ waitfor_timeout(t)
    <3>1. \E from : GoTo(t, from, "alloc") \/ GoTo(t, from, "idle") \/ GoTo(t, from, "find")
      BY <2>1 DEF rpc_fncall, send_outgoing_rpc_full, wait_timeout, pend_group, waitfor_timeout
    <3>2. QED
      BY <2>0, <3>1 DEF P
  <2>2. CASE rpc_fncall_waitfor(t) \/ allocate_function_group(t) \/ list_function_group(t)
    <3>1. \E from : GoTo(t, from, "group") \/ GoTo(t, from, "wait") \/ GoTo(t, from, "idle") \/ GoTo(t, from, "list") \/ GoTo(t, from, "find")
      BY <2>2 DEF rpc_fncall_waitfor, allocate_function_group, list_function_group
    <3>2. QED
      BY <2>0, <3>1 DEF P
  <2>3. CASE find_incoming(t) \/ dequeue_incoming(t) \/ dispatch(t) \/ enqueue_done(t)
    <3>1. \E from : GoTo(t, from, "take") \/ GoTo(t, from, "run") \/ GoTo(t, from, "idle") \/ GoTo(t, from, "wait") \/ GoTo(t, from, "done")
      BY <2>3 DEF find_incoming, dequeue_incoming, NotHandled, dispatch, enqueue_done
    <3>2. QED
      BY <2>0, <3>1 DEF P
  <2>4. QED
    BY <2>1, <2>2, <2>3 DEF Serving
<1>4. \A u \in Threads \ {t} : job'[u] = job[u]
  <2>1. CASE rpc_fncall(t) \/ send_outgoing_rpc_full(t) \/ wait_timeout(t) \/ pend_group(t) \/ waitfor_timeout(t)
    BY <1>2, <2>1 DEF rpc_fncall, send_outgoing_rpc_full, wait_timeout, pend_group, waitfor_timeout
  <2>2. CASE rpc_fncall_waitfor(t) \/ allocate_function_group(t) \/ list_function_group(t)
    BY <1>2, <2>2 DEF rpc_fncall_waitfor, allocate_function_group, list_function_group
  <2>3. CASE find_incoming(t) \/ dequeue_incoming(t) \/ dispatch(t) \/ enqueue_done(t)
    BY <1>2, <2>3 DEF find_incoming, dequeue_incoming, NotHandled, dispatch, enqueue_done
  <2>4. QED
    BY <2>1, <2>2, <2>3 DEF Serving
<1>5. \A u \in Threads : Uses(u)' => pc'[u] = pc[u] /\ job'[u] = job[u]
  BY <1>3, <1>4, LeavesOut
<1>6. QED
  BY <1>1, <1>5, FrameOut

\* The ranges of the pool of box b.
LEMMA PoolTyped ==
  ASSUME TypeInv, NEW b \in Boxes
  PROVE  /\ outpool[b].free \in Seq(OutSlots) /\ outpool[b].queue \in Seq(OutSlots)
         /\ FreeOut(b) = Range(outpool[b].free) /\ QueuedOut(b) = Range(outpool[b].queue)
         /\ FreeOut(b) \subseteq OutSlots /\ QueuedOut(b) \subseteq OutSlots
<1>1. outpool[b].free \in Seq(OutSlots) /\ outpool[b].queue \in Seq(OutSlots)
  BY DEF TypeInv, TypeOK
<1>2. QED
  BY <1>1, PoolRanges, RangeIs

\* The pool of box b becomes one with free list f and queue q.
Pools(b, f, q) ==
  /\ outpool' = [outpool EXCEPT ![b] = [free |-> f, queue |-> q]]
  /\ b \in Boxes

LEMMA PoolParts ==
  ASSUME TypeInv, NEW b \in Boxes, NEW y
  PROVE  /\ [outpool[b] EXCEPT !.free = y] = [free |-> y, queue |-> outpool[b].queue]
         /\ [outpool[b] EXCEPT !.queue = y] = [free |-> outpool[b].free, queue |-> y]
<1> DEFINE x == outpool[b]
<1>1. x \in [free : Seq(OutSlots), queue : Seq(OutSlots)]
  BY DEF TypeInv, TypeOK
<1> HIDE DEF x
<1>2. [x EXCEPT !.free = y] = [free |-> y, queue |-> x.queue] /\ [x EXCEPT !.queue = y] = [free |-> x.free, queue |-> y]
  BY <1>1
<1>3. QED
  BY <1>2 DEF x

LEMMA PoolsSet ==
  ASSUME TypeInv, NEW b, NEW f, NEW q, Pools(b, f, q)
  PROVE  /\ outpool'[b].free = f /\ outpool'[b].queue = q
         /\ FreeOut(b)' = Range(f) /\ QueuedOut(b)' = Range(q)
         /\ \A c \in Boxes \ {b} : /\ outpool'[c] = outpool[c]
                                   /\ FreeOut(c)' = FreeOut(c) /\ QueuedOut(c)' = QueuedOut(c)
<1>1. outpool \in [Boxes -> [free : Seq(OutSlots), queue : Seq(OutSlots)]] /\ b \in Boxes
  BY DEF TypeInv, TypeOK, Pools
<1>2. outpool'[b].free = f /\ outpool'[b].queue = q /\ \A c \in Boxes \ {b} : outpool'[c] = outpool[c]
  BY <1>1 DEF Pools
<1>3. \A c : FreeOut(c)' = Range(outpool'[c].free) /\ QueuedOut(c)' = Range(outpool'[c].queue)
  BY DEF FreeOut, QueuedOut, F!Range, Range
<1>4. QED
  BY <1>2, <1>3, PoolRanges

\* But for slot s of box b, messages stay and the pools gain nothing; threads
\* not in T that use a slot use another one, and go on with it.
OthersKept(b, s) ==
  \A c \in Boxes, d \in OutSlots : c # b \/ d # s =>
     /\ out'[c][d] = out[c][d]
     /\ d \in FreeOut(c)' => d \in FreeOut(c)
     /\ d \in QueuedOut(c)' => d \in QueuedOut(c)
     /\ out[c][d].wait \in cookies'[c] => out[c][d].wait \in cookies[c]

UsersKept(b, s, T) ==
  \A u \in Threads \ T : /\ Uses(u)' => pc'[u] = pc[u] /\ job'[u] = job[u]
                         /\ Uses(u)' => BoxOf[u] # b \/ job[u].slot # s

\* A step that changes the pool of box b, its slot s and thread t.  What has
\* to be shown of the slot and the thread is all there is to show, if the pool
\* gains no other slot, and no cookie of another one is handed out.
LEMMA StepOut ==
  ASSUME TypeInv, OutInv, NEW b \in Boxes, NEW s \in OutSlots, NEW T, T \subseteq Threads,
         OthersKept(b, s), PoolsDistinct', SlotOK(b, s)', \A u \in T : UserOK(u)', UsersKept(b, s, T),
         WaiterUnique'
  PROVE  OutInv'
<1>1. ASSUME NEW c \in Boxes, NEW d \in OutSlots PROVE SlotOK(c, d)'
  <2>1. CASE c = b /\ d = s
    BY <2>1
  <2>2. CASE c # b \/ d # s
    <3>1. SlotOK(c, d)
      BY DEF OutInv
    <3>2. QED
      BY <2>2, <3>1, SlotKept DEF OthersKept
  <2>3. QED
    BY <2>1, <2>2
<1>2. ASSUME NEW u \in Threads PROVE UserOK(u)'
  <2>1. CASE u \in T
    BY <2>1
  <2>2. CASE u \notin T /\ ~Uses(u)'
    BY <2>2 DEF UserOK
  <2>3. CASE u \notin T /\ Uses(u)'
    <3>1. UserOK(u)
      BY DEF OutInv
    <3>2. Uses(u) /\ pc'[u] = pc[u] /\ job'[u] = job[u] /\ (BoxOf[u] # b \/ job[u].slot # s)
      BY <2>3 DEF UsersKept, Uses
    <3>3. job[u].slot \in OutSlots /\ BoxOf[u] \in Boxes
      BY <3>2, RpcAssumption DEF TypeInv, JobsFit, Uses
    <3>4. QED
      BY <3>1, <3>2, <3>3, UserKept DEF OthersKept
  <2>4. QED
    BY <2>1, <2>2, <2>3
<1>3. QED
  BY <1>1, <1>2 DEF OutInv

\* A thread that goes on, and the others that do not.
LEMMA GoesOut ==
  ASSUME TypeInv, NEW t \in Threads, NEW from, NEW to, GoTo(t, from, to),
         NEW j, job' = [job EXCEPT ![t] = j] \/ (job' = job /\ j = job[t])
  PROVE  /\ pc[t] = from /\ pc'[t] = to /\ job'[t] = j
         /\ \A u \in Threads \ {t} : /\ pc'[u] = pc[u] /\ job'[u] = job[u] /\ (Uses(u)' <=> Uses(u))
<1>1. pc \in [Threads -> Places] /\ pc' = [pc EXCEPT ![t] = to] /\ job \in [Threads -> JobType]
  BY DEF TypeInv, TypeOK, GoTo
<1>2. pc[t] = from /\ pc'[t] = to /\ job'[t] = j
  BY <1>1 DEF GoTo
<1>3. \A u \in Threads \ {t} : pc'[u] = pc[u] /\ job'[u] = job[u]
  BY <1>1
<1>4. QED
  BY <1>2, <1>3 DEF Uses

\* The user of a slot stays the only one.
LEMMA UniqueOut ==
  ASSUME OutInv, NEW t \in Threads, NEW s, job'[t].slot = s,
         \A u \in Threads \ {t} : job'[u] = job[u] /\ (Uses(u)' <=> Uses(u)),
         \A u \in Threads \ {t} : Uses(u) /\ BoxOf[u] = BoxOf[t] => job[u].slot # s
  PROVE  WaiterUnique'
<1> SUFFICES ASSUME NEW u \in Threads, NEW v \in Threads, Uses(u)', Uses(v)', BoxOf[u] = BoxOf[v],
                    job'[u].slot = job'[v].slot
             PROVE  u = v
  BY DEF WaiterUnique
<1>1. CASE u # t /\ v # t
  <2>1. Uses(u) /\ Uses(v) /\ job[u].slot = job[v].slot
    BY <1>1
  <2>2. QED
    BY <2>1 DEF OutInv, WaiterUnique
<1>2. CASE u = t /\ v # t
  BY <1>2
<1>3. CASE u # t /\ v = t
  BY <1>3
<1>4. QED
  BY <1>1, <1>2, <1>3

LEMMA send_out ==
  ASSUME TypeInv, OutInv, NEW t \in Threads, send_outgoing_rpc(t) PROVE OutInv'
<1> DEFINE b == BoxOf[t]
           f == outpool[b].free
           q == outpool[b].queue
<1>0. PICK s \in OutSlots, m \in OutType, n \in Nat \ {0}, j \in CallJobs : Sends(t, b, s, m, n, j)
  BY SendSteps
<1>1. /\ b \in Boxes /\ n = counter[b] + 2 /\ f # <<>> /\ s = Head(f)
      /\ m.wait = Cookie(n, s) /\ m.match = Cookie(n, s) /\ m.state = "ready" /\ m.sem = out[b][s].sem
      /\ out' = [out EXCEPT ![b][s] = m] /\ j.slot = s /\ job' = [job EXCEPT ![t] = j]
  BY <1>0 DEF Sends
<1>2. /\ f \in Seq(OutSlots) /\ q \in Seq(OutSlots) /\ FreeOut(b) = Range(f) /\ QueuedOut(b) = Range(q)
      /\ Distinct(f) /\ Distinct(q)
  BY <1>1, PoolTyped DEF OutInv, PoolsDistinct
<1>3. Pools(b, Tail(f), q)
  <2>1. outpool' = [outpool EXCEPT ![b] = [@ EXCEPT !.free = Tail(f)]]
    BY <1>0 DEF Sends
  <2>2. [outpool[b] EXCEPT !.free = Tail(f)] = [free |-> Tail(f), queue |-> q]
    BY <1>1, PoolParts
  <2>3. QED
    BY <1>1, <2>1, <2>2 DEF Pools
<1> HIDE DEF f, q, b
<1>4. Range(f) = Range(Tail(f)) \cup {s} /\ Distinct(Tail(f)) /\ s \notin Range(Tail(f))
  BY <1>1, <1>2, TailRange
<1>5. /\ outpool'[b].free = Tail(f) /\ outpool'[b].queue = q
      /\ FreeOut(b)' = Range(Tail(f)) /\ QueuedOut(b)' = Range(q)
      /\ \A c \in Boxes \ {b} : /\ outpool'[c] = outpool[c]
                                /\ FreeOut(c)' = FreeOut(c) /\ QueuedOut(c)' = QueuedOut(c)
  BY <1>3, PoolsSet
<1>6. s \in FreeOut(b)
  BY <1>2, <1>4
<1>7. out'[b][s] = m /\ \A c \in Boxes, d \in OutSlots : c # b \/ d # s => out'[c][d] = out[c][d]
  <2> DEFINE O == [out EXCEPT ![b][s] = m]
  <2>1. O[b][s] = m /\ \A c \in Boxes, d \in OutSlots : c # b \/ d # s => O[c][d] = out[c][d]
    BY <1>1, Rewritten DEF TypeInv, TypeOK
  <2>2. QED
    BY <1>1, <2>1
<1>8. cookies' = cookies /\ GoTo(t, "alloc", "send")
  BY DEF send_outgoing_rpc
<1>9. /\ pc[t] = "alloc" /\ pc'[t] = "send" /\ job'[t] = j
      /\ \A u \in Threads \ {t} : /\ pc'[u] = pc[u] /\ job'[u] = job[u] /\ (Uses(u)' <=> Uses(u))
  BY <1>1, <1>8, GoesOut
<1>10. out[b][s].state \in {"invalid", "done"} /\ out[b][s].sem = 0 /\ s \notin QueuedOut(b)
  BY <1>1, <1>6 DEF OutInv, SlotOK
<1>11. \A u \in Threads : Uses(u) /\ BoxOf[u] = b => job[u].slot # s
  BY <1>6 DEF OutInv, UserOK
<1>12. Cookie(n, s) \notin cookies[b] /\ Cookie(n, s).slot = s
  <2>1. \A c \in cookies[b] : c.counter \in 1 .. counter[b]
    BY <1>1 DEF TypeInv, CookiesFit
  <2>2. Cookie(n, s).counter = n /\ Cookie(n, s).slot = s /\ counter[b] \in Nat
    BY <1>1 DEF Cookie, TypeInv
  <2>3. n \notin 1 .. counter[b]
    BY <1>1, <2>2
  <2>4. QED
    BY <2>1, <2>2, <2>3
<1>13. SlotOK(b, s)'
  BY <1>1, <1>2, <1>4, <1>5, <1>7, <1>10, <1>12 DEF SlotOK
<1>14. UserOK(t)'
  <2>1. job'[t].slot = s /\ BoxOf[t] = b /\ pc'[t] = "send"
    BY <1>1, <1>9 DEF b
  <2>2. QED
    BY <1>1, <1>2, <1>4, <1>5, <1>7, <1>8, <1>10, <1>12, <2>1 DEF UserOK
<1>15. WaiterUnique'
  <2>1. job'[t].slot = s
    BY <1>1, <1>9
  <2>2. QED
    BY <1>9, <1>11, <2>1, UniqueOut DEF b
<1>16. PoolsDistinct'
  BY <1>2, <1>4, <1>5 DEF OutInv, PoolsDistinct
<1>17. OthersKept(b, s)
  BY <1>2, <1>4, <1>5, <1>7, <1>8 DEF OthersKept
<1>18. UsersKept(b, s, {t})
  BY <1>9, <1>11 DEF UsersKept
<1>19. {t} \subseteq Threads /\ \A u \in {t} : UserOK(u)'
  BY <1>14
<1>20. QED
  BY <1>1, <1>13, <1>15, <1>16, <1>17, <1>18, <1>19, StepOut

LEMMA enqueue_out ==
  ASSUME TypeInv, OutInv, NEW t \in Threads, enqueue_outgoing(t) PROVE OutInv'
<1> DEFINE b == BoxOf[t]
           f == outpool[b].free
           q == outpool[b].queue
<1>1. /\ pc[t] = "send" /\ UNCHANGED out /\ b \in Boxes
      /\ outpool' = [outpool EXCEPT ![b].queue = Append(q, job[t].slot)]
  BY RpcAssumption DEF enqueue_outgoing
<1>1a. PICK s \in OutSlots : s = job[t].slot
  BY <1>1 DEF TypeInv, JobsFit
<1>2. s \in OutSlots /\ UserOK(t) /\ Uses(t) /\ SlotOK(b, s)
  BY <1>1 DEF OutInv, Uses
<1>3. /\ f \in Seq(OutSlots) /\ q \in Seq(OutSlots) /\ FreeOut(b) = Range(f) /\ QueuedOut(b) = Range(q)
      /\ Distinct(f) /\ Distinct(q)
  BY <1>1, PoolTyped DEF OutInv, PoolsDistinct
<1>4. /\ s \notin FreeOut(b) /\ s \notin QueuedOut(b) /\ out[b][s].wait \notin cookies[b]
      /\ out[b][s].state = "ready" /\ out[b][s].match = out[b][s].wait
  BY <1>1, <1>1a, <1>2 DEF UserOK
<1>5. Pools(b, f, Append(q, s))
  <2>1. [outpool[b] EXCEPT !.queue = Append(q, s)] = [free |-> f, queue |-> Append(q, s)]
    BY <1>1, PoolParts
  <2> HIDE DEF b, q, f
  <2>2. outpool' = [outpool EXCEPT ![b] = [outpool[b] EXCEPT !.queue = Append(q, s)]]
    BY <1>1, <1>1a
  <2>3. QED
    BY <1>1, <2>1, <2>2 DEF Pools
<1>6. \A u \in Threads \ {t} : Uses(u) /\ BoxOf[u] = b => job[u].slot # s
  BY <1>1a, <1>2 DEF OutInv, WaiterUnique
<1>7. \E to \in {"pend", "idle"}, j \in {job[t], NoJob} :
        /\ GoTo(t, "send", to)
        /\ job' = [job EXCEPT ![t] = j] \/ (job' = job /\ j = job[t])
        /\ to = "pend" => j.slot = s /\ cookies' = cookies
        /\ cookies' = cookies \/ cookies' = [cookies EXCEPT ![b] = @ \cup {out[b][s].match}]
  <2>1. CASE job[t].sync
    <3>1. GoTo(t, "send", "pend") /\ cookies' = cookies /\ job' = job
      BY <2>1 DEF enqueue_outgoing
    <3>2. QED
      BY <1>1a, <3>1
  <2>2. CASE ~job[t].sync
    <3>1. GoTo(t, "send", "idle") /\ cookies' = [cookies EXCEPT ![b] = @ \cup {out[b][s].match}] /\ job' = [job EXCEPT ![t] = NoJob]
      BY <1>1a, <2>2 DEF enqueue_outgoing
    <3>2. QED
      BY <3>1
  <2>3. QED
    BY <2>1, <2>2
<1>8. PICK to \in {"pend", "idle"}, j \in {job[t], NoJob} :
        /\ GoTo(t, "send", to)
        /\ job' = [job EXCEPT ![t] = j] \/ (job' = job /\ j = job[t])
        /\ to = "pend" => j.slot = s /\ cookies' = cookies
        /\ cookies' = cookies \/ cookies' = [cookies EXCEPT ![b] = @ \cup {out[b][s].match}]
  BY <1>7
<1>9. /\ pc'[t] = to /\ job'[t] = j
      /\ \A u \in Threads \ {t} : /\ pc'[u] = pc[u] /\ job'[u] = job[u] /\ (Uses(u)' <=> Uses(u))
  BY <1>8, GoesOut
<1>10. \A c \in Boxes : \A k \in cookies'[c] : k \in cookies[c] \/ (c = b /\ k = out[b][s].match)
  <2>1. cookies \in [Boxes -> SUBSET CookieType]
    BY DEF TypeInv, TypeOK
  <2> HIDE DEF b
  <2>2. QED
    BY <1>8, <2>1
<1>11. BoxOf[t] = b
  OBVIOUS
<1> HIDE DEF f, q, b
<1>12. Range(Append(q, s)) = Range(q) \cup {s} /\ Distinct(Append(q, s))
  BY <1>2, <1>3, <1>4, AppendRange
<1>13. /\ outpool'[b].free = f /\ outpool'[b].queue = Append(q, s)
       /\ FreeOut(b)' = Range(f) /\ QueuedOut(b)' = Range(Append(q, s))
       /\ \A c \in Boxes \ {b} : /\ outpool'[c] = outpool[c]
                                 /\ FreeOut(c)' = FreeOut(c) /\ QueuedOut(c)' = QueuedOut(c)
  BY <1>5, PoolsSet
<1>14. SlotOK(b, s)'
  BY <1>1, <1>2, <1>3, <1>4, <1>12, <1>13 DEF SlotOK
<1>15. UserOK(t)'
  <2>1. CASE to = "pend"
    <3>1. job'[t].slot = s /\ cookies' = cookies /\ pc'[t] = "pend"
      BY <1>8, <1>9, <2>1
    <3>2. QED
      BY <1>1, <1>3, <1>4, <1>11, <1>13, <3>1 DEF UserOK
  <2>2. CASE to = "idle"
    BY <1>9, <2>2 DEF UserOK, Uses
  <2>3. QED
    BY <2>1, <2>2
<1>16. WaiterUnique'
  <2>1. CASE to = "pend"
    <3>1. job'[t].slot = s
      BY <1>8, <1>9, <2>1
    <3>2. QED
      BY <1>6, <1>9, <1>11, <3>1, UniqueOut
  <2>2. CASE to = "idle"
    <3>1. ~Uses(t)'
      BY <1>9, <2>2 DEF Uses
    <3>2. QED
      BY <1>9, <3>1, UniqueKept DEF OutInv
  <2>3. QED
    BY <2>1, <2>2
<1>17. PoolsDistinct'
  BY <1>3, <1>12, <1>13 DEF OutInv, PoolsDistinct
<1>18. ASSUME NEW c \in Boxes, NEW d \in OutSlots, c # b \/ d # s
       PROVE  /\ out'[c][d] = out[c][d]
              /\ d \in FreeOut(c)' => d \in FreeOut(c)
              /\ d \in QueuedOut(c)' => d \in QueuedOut(c)
              /\ out[c][d].wait \in cookies'[c] => out[c][d].wait \in cookies[c]
  <2>1. /\ out'[c][d] = out[c][d]
        /\ d \in FreeOut(c)' => d \in FreeOut(c)
        /\ d \in QueuedOut(c)' => d \in QueuedOut(c)
    BY <1>1, <1>3, <1>12, <1>13, <1>18
  <2>2. ASSUME out[c][d].wait = out[b][s].match, c = b PROVE FALSE
    <3>1. SlotOK(b, d) /\ d # s
      BY <1>18, <2>2 DEF OutInv
    <3>2. out[b][d].wait.slot \in {d, NONE}
      BY <3>1 DEF SlotOK
    <3>3. out[b][s].match.slot = s /\ s # NONE
      BY <1>1, <1>1a, <1>2, NoneIsNoSlot DEF TypeInv, CookiesFit, b
    <3>4. QED
      BY <2>2, <3>1, <3>2, <3>3
  <2>3. QED
    BY <1>10, <2>1, <2>2
<1>18a. OthersKept(b, s)
  BY <1>18 DEF OthersKept
<1>19. UsersKept(b, s, {t})
  BY <1>6, <1>9 DEF UsersKept
<1>20. {t} \subseteq Threads /\ \A u \in {t} : UserOK(u)'
  BY <1>15
<1>21. QED
  BY <1>1, <1>14, <1>16, <1>17, <1>18a, <1>19, <1>20, StepOut

LEMMA wait_out ==
  ASSUME TypeInv, OutInv, NEW t \in Threads, rpc_fncall_wait(t) PROVE OutInv'
<1> DEFINE b == BoxOf[t]
<1>0. PICK c \in cookies[b], j \in CallJobs : Waits(t, b, c, j)
  BY WaitSteps
<1>0a. PICK s \in OutSlots : s = c.slot
  BY <1>0 DEF Waits
<1>0b. PICK m : m = [out[b][s] EXCEPT !.wait = Cookie(INVALID_COUNTER, s)]
  OBVIOUS
<1>1. b \in Boxes /\ out[b][s].wait = c /\ Patches(b, s, m) /\ j.slot = s /\ job' = [job EXCEPT ![t] = j]
  BY <1>0, <1>0a, <1>0b DEF Waits
<1>2. cookies' = cookies /\ outpool' = outpool /\ GoTo(t, "idle", "pend")
  BY DEF rpc_fncall_wait
<1>3. /\ pc'[t] = "pend" /\ job'[t] = j
      /\ \A u \in Threads \ {t} : /\ pc'[u] = pc[u] /\ job'[u] = job[u] /\ (Uses(u)' <=> Uses(u))
  BY <1>1, <1>2, GoesOut
<1>4. \A k : FreeOut(k)' = FreeOut(k) /\ QueuedOut(k)' = QueuedOut(k)
  BY <1>2, PoolKept
<1>5. out'[b][s] = m /\ \A k \in Boxes, d \in OutSlots : k # b \/ d # s => out'[k][d] = out[k][d]
  BY <1>1, Patched
<1>6. SlotOK(b, s) /\ s \notin FreeOut(b)
  BY <1>0, <1>1 DEF OutInv, SlotOK
<1>7. \A u \in Threads : Uses(u) /\ BoxOf[u] = b => job[u].slot # s
  BY <1>0, <1>1 DEF OutInv, UserOK
<1>8. /\ m.sem = out[b][s].sem /\ m.state = out[b][s].state /\ m.wait = Cookie(INVALID_COUNTER, s)
      /\ m.wait.slot = s /\ m.wait \notin cookies[b]
  <2>1. out[b][s] \in OutType
    BY <1>1 DEF TypeInv, TypeOK
  <2>2. m.sem = out[b][s].sem /\ m.state = out[b][s].state /\ m.wait = Cookie(INVALID_COUNTER, s)
    BY <1>0b, <2>1 DEF OutType
  <2>3. Cookie(INVALID_COUNTER, s).slot = s /\ Cookie(INVALID_COUNTER, s).counter = INVALID_COUNTER
    BY DEF Cookie
  <2>4. \A k \in cookies[b] : k.counter \in 1 .. counter[b]
    BY <1>1 DEF TypeInv, CookiesFit
  <2>5. INVALID_COUNTER \notin 1 .. counter[b]
    BY <1>1 DEF INVALID_COUNTER, TypeInv
  <2>6. QED
    BY <2>2, <2>3, <2>4, <2>5
<1> HIDE DEF b
<1>9. SlotOK(b, s)'
  BY <1>2, <1>4, <1>5, <1>6, <1>8 DEF SlotOK
<1>10. UserOK(t)'
  <2>1. BoxOf[t] = b /\ job'[t].slot = s
    BY <1>1, <1>3 DEF b
  <2>2. QED
    BY <1>2, <1>3, <1>4, <1>5, <1>6, <1>8, <2>1 DEF UserOK
<1>11. WaiterUnique'
  <2>1. BoxOf[t] = b /\ job'[t].slot = s
    BY <1>1, <1>3 DEF b
  <2>2. QED
    BY <1>3, <1>7, <2>1, UniqueOut
<1>12. PoolsDistinct'
  BY <1>2 DEF OutInv, PoolsDistinct
<1>13. OthersKept(b, s)
  BY <1>2, <1>4, <1>5 DEF OthersKept
<1>14. UsersKept(b, s, {t})
  BY <1>3, <1>7 DEF UsersKept
<1>15. {t} \subseteq Threads /\ \A u \in {t} : UserOK(u)'
  BY <1>10
<1>16. QED
  BY <1>1, <1>9, <1>11, <1>12, <1>13, <1>14, <1>15, StepOut

LEMMA result_out ==
  ASSUME TypeInv, OutInv, NEW t \in Threads, wait_for_rpc_result(t) PROVE OutInv'
<1> DEFINE b == BoxOf[t]
<1>0. PICK j \in CallJobs : Gets(t, b, job[t].slot, j)
  BY GetSteps
<1>0a. PICK s \in OutSlots : s = job[t].slot
  BY <1>0 DEF Gets
<1>0b. PICK m : m = [out[b][s] EXCEPT !.sem = 0]
  OBVIOUS
<1>1. b \in Boxes /\ out[b][s].sem = 1 /\ Patches(b, s, m) /\ j.slot = s /\ job' = [job EXCEPT ![t] = j]
  BY <1>0, <1>0a, <1>0b DEF Gets
<1>2. cookies' = cookies /\ outpool' = outpool /\ GoTo(t, "pend", "free")
  BY DEF wait_for_rpc_result
<1>3. /\ pc[t] = "pend" /\ pc'[t] = "free" /\ job'[t] = j
      /\ \A u \in Threads \ {t} : /\ pc'[u] = pc[u] /\ job'[u] = job[u] /\ (Uses(u)' <=> Uses(u))
  BY <1>1, <1>2, GoesOut
<1>4. \A k : FreeOut(k)' = FreeOut(k) /\ QueuedOut(k)' = QueuedOut(k)
  BY <1>2, PoolKept
<1>5. out'[b][s] = m /\ \A k \in Boxes, d \in OutSlots : k # b \/ d # s => out'[k][d] = out[k][d]
  BY <1>1, Patched
<1>6. SlotOK(b, s) /\ UserOK(t) /\ Uses(t)
  BY <1>1, <1>3 DEF OutInv, Uses
<1>7. out[b][s].state = "done" /\ s \notin FreeOut(b) /\ s \notin QueuedOut(b) /\ out[b][s].wait \notin cookies[b]
  BY <1>0a, <1>1, <1>6 DEF SlotOK, UserOK
<1>8. \A u \in Threads \ {t} : Uses(u) /\ BoxOf[u] = b => job[u].slot # s
  BY <1>0a, <1>6 DEF OutInv, WaiterUnique
<1>9. m.sem = 0 /\ m.state = "done" /\ m.wait = out[b][s].wait
  <2>1. out[b][s] \in OutType
    BY <1>1 DEF TypeInv, TypeOK
  <2>2. QED
    BY <1>0b, <1>7, <2>1 DEF OutType
<1> HIDE DEF b
<1>10. SlotOK(b, s)'
  BY <1>2, <1>4, <1>5, <1>6, <1>7, <1>9 DEF SlotOK
<1>11. BoxOf[t] = b /\ job'[t].slot = s
  BY <1>1, <1>3 DEF b
<1>12. UserOK(t)'
  BY <1>2, <1>3, <1>4, <1>5, <1>7, <1>9, <1>11 DEF UserOK
<1>13. WaiterUnique'
  BY <1>3, <1>8, <1>11, UniqueOut
<1>14. PoolsDistinct'
  BY <1>2 DEF OutInv, PoolsDistinct
<1>15. OthersKept(b, s)
  BY <1>2, <1>4, <1>5 DEF OthersKept
<1>16. UsersKept(b, s, {t})
  BY <1>3, <1>8 DEF UsersKept
<1>17. {t} \subseteq Threads /\ \A u \in {t} : UserOK(u)'
  BY <1>12
<1>18. QED
  BY <1>1, <1>10, <1>13, <1>14, <1>15, <1>16, <1>17, StepOut

LEMMA free_out ==
  ASSUME TypeInv, OutInv, NEW t \in Threads, free_outgoing_msg(t) PROVE OutInv'
<1> DEFINE b == BoxOf[t]
           f == outpool[b].free
           q == outpool[b].queue
<1>1. /\ b \in Boxes /\ out' = out /\ cookies' = cookies /\ GoTo(t, "free", "idle")
      /\ outpool' = [outpool EXCEPT ![b].free = <<job[t].slot>> \o f] /\ job' = [job EXCEPT ![t] = NoJob]
  BY RpcAssumption DEF free_outgoing_msg
<1>2. /\ pc[t] = "free" /\ pc'[t] = "idle"
      /\ \A u \in Threads \ {t} : /\ pc'[u] = pc[u] /\ job'[u] = job[u] /\ (Uses(u)' <=> Uses(u))
  BY <1>1, GoesOut, ZenonT(60)
<1>3. PICK s \in OutSlots : s = job[t].slot
  BY <1>2 DEF TypeInv, JobsFit
<1>4. SlotOK(b, s) /\ UserOK(t) /\ Uses(t)
  BY <1>1, <1>2 DEF OutInv, Uses
<1>5. /\ out[b][s].state = "done" /\ out[b][s].sem = 0 /\ s \notin FreeOut(b) /\ s \notin QueuedOut(b)
      /\ out[b][s].wait \notin cookies[b]
  BY <1>2, <1>3, <1>4 DEF SlotOK, UserOK
<1>6. \A u \in Threads \ {t} : Uses(u) /\ BoxOf[u] = b => job[u].slot # s
  BY <1>3, <1>4 DEF OutInv, WaiterUnique
<1>7. /\ f \in Seq(OutSlots) /\ q \in Seq(OutSlots) /\ FreeOut(b) = Range(f) /\ QueuedOut(b) = Range(q)
      /\ Distinct(f) /\ Distinct(q)
  BY <1>1, PoolTyped DEF OutInv, PoolsDistinct
<1>8. Pools(b, <<s>> \o f, q)
  <2>1. [outpool[b] EXCEPT !.free = <<s>> \o f] = [free |-> <<s>> \o f, queue |-> q]
    BY <1>1, PoolParts
  <2> HIDE DEF b, q, f
  <2>2. outpool' = [outpool EXCEPT ![b] = [outpool[b] EXCEPT !.free = <<s>> \o f]]
    BY <1>1, <1>3
  <2>3. QED
    BY <1>1, <2>1, <2>2 DEF Pools
<1> HIDE DEF b, q, f
<1>9. Range(<<s>> \o f) = Range(f) \cup {s} /\ Distinct(<<s>> \o f)
  BY <1>5, <1>7, PrependRange
<1>10. /\ outpool'[b].free = <<s>> \o f /\ outpool'[b].queue = q
       /\ FreeOut(b)' = Range(<<s>> \o f) /\ QueuedOut(b)' = Range(q)
       /\ \A c \in Boxes \ {b} : /\ outpool'[c] = outpool[c]
                                 /\ FreeOut(c)' = FreeOut(c) /\ QueuedOut(c)' = QueuedOut(c)
  BY <1>8, PoolsSet
<1>11. SlotOK(b, s)'
  BY <1>1, <1>4, <1>5, <1>7, <1>10 DEF SlotOK
<1>12. UserOK(t)' /\ ~Uses(t)'
  BY <1>2 DEF UserOK, Uses
<1>13. WaiterUnique'
  BY <1>2, <1>12, UniqueKept DEF OutInv
<1>14. PoolsDistinct'
  BY <1>7, <1>9, <1>10 DEF OutInv, PoolsDistinct
<1>15. OthersKept(b, s)
  BY <1>1, <1>7, <1>9, <1>10 DEF OthersKept
<1>16. UsersKept(b, s, {t})
  BY <1>2, <1>6 DEF UsersKept
<1>17. {t} \subseteq Threads /\ \A u \in {t} : UserOK(u)'
  BY <1>12
<1>18. QED
  BY <1>1, <1>11, <1>13, <1>14, <1>15, <1>16, <1>17, StepOut

\* The core changes a message in flight, which no thread sends or frees.
LEMMA CoreOut ==
  ASSUME TypeInv, OutInv, UNCHANGED <<pc, job, cookies>>, NEW b \in Boxes, NEW s \in OutSlots,
         OthersKept(b, s), PoolsDistinct', SlotOK(b, s)',
         s \in FreeOut(b)' => s \in FreeOut(b),
         out'[b][s].wait = out[b][s].wait,
         \/ out'[b][s] = out[b][s] /\ (s \in QueuedOut(b)' => s \in QueuedOut(b))
         \/ out[b][s].state = "sent"
         \/ out[b][s].state = "ready" /\ s \in QueuedOut(b)
  PROVE  OutInv'
<1>1. \A u \in Threads : Uses(u)' <=> Uses(u)
  BY DEF Uses
<1>2. WaiterUnique'
  BY <1>1, UniqueKept DEF OutInv
<1>3. ASSUME NEW u \in Threads PROVE UserOK(u)'
  <2>1. UserOK(u)
    BY DEF OutInv
  <2>2. CASE ~Uses(u)
    BY <1>1, <2>2 DEF UserOK
  <2>3. CASE Uses(u) /\ (BoxOf[u] # b \/ job[u].slot # s)
    <3>1. job[u].slot \in OutSlots /\ BoxOf[u] \in Boxes
      BY <2>3, RpcAssumption DEF TypeInv, JobsFit, Uses
    <3>2. QED
      BY <2>1, <2>3, <3>1, UserKept DEF OthersKept
  <2>4. CASE Uses(u) /\ BoxOf[u] = b /\ job[u].slot = s
    <3>1. s \notin FreeOut(b)' /\ out'[b][s].wait \notin cookies'[b]
      BY <2>1, <2>4 DEF UserOK
    <3>2. pc[u] = "send" => out[b][s].state = "ready" /\ s \notin QueuedOut(b) /\ out[b][s].match = out[b][s].wait
      BY <2>1, <2>4 DEF UserOK
    <3>3. pc[u] = "free" => out[b][s].state = "done" /\ out[b][s].sem = 0
      BY <2>1, <2>4 DEF UserOK
    <3>4. pc[u] = "send" \/ pc[u] = "free" => out'[b][s] = out[b][s] /\ (s \in QueuedOut(b)' => s \in QueuedOut(b))
      BY <3>2, <3>3
    <3>5. QED
      BY <2>4, <3>1, <3>2, <3>3, <3>4 DEF UserOK
  <2>5. QED
    BY <2>2, <2>3, <2>4
<1>4. Threads \subseteq Threads /\ (\A u \in Threads : UserOK(u)') /\ UsersKept(b, s, Threads)
  BY <1>3 DEF UsersKept
<1>5. QED
  BY <1>2, <1>4, StepOut

\* The queue of the box that is drained, before and after.
LEMMA DrainedPool ==
  ASSUME TypeInv, OutInv, CanDequeue, NEW b, b = drain.box, NEW s, s = Slot,
         NEW q \in {PutBack(OutQueue), Tail(OutQueue)},
         outpool' = [outpool EXCEPT ![b].queue = q]
  PROVE  /\ PoolsDistinct'
         /\ \A c \in Boxes : FreeOut(c)' = FreeOut(c)
         /\ \A c \in Boxes \ {b} : QueuedOut(c)' = QueuedOut(c)
         /\ QueuedOut(b) = Range(Tail(OutQueue)) \cup {s} /\ s \notin Range(Tail(OutQueue))
         /\ QueuedOut(b)' = Range(q) /\ Range(PutBack(OutQueue)) = QueuedOut(b)
<1> DEFINE p == OutQueue
           r == Tail(p)
<1>1. /\ b \in Boxes /\ p \in Seq(OutSlots) /\ p # <<>> /\ s = Head(p) /\ s \in OutSlots
      /\ r \in Seq(OutSlots) /\ PutBack(p) = Append(r, s)
  BY QueueFacts DEF Slot, PutBack
<1>2. Distinct(p) /\ QueuedOut(b) = Range(p) /\ FreeOut(b) = Range(outpool[b].free)
  BY <1>1, PoolTyped DEF OutInv, PoolsDistinct, OutQueue
<1> HIDE DEF p
<1>3. Range(p) = Range(r) \cup {s} /\ Distinct(r) /\ s \notin Range(r)
  BY <1>1, <1>2, TailRange
<1> HIDE DEF r
<1>4. Range(PutBack(p)) = Range(r) \cup {s} /\ Distinct(PutBack(p))
  <2>1. Range(Append(r, s)) = Range(r) \cup {s} /\ Distinct(Append(r, s))
    BY <1>1, <1>3, AppendRange
  <2>2. QED
    BY <1>1, <2>1
<1>5. q \in {PutBack(p), r}
  BY DEF p, r
<1>6. Pools(b, outpool[b].free, q)
  <2>1. [outpool[b] EXCEPT !.queue = q] = [free |-> outpool[b].free, queue |-> q]
    BY <1>1, PoolParts
  <2>2. outpool' = [outpool EXCEPT ![b] = [outpool[b] EXCEPT !.queue = q]]
    OBVIOUS
  <2>3. QED
    BY <1>1, <2>1, <2>2 DEF Pools
<1>7. /\ outpool'[b].free = outpool[b].free /\ outpool'[b].queue = q
      /\ FreeOut(b)' = Range(outpool[b].free) /\ QueuedOut(b)' = Range(q)
      /\ \A c \in Boxes \ {b} : /\ outpool'[c] = outpool[c]
                                /\ FreeOut(c)' = FreeOut(c) /\ QueuedOut(c)' = QueuedOut(c)
  BY <1>6, PoolsSet
<1>8. PoolsDistinct'
  BY <1>3, <1>4, <1>5, <1>7 DEF OutInv, PoolsDistinct
<1>9. \A c \in Boxes : FreeOut(c)' = FreeOut(c)
  BY <1>2, <1>7
<1>10. QED
  BY <1>2, <1>3, <1>4, <1>7, <1>8, <1>9 DEF p, r

LEMMA queue_out ==
  ASSUME TypeInv, OutInv,
         drain_message_stop \/ drain_message_seen \/ drain_message_drop \/ drain_message_busy \/ drain_result_stop
  PROVE  OutInv'
<1>1. UNCHANGED <<out, cookies, pc, job>>
  BY DEF drain_message_stop, drain_message_seen, drain_message_drop, drain_message_busy, drain_result_stop
<1>2. CASE UNCHANGED outpool
  BY <1>1, <1>2, FrameOut
<1>3. CASE drain_message_seen \/ drain_message_busy \/ drain_message_drop
  <2>1. CanDequeue
    BY <1>3 DEF drain_message_seen, drain_message_busy, drain_message_drop, Visit
  <2>2. PICK b, s : b = drain.box /\ s = Slot
    OBVIOUS
  <2>3. PICK q \in {PutBack(OutQueue), Tail(OutQueue)} : outpool' = [outpool EXCEPT ![b].queue = q]
    BY <1>3, <2>2 DEF drain_message_seen, drain_message_busy, drain_message_drop, OutQueue
  <2>4. b \in Boxes /\ s \in OutSlots
    BY <2>1, <2>2, QueueFacts
  <2>5. /\ PoolsDistinct'
        /\ \A c \in Boxes : FreeOut(c)' = FreeOut(c)
        /\ \A c \in Boxes \ {b} : QueuedOut(c)' = QueuedOut(c)
        /\ QueuedOut(b) = Range(Tail(OutQueue)) \cup {s}
        /\ QueuedOut(b)' = Range(q) /\ Range(PutBack(OutQueue)) = QueuedOut(b)
    BY <2>1, <2>2, <2>3, DrainedPool
  <2>6. \A c \in Boxes : \A d \in QueuedOut(c)' : d \in QueuedOut(c)
    BY <2>3, <2>5
  <2>7. OthersKept(b, s)
    BY <1>1, <2>5, <2>6 DEF OthersKept
  <2>8. SlotOK(b, s)'
    BY <1>1, <2>4, <2>5, <2>6, SlotKept DEF OutInv
  <2>9. QED
    BY <1>1, <2>4, <2>5, <2>6, <2>7, <2>8, CoreOut
<1>4. QED
  BY <1>2, <1>3 DEF drain_message_stop, drain_result_stop

LEMMA deliver_out ==
  ASSUME TypeInv, OutInv, drain_message_deliver PROVE OutInv'
<1>1. PICK b, s, m : b = drain.box /\ s = Slot /\ m = [Message EXCEPT !.peer = Callee, !.state = "sent"]
  OBVIOUS
<1>2. CanDequeue /\ Patches(b, s, m) /\ outpool' = [outpool EXCEPT ![b].queue = Tail(OutQueue)]
  BY <1>1, DeliverSteps
<1>3. b \in Boxes /\ s \in OutSlots /\ Message = out[b][s] /\ Message \in OutType
  BY <1>1, <1>2, QueueFacts
<1>4. UNCHANGED <<pc, job, cookies>>
  BY DEF drain_message_deliver
<1>5. /\ PoolsDistinct'
      /\ \A c \in Boxes : FreeOut(c)' = FreeOut(c)
      /\ \A c \in Boxes \ {b} : QueuedOut(c)' = QueuedOut(c)
      /\ QueuedOut(b) = Range(Tail(OutQueue)) \cup {s} /\ s \notin Range(Tail(OutQueue))
      /\ QueuedOut(b)' = Range(Tail(OutQueue))
  BY <1>1, <1>2, DrainedPool
<1>6. m.state = "sent" /\ m.sem = out[b][s].sem /\ m.wait = out[b][s].wait
  BY <1>1, <1>3 DEF OutType
<1>7. out'[b][s] = m /\ \A c \in Boxes, d \in OutSlots : c # b \/ d # s => out'[c][d] = out[c][d]
  BY <1>2, Patched
<1>8. SlotOK(b, s) /\ s \in QueuedOut(b) /\ out[b][s].state = "ready" /\ out[b][s].sem = 0
  BY <1>3, <1>5 DEF OutInv, SlotOK
<1>9. s \notin FreeOut(b)
  BY <1>8 DEF SlotOK
<1>10. SlotOK(b, s)'
  BY <1>3, <1>5, <1>6, <1>7, <1>8, <1>9 DEF SlotOK
<1>11. OthersKept(b, s)
  BY <1>4, <1>5, <1>7 DEF OthersKept
<1>12. QED
  BY <1>3, <1>4, <1>5, <1>6, <1>7, <1>8, <1>10, <1>11, CoreOut

LEMMA drain_result_out ==
  ASSUME TypeInv, OutInv, drain_result PROVE OutInv'
<1>1. UNCHANGED <<outpool, cookies, pc, job>>
  BY DEF drain_result
<1>2. CASE UNCHANGED out
  BY <1>1, <1>2, FrameOut
<1>3. CASE \E b \in Boxes, s \in OutSlots, m \in OutType :
             Patches(b, s, m) /\ out[b][s].state = "sent" /\ m.state = "done" /\ m.sem = 1 /\ m.wait = out[b][s].wait
  <2>1. PICK b \in Boxes, s \in OutSlots, m \in OutType :
             Patches(b, s, m) /\ out[b][s].state = "sent" /\ m.state = "done" /\ m.sem = 1 /\ m.wait = out[b][s].wait
    BY <1>3
  <2>2. out'[b][s] = m /\ \A c \in Boxes, d \in OutSlots : c # b \/ d # s => out'[c][d] = out[c][d]
    BY <2>1, Patched
  <2>3. \A c : FreeOut(c)' = FreeOut(c) /\ QueuedOut(c)' = QueuedOut(c)
    BY <1>1, PoolKept
  <2>4. SlotOK(b, s) /\ s \notin FreeOut(b) /\ s \notin QueuedOut(b)
    BY <2>1 DEF OutInv, SlotOK
  <2>5. SlotOK(b, s)'
    BY <2>1, <2>2, <2>3, <2>4 DEF SlotOK
  <2>6. OthersKept(b, s) /\ PoolsDistinct'
    BY <1>1, <2>2, <2>3 DEF OthersKept, OutInv, PoolsDistinct
  <2>7. QED
    BY <1>1, <2>1, <2>2, <2>3, <2>5, <2>6, CoreOut
<1>4. QED
  BY <1>2, <1>3, ResultSteps

LEMMA OutStep == TypeInv /\ OutInv /\ [Next]_vars => OutInv'
<1> SUFFICES ASSUME TypeInv, OutInv, [Next]_vars PROVE OutInv'
  OBVIOUS
<1>1. ASSUME NEW t \in Threads,
             \/ rpc_fncall(t) \/ rpc_fncall_wait(t) \/ wait_timeout(t) \/ Call(t)
             \/ Serving(t) \/ pend_group(t) \/ waitfor_timeout(t)
      PROVE  OutInv'
  BY <1>1, other_out, send_out, enqueue_out, wait_out, result_out, free_out DEF Call
<1>2. ASSUME NEW b \in Boxes, thread_switch(b) PROVE OutInv'
  BY <1>2, FrameOut DEF thread_switch
<1>3. CASE Drain
  BY <1>3, queue_out, deliver_out, drain_result_out DEF Drain
<1>4. CASE UNCHANGED vars
  BY <1>4, FrameOut DEF vars
<1>5. QED
  BY <1>1, <1>2, <1>3, <1>4 DEF Next

\* The inductive invariant: types, the cookies that boxes were given, and what
\* the state, the semaphore and the wait cookie of a slot tell of its place.
THEOREM OutgoingInvariant == Spec => [](TypeInv /\ OutInv)
  BY TypeInit, OutInit, TypeStep, OutStep, PTL DEF Spec

\* At most one thread waits for a call or will free its slot, over timeouts,
\* stale cookies and reuse of slots: rpc_fncall_wait (api/src/rpc.c) swaps the
\* wait cookie out before it waits.
THEOREM OneWaiterPerCall == Spec => []WaiterUnique
<1>1. TypeInv /\ OutInv => WaiterUnique
  BY DEF OutInv
<1>2. QED
  BY <1>1, OutgoingInvariant, PTL

\* The test in free_outgoing_msg never fails, and a slot on the free list has
\* no message in flight, no place in the queue and no token in its semaphore.
THEOREM FreedSlotsAreQuiet == Spec => []FreeSlotsQuiet
<1>1. ASSUME TypeInv, OutInv PROVE FreeSlotsQuiet
  <2> SUFFICES ASSUME NEW b \in Boxes
               PROVE  LET freeing == {job[t].slot : t \in {u \in Threads : BoxOf[u] = b /\ pc[u] = "free"}} IN
                      /\ freeing \cap FreeOut(b) = {}
                      /\ \A s \in FreeOut(b) \cup freeing :
                           /\ out[b][s].state \in {"invalid", "done"} /\ out[b][s].sem = 0
                           /\ s \notin QueuedOut(b)
    BY DEF FreeSlotsQuiet
  <2>1. ASSUME NEW t \in Threads, BoxOf[t] = b, pc[t] = "free"
        PROVE  /\ job[t].slot \notin FreeOut(b) /\ job[t].slot \notin QueuedOut(b)
               /\ out[b][job[t].slot].state = "done" /\ out[b][job[t].slot].sem = 0
    <3>1. UserOK(t) /\ Uses(t) /\ job[t].slot \in OutSlots
      BY <1>1, <2>1 DEF OutInv, Uses, TypeInv, JobsFit
    <3>2. SlotOK(b, job[t].slot)
      BY <1>1, <3>1 DEF OutInv
    <3>3. QED
      BY <2>1, <3>1, <3>2 DEF UserOK, SlotOK
  <2>2. ASSUME NEW s \in FreeOut(b)
        PROVE  out[b][s].state \in {"invalid", "done"} /\ out[b][s].sem = 0 /\ s \notin QueuedOut(b)
    <3>1. s \in OutSlots
      BY <1>1, <2>2, PoolTyped
    <3>2. SlotOK(b, s)
      BY <1>1, <3>1 DEF OutInv
    <3>3. QED
      BY <2>2, <3>2 DEF SlotOK
  <2>3. QED
    BY <2>1, <2>2
<1>2. QED
  BY <1>1, OutgoingInvariant, PTL

\* Threads take nothing out of the queue.
LEMMA ThreadsQueue ==
  ASSUME TypeInv, OutInv, NEW t \in Threads, send_outgoing_rpc(t) \/ enqueue_outgoing(t) \/ free_outgoing_msg(t),
         NEW c \in Boxes
  PROVE  QueuedOut(c) \subseteq QueuedOut(c)'
<1> DEFINE b == BoxOf[t]
<1>1. outpool \in [Boxes -> [free : Seq(OutSlots), queue : Seq(OutSlots)]] /\ b \in Boxes
  BY RpcAssumption DEF TypeInv, TypeOK
<1>2. QueuedOut(c) = Range(outpool[c].queue) /\ QueuedOut(c)' = Range(outpool'[c].queue)
  BY DEF QueuedOut, F!Range, Range
<1>3. CASE send_outgoing_rpc(t) \/ free_outgoing_msg(t)
  <2>1. \E y : outpool' = [outpool EXCEPT ![b].free = y]
    BY <1>3 DEF send_outgoing_rpc, free_outgoing_msg
  <2> HIDE DEF b
  <2>2. outpool'[c].queue = outpool[c].queue
    BY <1>1, <2>1
  <2>3. QED
    BY <1>2, <2>2
<1>4. CASE enqueue_outgoing(t)
  <2>1. PICK s \in OutSlots : s = job[t].slot
    BY <1>4 DEF enqueue_outgoing, TypeInv, JobsFit
  <2> DEFINE q == outpool[b].queue
  <2>2. outpool' = [outpool EXCEPT ![b].queue = Append(q, s)]
    BY <1>4, <2>1 DEF enqueue_outgoing
  <2>3. q \in Seq(OutSlots)
    BY <1>1
  <2> HIDE DEF b, q
  <2>4. Range(Append(q, s)) = Range(q) \cup {s}
    BY <2>3, AppendRange
  <2>5. CASE c = b
    <3>1. outpool'[c].queue = Append(q, s)
      BY <1>1, <2>2, <2>5
    <3>2. outpool[c].queue = q
      BY <2>5 DEF q
    <3>3. QED
      BY <1>2, <2>4, <3>1, <3>2
  <2>6. CASE c # b
    <3>1. outpool'[c].queue = outpool[c].queue
      BY <1>1, <2>2, <2>6
    <3>2. QED
      BY <1>2, <3>1
  <2>7. QED
    BY <2>5, <2>6
<1>5. QED
  BY <1>3, <1>4

\* A message with a valid gateway stays in the queue until it is delivered:
\* of the passes of drain_message_queue (core/system/src/rpc.c) only delivery
\* and the refusal of an invalid gateway do not put the slot back.
THEOREM NoMessageIsLost == Spec => MessagesNotLost
<1> DEFINE Kept == \A b \in Boxes : \A s \in QueuedOut(b) :
                     out[b][s].gateway.valid => s \in QueuedOut(b)' \/ out'[b][s].state = "sent"
<1>1. ASSUME TypeInv, OutInv, Next PROVE Kept
  <2> SUFFICES ASSUME NEW c \in Boxes, NEW d \in QueuedOut(c), out[c][d].gateway.valid
               PROVE  d \in QueuedOut(c)' \/ out'[c][d].state = "sent"
    OBVIOUS
  <2>1. CASE UNCHANGED outpool
    BY <2>1, PoolKept
  <2>2. CASE \E t \in Threads : send_outgoing_rpc(t) \/ enqueue_outgoing(t) \/ free_outgoing_msg(t)
    BY <1>1, <2>2, ThreadsQueue
  <2>3. CASE drain_message_seen \/ drain_message_busy \/ drain_message_drop \/ drain_message_deliver
    <3>1. CanDequeue
      BY <2>3 DEF drain_message_seen, drain_message_busy, drain_message_drop, drain_message_deliver, Visit
    <3>2. PICK b, s : b = drain.box /\ s = Slot
      OBVIOUS
    <3>3. PICK q \in {PutBack(OutQueue), Tail(OutQueue)} :
            /\ outpool' = [outpool EXCEPT ![b].queue = q]
            /\ drain_message_seen \/ drain_message_busy => q = PutBack(OutQueue)
            /\ ~(drain_message_seen \/ drain_message_busy) => q = Tail(OutQueue)
      BY <2>3, <3>2 DEF drain_message_seen, drain_message_busy, drain_message_drop, drain_message_deliver, OutQueue
    <3>4. b \in Boxes /\ s \in OutSlots /\ Message = out[b][s]
      BY <1>1, <3>1, <3>2, QueueFacts
    <3>5. /\ \A k \in Boxes \ {b} : QueuedOut(k)' = QueuedOut(k)
          /\ QueuedOut(b) = Range(Tail(OutQueue)) \cup {s}
          /\ QueuedOut(b)' = Range(q) /\ Range(PutBack(OutQueue)) = QueuedOut(b)
      BY <1>1, <3>1, <3>2, <3>3, DrainedPool
    <3>6. CASE c # b \/ d # s
      BY <3>3, <3>5, <3>6
    <3>7. CASE c = b /\ d = s /\ (drain_message_seen \/ drain_message_busy)
      BY <3>3, <3>5, <3>7
    <3>8. CASE c = b /\ d = s /\ drain_message_drop
      BY <3>4, <3>8 DEF drain_message_drop
    <3>9. CASE c = b /\ d = s /\ drain_message_deliver
      <4>1. PICK m : m = [Message EXCEPT !.peer = Callee, !.state = "sent"]
        OBVIOUS
      <4>2. Patches(b, s, m)
        BY <1>1, <3>2, <3>9, <4>1, DeliverSteps
      <4>3. Message \in OutType /\ out'[b][s] = m
        BY <1>1, <3>1, <4>2, QueueFacts, Patched
      <4>4. m.state = "sent"
        BY <4>1, <4>3 DEF OutType
      <4>5. QED
        BY <3>9, <4>3, <4>4
    <3>10. QED
      BY <2>3, <3>6, <3>7, <3>8, <3>9
  <2>4. QED
    <3>1. CASE \E t \in Threads : \/ rpc_fncall(t) \/ rpc_fncall_wait(t) \/ wait_timeout(t) \/ Call(t)
                                  \/ Serving(t) \/ pend_group(t) \/ waitfor_timeout(t)
      BY <2>1, <2>2, <3>1 DEF Call, Serving, rpc_fncall, rpc_fncall_wait, wait_timeout, pend_group, waitfor_timeout,
         send_outgoing_rpc_full, wait_for_rpc_result, rpc_fncall_waitfor, allocate_function_group,
         list_function_group, find_incoming, dequeue_incoming, dispatch, enqueue_done
    <3>2. CASE \E b \in Boxes : thread_switch(b)
      BY <2>1, <3>2 DEF thread_switch
    <3>3. CASE Drain
      BY <2>1, <2>3, <3>3 DEF Drain, drain_message_stop, drain_result_stop, drain_result
    <3>4. QED
      BY <1>1, <3>1, <3>2, <3>3 DEF Next
<1>2. (TypeInv /\ OutInv) /\ [Next]_vars => [Kept]_vars
  BY <1>1
<1>3. Spec => [][Kept]_vars
  BY <1>2, OutgoingInvariant, PTL DEF Spec
<1>4. QED
  BY <1>3 DEF MessagesNotLost

----------------------------------------------------------------------------
(***************************************************************************)
(* The incoming pool: two queues laid over one array.                      *)
(***************************************************************************)

QueueNames == {"todo", "done"}

LEMMA MarkBytes ==
  /\ In!INVALID \notin In!Slots /\ In!FREE \notin In!Slots /\ In!DEQUEUED \notin In!Slots
  /\ In!INVALID # In!FREE /\ In!INVALID # In!DEQUEUED /\ In!FREE # In!DEQUEUED
  /\ In!Slots \subseteq Nat /\ NumIn \in Nat
  BY RpcAssumption DEF In!INVALID, In!FREE, In!DEQUEUED, In!Slots

Queued(m) == {s \in In!Slots : m.prev[s] \notin {In!FREE, In!DEQUEUED}}
FreeIn(m) == {s \in In!Slots : m.prev[s] = In!FREE}

\* The slots in S are linked both ways from the head of queue q to its tail.
\* The rank, which grows along the links, leaves no room for a cycle.
QueueOf(m, q, S, rank) ==
  /\ m.head[q] \in S \cup {In!INVALID} /\ m.tail[q] \in S \cup {In!INVALID}
  /\ S # {} => m.head[q] # In!INVALID /\ m.tail[q] # In!INVALID
  /\ \A s \in S :
       /\ m.prev[s] \in S \cup {In!INVALID} /\ m.next[s] \in S \cup {In!INVALID}
       /\ m.prev[s] = In!INVALID <=> s = m.head[q]
       /\ m.next[s] = In!INVALID <=> s = m.tail[q]
       /\ m.prev[s] # In!INVALID => m.next[m.prev[s]] = s
       /\ m.next[s] # In!INVALID => m.prev[m.next[s]] = s /\ rank[s] < rank[m.next[s]]

\* The free list starts at a free slot and never leads to a slot twice.
FreeOf(m) ==
  /\ m.first_free \in In!Slots => m.first_free \in FreeIn(m)
  /\ \A s \in FreeIn(m) :
       /\ m.next[s] \in In!Slots => m.next[s] \in FreeIn(m) /\ m.next[s] # m.first_free
       /\ \A r \in FreeIn(m) : m.next[r] = m.next[s] /\ m.next[s] \in In!Slots => r = s

\* A pool whose queues hold the slots Q["todo"] and Q["done"].
PoolHolds(m, Q) ==
  /\ m \in In!Memory /\ Q \in [QueueNames -> SUBSET In!Slots]
  /\ Q["todo"] \cap Q["done"] = {} /\ Q["todo"] \cup Q["done"] = Queued(m)
  /\ FreeOf(m)
  /\ \E rank \in [In!Slots -> Nat] : \A q \in QueueNames : QueueOf(m, q, Q[q], rank)

LEMMA InFields ==
  ASSUME NEW m \in In!Memory
  PROVE  /\ m.first_free \in In!Bytes /\ m.num_allocated \in In!Bytes
         /\ m.next \in [In!Slots -> In!Bytes] /\ m.prev \in [In!Slots -> In!Bytes]
         /\ m.head \in [QueueNames -> In!Bytes] /\ m.tail \in [QueueNames -> In!Bytes]
  BY DEF In!Memory, QueueNames

\* But for slot s, free slots stay free and slots that are out stay out.
MarksKept(m, n, s) ==
  \A r \in In!Slots \ {s} : /\ n.prev[r] = In!FREE <=> m.prev[r] = In!FREE
                            /\ n.prev[r] = In!DEQUEUED <=> m.prev[r] = In!DEQUEUED

\* The queues and the free list lie apart.
LEMMA PoolApart ==
  ASSUME NEW m, NEW Q, PoolHolds(m, Q)
  PROVE  /\ \A q \in QueueNames : \A s \in Q[q] :
              s \in In!Slots /\ m.prev[s] # In!FREE /\ m.prev[s] # In!DEQUEUED
         /\ \A q, r \in QueueNames : q # r => Q[q] \cap Q[r] = {}
         /\ \A s \in In!Slots :
              m.prev[s] # In!FREE /\ m.prev[s] # In!DEQUEUED => \E q \in QueueNames : s \in Q[q]
<1>1. Q["todo"] \cup Q["done"] = Queued(m) /\ Q["todo"] \cap Q["done"] = {}
  BY DEF PoolHolds
<1>2. QED
  BY <1>1 DEF QueueNames, Queued

\* A queue stays as it is when its ends and the entries of its slots do.
LEMMA QueueStays ==
  ASSUME NEW m, NEW n, NEW q, NEW S, NEW rank, NEW rank2, QueueOf(m, q, S, rank),
         n.head[q] = m.head[q], n.tail[q] = m.tail[q],
         \A s \in S : n.prev[s] = m.prev[s] /\ n.next[s] = m.next[s] /\ rank2[s] = rank[s]
  PROVE  QueueOf(n, q, S, rank2)
  BY DEF QueueOf

LEMMA AllocIn ==
  ASSUME NEW m, NEW Q, PoolHolds(m, Q), m.first_free \in In!Slots
  PROVE  LET s == m.first_free
             n == In!pool_alloc(m)
         IN  /\ m.prev[s] = In!FREE
             /\ PoolHolds(n, Q) /\ MarksKept(m, n, s) /\ n.prev[s] = In!DEQUEUED
<1> DEFINE s == m.first_free
           n == In!pool_alloc(m)
<1>1. m \in In!Memory /\ s \in In!Slots /\ s \in FreeIn(m) /\ m.prev[s] = In!FREE /\ s # In!INVALID
  BY MarkBytes DEF PoolHolds, FreeOf, FreeIn
<1>t. /\ m.next \in [In!Slots -> In!Bytes] /\ m.prev \in [In!Slots -> In!Bytes]
  BY <1>1, InFields
<1>2. /\ n.first_free = m.next[s]
      /\ n.next = [m.next EXCEPT ![s] = In!INVALID]
      /\ n.prev = [m.prev EXCEPT ![s] = In!DEQUEUED]
      /\ n.head = m.head /\ n.tail = m.tail
  BY <1>1 DEF In!pool_alloc, In!Memory
<1>3. n \in In!Memory
  BY <1>1, PoolTypes
<1> HIDE DEF n
<1>4. /\ n.prev[s] = In!DEQUEUED /\ n.next[s] = In!INVALID
      /\ \A r \in In!Slots \ {s} : n.prev[r] = m.prev[r] /\ n.next[r] = m.next[r]
  BY <1>1, <1>t, <1>2
<1>5. FreeIn(n) = FreeIn(m) \ {s} /\ Queued(n) = Queued(m)
  BY <1>1, <1>4, MarkBytes DEF FreeIn, Queued
<1>6. FreeOf(n)
  <2>1. FreeOf(m) /\ FreeIn(m) \subseteq In!Slots
    BY DEF PoolHolds, FreeIn
  <2>2. \A r \in FreeIn(n) : r \in FreeIn(m) /\ r # s /\ n.next[r] = m.next[r]
    BY <1>4, <1>5, <2>1
  <2>3. QED
    BY <1>1, <1>2, <1>5, <2>1, <2>2 DEF FreeOf
<1>7. PICK rank \in [In!Slots -> Nat] : \A q \in QueueNames : QueueOf(m, q, Q[q], rank)
  BY DEF PoolHolds
<1>8. ASSUME NEW q \in QueueNames PROVE QueueOf(n, q, Q[q], rank)
  <2>1. \A r \in Q[q] : n.prev[r] = m.prev[r] /\ n.next[r] = m.next[r]
    BY <1>1, <1>4, PoolApart
  <2>2. n.head[q] = m.head[q] /\ n.tail[q] = m.tail[q]
    BY <1>2
  <2>3. QED
    BY <1>7, <2>1, <2>2, QueueStays
<1>9. PoolHolds(n, Q)
  BY <1>3, <1>5, <1>6, <1>7, <1>8 DEF PoolHolds
<1>10. QED
  BY <1>1, <1>4, <1>9 DEF MarksKept, n

LEMMA ReleaseIn ==
  ASSUME NEW m, NEW Q, PoolHolds(m, Q), NEW s \in In!Slots, m.prev[s] = In!DEQUEUED
  PROVE  LET n == In!pool_free(m, s)
         IN  PoolHolds(n, Q) /\ MarksKept(m, n, s) /\ n.prev[s] = In!FREE
<1> DEFINE n == In!pool_free(m, s)
<1>1. m \in In!Memory /\ s \notin FreeIn(m) /\ s \notin Queued(m)
  BY MarkBytes DEF PoolHolds, FreeIn, Queued
<1>t. /\ m.next \in [In!Slots -> In!Bytes] /\ m.prev \in [In!Slots -> In!Bytes]
  BY <1>1, InFields
<1>2. /\ n.first_free = s
      /\ n.next = [m.next EXCEPT ![s] = m.first_free]
      /\ n.prev = [m.prev EXCEPT ![s] = In!FREE]
      /\ n.head = m.head /\ n.tail = m.tail
  BY <1>1 DEF In!pool_free, In!Memory
<1>3. n \in In!Memory
  <2>1. "todo" \in {"todo", "done"}
    OBVIOUS
  <2>2. QED
    BY <1>1, <2>1, PoolTypes
<1> HIDE DEF n
<1>4. /\ n.prev[s] = In!FREE /\ n.next[s] = m.first_free
      /\ \A r \in In!Slots \ {s} : n.prev[r] = m.prev[r] /\ n.next[r] = m.next[r]
  BY <1>1, <1>t, <1>2
<1>5. FreeIn(n) = FreeIn(m) \cup {s} /\ Queued(n) = Queued(m)
  BY <1>1, <1>4, MarkBytes DEF FreeIn, Queued
<1>6. FreeOf(n)
  <2>1. FreeOf(m) /\ FreeIn(m) \subseteq In!Slots
    BY DEF PoolHolds, FreeIn
  <2>2. \A r \in FreeIn(m) : r # s /\ n.next[r] = m.next[r]
    BY <1>1, <1>4, <2>1
  <2>3. QED
    BY <1>1, <1>2, <1>4, <1>5, <2>1, <2>2 DEF FreeOf
<1>7. PICK rank \in [In!Slots -> Nat] : \A q \in QueueNames : QueueOf(m, q, Q[q], rank)
  BY DEF PoolHolds
<1>8. ASSUME NEW q \in QueueNames PROVE QueueOf(n, q, Q[q], rank)
  <2>1. \A r \in Q[q] : n.prev[r] = m.prev[r] /\ n.next[r] = m.next[r]
    BY <1>4, PoolApart
  <2>2. n.head[q] = m.head[q] /\ n.tail[q] = m.tail[q]
    BY <1>2
  <2>3. QED
    BY <1>7, <2>1, <2>2, QueueStays
<1>9. PoolHolds(n, Q)
  BY <1>3, <1>5, <1>6, <1>7, <1>8 DEF PoolHolds
<1>10. QED
  BY <1>4, <1>9 DEF MarksKept, n

LEMMA EnqueueIn ==
  ASSUME NEW m, NEW Q, PoolHolds(m, Q), NEW q \in QueueNames, NEW s \in In!Slots, m.prev[s] = In!DEQUEUED
  PROVE  LET n == In!enqueue(m, q, s)
         IN  /\ PoolHolds(n, [Q EXCEPT ![q] = @ \cup {s}]) /\ MarksKept(m, n, s)
             /\ n.prev[s] # In!FREE /\ n.prev[s] # In!DEQUEUED
<1> DEFINE n == In!enqueue(m, q, s)
           h == m.head[q]
           e == m.tail[q]
           R == [Q EXCEPT ![q] = @ \cup {s}]
<1>1. /\ m \in In!Memory /\ s \notin FreeIn(m) /\ s \notin Queued(m)
      /\ Q \in [QueueNames -> SUBSET In!Slots]
  BY MarkBytes DEF PoolHolds, FreeIn, Queued
<1>t. /\ m.next \in [In!Slots -> In!Bytes] /\ m.prev \in [In!Slots -> In!Bytes]
      /\ m.head \in [QueueNames -> In!Bytes] /\ m.tail \in [QueueNames -> In!Bytes]
  BY <1>1, InFields
<1>2. PICK rank \in [In!Slots -> Nat] : \A p \in QueueNames : QueueOf(m, p, Q[p], rank)
  BY DEF PoolHolds
<1>3. /\ h = In!INVALID => Q[q] = {}
      /\ h # In!INVALID => e \in Q[q] /\ e \in In!Slots /\ e # s /\ e # In!INVALID
  <2>1. QueueOf(m, q, Q[q], rank) /\ s \notin Q[q]
    BY <1>2, PoolApart
  <2>2. Q[q] \subseteq In!Slots
    BY <1>1
  <2>3. QED
    BY <2>1, <2>2, MarkBytes DEF QueueOf
<1>4. /\ n.first_free = m.first_free
      /\ n.head = [m.head EXCEPT ![q] = IF h = In!INVALID THEN s ELSE h]
      /\ n.tail = [m.tail EXCEPT ![q] = s]
      /\ n.next = IF h = In!INVALID THEN [m.next EXCEPT ![s] = In!INVALID]
                  ELSE [m.next EXCEPT ![e] = s, ![s] = In!INVALID]
      /\ n.prev = [m.prev EXCEPT ![s] = IF h = In!INVALID THEN In!INVALID ELSE e]
  BY <1>1, <1>t DEF In!enqueue, In!Memory
<1>5. n \in In!Memory
  BY <1>1, PoolTypes DEF QueueNames
<1> HIDE DEF n
<1>6. /\ n.prev[s] = IF h = In!INVALID THEN In!INVALID ELSE e
      /\ n.next[s] = In!INVALID
      /\ \A r \in In!Slots \ {s} : n.prev[r] = m.prev[r]
      /\ \A r \in In!Slots \ {s} : n.next[r] = IF h # In!INVALID /\ r = e THEN s ELSE m.next[r]
      /\ n.head[q] = (IF h = In!INVALID THEN s ELSE h) /\ n.tail[q] = s
      /\ \A p \in QueueNames \ {q} : n.head[p] = m.head[p] /\ n.tail[p] = m.tail[p]
  BY <1>t, <1>3, <1>4
<1>7. n.prev[s] # In!FREE /\ n.prev[s] # In!DEQUEUED
  BY <1>3, <1>6, MarkBytes
<1>8. FreeIn(n) = FreeIn(m) /\ Queued(n) = Queued(m) \cup {s}
  <2>1. /\ s \in In!Slots /\ m.prev[s] # In!FREE
        /\ \A r \in In!Slots : r # s => n.prev[r] = m.prev[r]
    BY <1>6, MarkBytes
  <2> HIDE DEF h, e, R
  <2>2. FreeIn(n) = FreeIn(m)
    BY <1>7, <2>1 DEF FreeIn
  <2>3. Queued(n) = Queued(m) \cup {s}
    BY <1>7, <2>1 DEF Queued
  <2>4. QED
    BY <2>2, <2>3
<1>9. FreeOf(n)
  <2>1. FreeOf(m) /\ FreeIn(m) \subseteq In!Slots
    BY DEF PoolHolds, FreeIn
  <2>2. \A r \in FreeIn(m) : n.next[r] = m.next[r]
    <3>1. h # In!INVALID => e \notin FreeIn(m)
      BY <1>3, PoolApart DEF FreeIn
    <3>2. QED
      BY <1>1, <1>6, <2>1, <3>1
  <2>3. QED
    BY <1>4, <1>8, <2>1, <2>2 DEF FreeOf
<1>10. /\ R \in [QueueNames -> SUBSET In!Slots] /\ R[q] = Q[q] \cup {s}
       /\ \A p \in QueueNames \ {q} : R[p] = Q[p]
  BY <1>1
<1> HIDE DEF R
<1>11. R["todo"] \cap R["done"] = {} /\ R["todo"] \cup R["done"] = Queued(n)
  <2>1. Q["todo"] \cap Q["done"] = {} /\ Q["todo"] \cup Q["done"] = Queued(m)
    BY DEF PoolHolds
  <2>2. QED
    BY <1>1, <1>8, <1>10, <2>1 DEF QueueNames
<1> DEFINE rank2 == [rank EXCEPT ![s] = IF h = In!INVALID THEN 0 ELSE rank[e] + 1]
<1>12. /\ rank2 \in [In!Slots -> Nat] /\ (h # In!INVALID => rank[e] < rank2[s])
       /\ \A r \in In!Slots \ {s} : rank2[r] = rank[r]
  BY <1>3
<1> HIDE DEF rank2
<1>13. ASSUME NEW p \in QueueNames \ {q} PROVE QueueOf(n, p, R[p], rank2)
  <2>1. Q[p] \subseteq In!Slots /\ s \notin Q[p] /\ (h # In!INVALID => e \notin Q[p])
    BY <1>1, <1>3, PoolApart
  <2>2. \A r \in Q[p] : n.prev[r] = m.prev[r] /\ n.next[r] = m.next[r] /\ rank2[r] = rank[r]
    BY <1>6, <1>12, <2>1
  <2>3. QED
    BY <1>2, <1>6, <1>10, <2>2, QueueStays
<1>14. QueueOf(n, q, R[q], rank2)
  <2>1. QueueOf(m, q, Q[q], rank) /\ Q[q] \subseteq In!Slots /\ s \notin Q[q]
    BY <1>1, <1>2, PoolApart
  <2>2. CASE h = In!INVALID
    <3>1. R[q] = {s}
      BY <1>3, <1>10, <2>2
    <3>2. QED
      BY <2>2, <3>1, <1>6, MarkBytes DEF QueueOf
  <2>3. CASE h # In!INVALID
    <3>1. h \in Q[q] /\ e \in Q[q] /\ m.next[e] = In!INVALID /\ h # s /\ e # s
      BY <1>3, <2>1, <2>3 DEF QueueOf
    <3>2. ASSUME NEW r \in Q[q], r # e
          PROVE  /\ n.prev[r] = m.prev[r] /\ n.next[r] = m.next[r] /\ m.next[r] # In!INVALID /\ r # s
                 /\ m.next[r] \in Q[q] /\ m.next[r] # s /\ n.prev[m.next[r]] = r /\ rank2[r] < rank2[m.next[r]]
      <4>1. /\ m.next[r] # In!INVALID /\ m.next[r] \in Q[q] /\ r # s
            /\ m.prev[m.next[r]] = r /\ rank[r] < rank[m.next[r]]
        BY <2>1, <3>2 DEF QueueOf
      <4>2. r \in In!Slots \ {s} /\ m.next[r] \in In!Slots \ {s}
        BY <2>1, <4>1
      <4>3. QED
        BY <1>6, <1>12, <2>3, <3>2, <4>1, <4>2
    <3>3. n.next[e] = s /\ n.prev[e] = m.prev[e] /\ n.prev[s] = e /\ rank2[e] < rank2[s]
      BY <1>3, <1>6, <1>12, <2>3, <3>1
    <3>4. ASSUME NEW r \in Q[q]
          PROVE  /\ n.prev[r] = m.prev[r] /\ m.prev[r] \in Q[q] \cup {In!INVALID}
                 /\ m.prev[r] = In!INVALID <=> r = h
                 /\ m.prev[r] # In!INVALID => n.next[m.prev[r]] = r
      <4>1. /\ m.prev[r] \in Q[q] \cup {In!INVALID} /\ (m.prev[r] = In!INVALID <=> r = h)
            /\ m.prev[r] # In!INVALID => m.next[m.prev[r]] = r
        BY <2>1 DEF QueueOf
      <4>2. r \in In!Slots \ {s}
        BY <2>1
      <4>3. ASSUME m.prev[r] # In!INVALID PROVE n.next[m.prev[r]] = r
        <5>1. m.prev[r] \in Q[q] /\ m.prev[r] # e /\ m.next[m.prev[r]] = r
          BY <3>1, <4>1, <4>3, <4>2, MarkBytes
        <5>2. QED
          BY <3>2, <5>1
      <4>4. QED
        BY <1>6, <4>1, <4>2, <4>3
    <3>5. n.head[q] = h /\ n.tail[q] = s /\ n.next[s] = In!INVALID /\ s # In!INVALID
      BY <1>6, <2>3, MarkBytes
    <3>6. QED
      BY <1>10, <2>3, <3>1, <3>2, <3>3, <3>4, <3>5 DEF QueueOf
  <2>4. QED
    BY <2>2, <2>3
<1>15. PoolHolds(n, R)
  BY <1>5, <1>9, <1>10, <1>11, <1>12, <1>13, <1>14 DEF PoolHolds
<1>16. MarksKept(m, n, s)
  BY <1>6 DEF MarksKept
<1>17. QED
  BY <1>7, <1>15, <1>16 DEF n, R

\* A slot of a queue that is not its head has another slot before it.
LEMMA Alone ==
  ASSUME NEW m, NEW q, NEW S, S \subseteq In!Slots, NEW rank \in [In!Slots -> Nat], QueueOf(m, q, S, rank),
         m.head[q] = m.tail[q], NEW s \in S
  PROVE  S = {s} /\ m.head[q] = s
<1> DEFINE h == m.head[q]
           T == S \ {h}
           N == {rank[x] : x \in T}
<1>1. h \in S /\ h # In!INVALID /\ m.tail[q] = h
  BY MarkBytes DEF QueueOf
<1>2. ASSUME T # {} PROVE FALSE
  <2>1. N \subseteq Nat /\ N # {}
    BY <1>2
  <2>2. PICK i \in N : \A j \in N : i <= j
    BY <2>1, LeastElement
  <2>3. PICK x \in T : i = rank[x]
    BY <2>2
  <2> DEFINE p == m.prev[x]
  <2>4. x \in S /\ x # h
    BY <2>3
  <2>5. p \in S /\ m.next[p] = x /\ x # In!INVALID /\ rank[p] < rank[x]
    BY <2>4, MarkBytes DEF QueueOf
  <2>6. p # h
    BY <1>1, <2>5 DEF QueueOf
  <2>7. rank[p] \in N /\ rank[p] \in Nat /\ rank[x] \in Nat
    BY <2>4, <2>5, <2>6
  <2>8. QED
    BY <2>2, <2>3, <2>5, <2>7
<1>3. QED
  BY <1>1, <1>2

\* The links around slot s of a queue.
Linked(m, q, S, rank, s) ==
  /\ m.prev[s] = In!INVALID <=> s = m.head[q]
  /\ m.next[s] = In!INVALID <=> s = m.tail[q]
  /\ m.prev[s] # In!INVALID =>
       /\ m.prev[s] \in S \ {s} /\ m.next[m.prev[s]] = s /\ m.prev[s] # m.tail[q]
       /\ rank[m.prev[s]] < rank[s]
  /\ m.next[s] # In!INVALID =>
       /\ m.next[s] \in S \ {s} /\ m.prev[m.next[s]] = s /\ m.next[s] # m.head[q]
       /\ rank[s] < rank[m.next[s]]

LEMMA Neighbours ==
  ASSUME NEW m, NEW q, NEW S, S \subseteq In!Slots, NEW rank \in [In!Slots -> Nat], QueueOf(m, q, S, rank)
  PROVE  \A s \in S : Linked(m, q, S, rank, s)
<1> SUFFICES ASSUME NEW s \in S PROVE Linked(m, q, S, rank, s)
  OBVIOUS
<1>1. s \in In!Slots /\ s # In!INVALID /\ rank[s] \in Nat
  BY MarkBytes
<1>2. /\ m.prev[s] \in S \cup {In!INVALID} /\ m.next[s] \in S \cup {In!INVALID}
      /\ (m.prev[s] = In!INVALID <=> s = m.head[q]) /\ (m.next[s] = In!INVALID <=> s = m.tail[q])
      /\ m.prev[s] # In!INVALID => m.next[m.prev[s]] = s
      /\ m.next[s] # In!INVALID => m.prev[m.next[s]] = s /\ rank[s] < rank[m.next[s]]
  BY DEF QueueOf
<1>3. ASSUME m.prev[s] # In!INVALID
      PROVE  m.prev[s] \in S \ {s} /\ m.next[m.prev[s]] = s /\ m.prev[s] # m.tail[q] /\ rank[m.prev[s]] < rank[s]
  <2> DEFINE p == m.prev[s]
  <2>1. p \in S /\ m.next[p] = s
    BY <1>2, <1>3
  <2>2. p # m.tail[q] /\ rank[p] < rank[s]
    BY <1>1, <2>1 DEF QueueOf
  <2>3. p # s
    BY <1>1, <2>2
  <2>4. QED
    BY <2>1, <2>2, <2>3
<1>4. ASSUME m.next[s] # In!INVALID
      PROVE  m.next[s] \in S \ {s} /\ m.prev[m.next[s]] = s /\ m.next[s] # m.head[q] /\ rank[s] < rank[m.next[s]]
  <2> DEFINE p == m.next[s]
  <2>1. p \in S /\ m.prev[p] = s /\ rank[s] < rank[p]
    BY <1>2, <1>4
  <2>2. p # m.head[q]
    BY <1>1, <2>1 DEF QueueOf
  <2>3. p # s
    BY <1>1, <2>1
  <2>4. QED
    BY <2>1, <2>2, <2>3
<1>5. QED
  BY <1>2, <1>3, <1>4 DEF Linked

\* What dequeue writes, when the queue has other slots.
LEMMA Unlinked ==
  ASSUME NEW m \in In!Memory, NEW q \in QueueNames, NEW s \in In!Slots,
         m.head[q] # m.tail[q],
         m.head[q] = s => m.next[s] \in In!Slots \ {s},
         m.tail[q] = s => m.prev[s] \in In!Slots \ {s},
         m.head[q] # s /\ m.tail[q] # s => m.next[s] \in In!Slots \ {s} /\ m.prev[s] \in In!Slots \ {s}
  PROVE  LET n == In!dequeue(m, q, s)
             a == m.prev[s]
             z == m.next[s]
         IN  /\ n.first_free = m.first_free
             /\ n.head[q] = (IF m.head[q] = s THEN z ELSE m.head[q])
             /\ n.tail[q] = (IF m.tail[q] = s THEN a ELSE m.tail[q])
             /\ \A p \in QueueNames \ {q} : n.head[p] = m.head[p] /\ n.tail[p] = m.tail[p]
             /\ n.prev[s] = In!DEQUEUED
             /\ \A r \in In!Slots \ {s} :
                  /\ n.prev[r] = IF m.tail[q] # s /\ r = z THEN IF m.head[q] = s THEN In!INVALID ELSE a ELSE m.prev[r]
                  /\ n.next[r] = IF m.head[q] # s /\ r = a THEN IF m.tail[q] = s THEN In!INVALID ELSE z ELSE m.next[r]
<1> DEFINE n == In!dequeue(m, q, s)
           a == m.prev[s]
           z == m.next[s]
<1>t. /\ m.next \in [In!Slots -> In!Bytes] /\ m.prev \in [In!Slots -> In!Bytes]
      /\ m.head \in [QueueNames -> In!Bytes] /\ m.tail \in [QueueNames -> In!Bytes]
  BY InFields
<1>1. CASE m.head[q] = s
  <2>1. /\ n.first_free = m.first_free
        /\ n.head = [m.head EXCEPT ![q] = z] /\ n.tail = m.tail
        /\ n.next = [m.next EXCEPT ![s] = In!INVALID]
        /\ n.prev = [m.prev EXCEPT ![z] = In!INVALID, ![s] = In!DEQUEUED]
    BY <1>1, <1>t DEF In!dequeue, In!Memory
  <2>2. z \in In!Slots /\ z # s /\ m.tail[q] # s
    BY <1>1
  <2> HIDE DEF n, z
  <2>3. QED
    BY <1>1, <1>t, <2>1, <2>2 DEF n, z
<1>2. CASE m.head[q] # s /\ m.tail[q] = s
  <2>1. /\ n.first_free = m.first_free
        /\ n.head = m.head /\ n.tail = [m.tail EXCEPT ![q] = a]
        /\ n.next = [m.next EXCEPT ![a] = In!INVALID, ![s] = In!INVALID]
        /\ n.prev = [m.prev EXCEPT ![s] = In!DEQUEUED]
    BY <1>2, <1>t DEF In!dequeue, In!Memory
  <2>2. a \in In!Slots /\ a # s
    BY <1>2
  <2> HIDE DEF n, a
  <2>3. QED
    BY <1>2, <1>t, <2>1, <2>2 DEF n, a
<1>3. CASE m.head[q] # s /\ m.tail[q] # s
  <2>1. /\ n.first_free = m.first_free
        /\ n.head = m.head /\ n.tail = m.tail
        /\ n.next = [m.next EXCEPT ![a] = z, ![s] = In!INVALID]
        /\ n.prev = [m.prev EXCEPT ![z] = a, ![s] = In!DEQUEUED]
    BY <1>3, <1>t DEF In!dequeue, In!Memory
  <2>2. a \in In!Slots /\ a # s /\ z \in In!Slots /\ z # s
    BY <1>3
  <2> HIDE DEF n, a, z
  <2>3. QED
    BY <1>3, <1>t, <2>1, <2>2 DEF n, a, z
<1>4. QED
  BY <1>1, <1>2, <1>3

\* A queue without slot s, when the links around s are joined.
LEMMA QueueWithout ==
  ASSUME NEW m, NEW n, NEW q, NEW S, S \subseteq In!Slots, NEW rank \in [In!Slots -> Nat], QueueOf(m, q, S, rank),
         NEW s \in S, m.head[q] # m.tail[q],
         n.head[q] = (IF m.head[q] = s THEN m.next[s] ELSE m.head[q]),
         n.tail[q] = (IF m.tail[q] = s THEN m.prev[s] ELSE m.tail[q]),
         \A r \in In!Slots \ {s} :
           /\ n.prev[r] = IF m.tail[q] # s /\ r = m.next[s]
                          THEN IF m.head[q] = s THEN In!INVALID ELSE m.prev[s] ELSE m.prev[r]
           /\ n.next[r] = IF m.head[q] # s /\ r = m.prev[s]
                          THEN IF m.tail[q] = s THEN In!INVALID ELSE m.next[s] ELSE m.next[r]
  PROVE  QueueOf(n, q, S \ {s}, rank)
<1> DEFINE a == m.prev[s]
           z == m.next[s]
           T == S \ {s}
<1>0. s \in In!Slots /\ s # In!INVALID /\ \A r \in S : r # In!INVALID /\ rank[r] \in Nat
  BY MarkBytes
<1>1. /\ a = In!INVALID <=> s = m.head[q]
      /\ z = In!INVALID <=> s = m.tail[q]
      /\ a # In!INVALID => a \in T /\ m.next[a] = s /\ a # m.tail[q] /\ rank[a] < rank[s]
      /\ z # In!INVALID => z \in T /\ m.prev[z] = s /\ z # m.head[q] /\ rank[s] < rank[z]
  <2>1. \A r \in S : Linked(m, q, S, rank, r)
    BY Neighbours
  <2>2. QED
    BY <2>1 DEF Linked
<1>2. /\ m.head[q] \in S /\ m.tail[q] \in S
      /\ \A r \in T : /\ m.prev[r] = In!INVALID <=> r = m.head[q]
                      /\ m.next[r] = In!INVALID <=> r = m.tail[q]
                      /\ m.prev[r] # In!INVALID => m.prev[r] \in S \ {r} /\ m.next[m.prev[r]] = r
                      /\ m.next[r] # In!INVALID => m.next[r] \in S \ {r} /\ m.prev[m.next[r]] = r /\ rank[r] < rank[m.next[r]]
  <2>1. m.head[q] \in S /\ m.tail[q] \in S
    BY MarkBytes DEF QueueOf
  <2>2. \A r \in S : Linked(m, q, S, rank, r)
    BY Neighbours
  <2>3. QED
    BY <2>1, <2>2 DEF Linked
<1>3. n.head[q] \in T /\ n.tail[q] \in T
  BY <1>1, <1>2
<1>4. ASSUME NEW r \in T
      PROVE  /\ n.prev[r] \in T \cup {In!INVALID}
             /\ n.prev[r] = In!INVALID <=> r = n.head[q]
             /\ n.prev[r] # In!INVALID => n.next[n.prev[r]] = r
  <2>1. r \in In!Slots \ {s} /\ r # In!INVALID
    BY <1>0
  <2>2. CASE s # m.tail[q] /\ r = z
    <3>1. CASE s = m.head[q]
      BY <1>1, <2>1, <2>2, <3>1
    <3>2. CASE s # m.head[q]
      <4>1. n.prev[r] = a /\ a \in T /\ a \in In!Slots \ {s} /\ a # In!INVALID
        BY <1>0, <1>1, <2>1, <2>2, <3>2
      <4>2. n.next[a] = z
        BY <2>2, <3>2, <4>1
      <4>3. r # n.head[q]
        BY <1>1, <2>2, <3>2
      <4>4. QED
        BY <2>2, <4>1, <4>2, <4>3
    <3>3. QED
      BY <3>1, <3>2
  <2>3. CASE ~(s # m.tail[q] /\ r = z)
    <3>0. r # z
      BY <1>1, <2>1, <2>3
    <3>1. n.prev[r] = m.prev[r]
      BY <2>1, <2>3
    <3>2. m.prev[r] # s
      BY <1>0, <1>2, <2>1, <3>0
    <3>3. r = m.head[q] <=> r = n.head[q]
      BY <1>1, <2>1, <3>0
    <3>4. ASSUME m.prev[r] # In!INVALID PROVE m.prev[r] \in T /\ n.next[m.prev[r]] = r
      <4>1. m.prev[r] \in T /\ m.prev[r] \in In!Slots \ {s} /\ m.next[m.prev[r]] = r
        BY <1>2, <3>2, <3>4
      <4>2. ~(m.head[q] # s /\ m.prev[r] = a)
        BY <1>1, <2>1, <4>1
      <4>3. QED
        BY <4>1, <4>2
    <3>5. QED
      BY <1>2, <3>1, <3>3, <3>4
  <2>4. QED
    BY <2>2, <2>3
<1>5. ASSUME NEW r \in T
      PROVE  /\ n.next[r] \in T \cup {In!INVALID}
             /\ n.next[r] = In!INVALID <=> r = n.tail[q]
             /\ n.next[r] # In!INVALID => n.prev[n.next[r]] = r /\ rank[r] < rank[n.next[r]]
  <2>1. r \in In!Slots \ {s} /\ r # In!INVALID
    BY <1>0
  <2>2. CASE s # m.head[q] /\ r = a
    <3>1. CASE s = m.tail[q]
      BY <1>1, <2>1, <2>2, <3>1
    <3>2. CASE s # m.tail[q]
      <4>1. n.next[r] = z /\ z \in T /\ z \in In!Slots \ {s} /\ z # In!INVALID
        BY <1>0, <1>1, <2>1, <2>2, <3>2
      <4>2. n.prev[z] = a
        BY <2>2, <3>2, <4>1
      <4>3. r # n.tail[q]
        BY <1>1, <2>2, <3>2
      <4>4. rank[a] < rank[s] /\ rank[s] < rank[z] /\ rank[a] \in Nat /\ rank[s] \in Nat /\ rank[z] \in Nat
        BY <1>0, <1>1, <2>2, <3>2, <4>1
      <4>5. rank[a] < rank[z]
        BY <4>4
      <4>6. QED
        BY <2>2, <4>1, <4>2, <4>3, <4>5
    <3>3. QED
      BY <3>1, <3>2
  <2>3. CASE ~(s # m.head[q] /\ r = a)
    <3>0. r # a
      BY <1>1, <2>1, <2>3
    <3>1. n.next[r] = m.next[r]
      BY <2>1, <2>3
    <3>2. m.next[r] # s
      BY <1>0, <1>2, <2>1, <3>0
    <3>3. r = m.tail[q] <=> r = n.tail[q]
      BY <1>1, <2>1, <3>0
    <3>4. ASSUME m.next[r] # In!INVALID
          PROVE  m.next[r] \in T /\ n.prev[m.next[r]] = r /\ rank[r] < rank[m.next[r]]
      <4>1. /\ m.next[r] \in T /\ m.next[r] \in In!Slots \ {s} /\ m.prev[m.next[r]] = r
            /\ rank[r] < rank[m.next[r]]
        BY <1>2, <3>2, <3>4
      <4>2. ~(m.tail[q] # s /\ m.next[r] = z)
        BY <1>1, <2>1, <4>1
      <4>3. QED
        BY <4>1, <4>2
    <3>5. QED
      BY <1>2, <3>1, <3>3, <3>4
  <2>4. QED
    BY <2>2, <2>3
<1>6. n.head[q] # In!INVALID /\ n.tail[q] # In!INVALID
  BY <1>0, <1>3
<1> HIDE DEF T
<1>7. QueueOf(n, q, T, rank)
  BY <1>3, <1>4, <1>5, <1>6 DEF QueueOf
<1>8. QED
  BY <1>7 DEF T

LEMMA DequeueIn ==
  ASSUME NEW m, NEW Q, PoolHolds(m, Q), NEW q \in QueueNames, NEW s \in Q[q]
  PROVE  LET n == In!dequeue(m, q, s)
         IN  /\ PoolHolds(n, [Q EXCEPT ![q] = @ \ {s}]) /\ MarksKept(m, n, s)
             /\ n.prev[s] = In!DEQUEUED
<1> DEFINE n == In!dequeue(m, q, s)
           R == [Q EXCEPT ![q] = @ \ {s}]
<1>1. m \in In!Memory /\ Q \in [QueueNames -> SUBSET In!Slots] /\ Q[q] \subseteq In!Slots /\ s \in In!Slots
  BY DEF PoolHolds
<1>2. PICK rank \in [In!Slots -> Nat] : \A p \in QueueNames : QueueOf(m, p, Q[p], rank)
  BY DEF PoolHolds
<1>3. n \in In!Memory
  BY <1>1, PoolTypes DEF QueueNames
<1>4. QueueOf(m, q, Q[q], rank)
  BY <1>2
<1>5. /\ R \in [QueueNames -> SUBSET In!Slots] /\ R[q] = Q[q] \ {s}
      /\ \A p \in QueueNames \ {q} : R[p] = Q[p]
  BY <1>1
<1>t. /\ m.next \in [In!Slots -> In!Bytes] /\ m.prev \in [In!Slots -> In!Bytes]
      /\ m.head \in [QueueNames -> In!Bytes] /\ m.tail \in [QueueNames -> In!Bytes]
  BY <1>1, InFields
<1>6. /\ n.prev[s] = In!DEQUEUED /\ n.first_free = m.first_free
      /\ \A r \in In!Slots : r \notin Q[q] => n.prev[r] = m.prev[r] /\ n.next[r] = m.next[r]
      /\ \A r \in Q[q] \ {s} : n.prev[r] \in Q[q] \cup {In!INVALID}
      /\ \A p \in QueueNames \ {q} : n.head[p] = m.head[p] /\ n.tail[p] = m.tail[p]
      /\ QueueOf(n, q, R[q], rank)
  <2>1. CASE m.head[q] = m.tail[q]
    <3>1. Q[q] = {s} /\ m.head[q] = s
      BY <1>1, <1>4, <2>1, Alone
    <3>2. /\ n.first_free = m.first_free
          /\ n.head = [m.head EXCEPT ![q] = In!INVALID] /\ n.tail = [m.tail EXCEPT ![q] = In!INVALID]
          /\ n.next = [m.next EXCEPT ![s] = In!INVALID]
          /\ n.prev = [m.prev EXCEPT ![s] = In!DEQUEUED]
      BY <1>1, <1>t, <2>1 DEF In!dequeue, In!Memory
    <3> HIDE DEF n, R
    <3>3. /\ n.prev[s] = In!DEQUEUED /\ n.head[q] = In!INVALID /\ n.tail[q] = In!INVALID
          /\ \A r \in In!Slots \ {s} : n.prev[r] = m.prev[r] /\ n.next[r] = m.next[r]
          /\ \A p \in QueueNames \ {q} : n.head[p] = m.head[p] /\ n.tail[p] = m.tail[p]
      BY <1>1, <1>t, <3>2
    <3>4. R[q] = {}
      BY <1>5, <3>1
    <3>5. QueueOf(n, q, {}, rank)
      BY <3>3 DEF QueueOf
    <3>6. QED
      BY <3>1, <3>2, <3>3, <3>4, <3>5
  <2>2. CASE m.head[q] # m.tail[q]
    <3> DEFINE a == m.prev[s]
               z == m.next[s]
    <3>1. /\ a = In!INVALID <=> s = m.head[q]
          /\ z = In!INVALID <=> s = m.tail[q]
          /\ a # In!INVALID => a \in Q[q] \ {s}
          /\ z # In!INVALID => z \in Q[q] \ {s}
      <4>1. \A r \in Q[q] : Linked(m, q, Q[q], rank, r)
        BY <1>1, <1>4, Neighbours
      <4>2. QED
        BY <4>1 DEF Linked
    <3>2. /\ m.head[q] = s => z \in In!Slots \ {s}
          /\ m.tail[q] = s => a \in In!Slots \ {s}
          /\ m.head[q] # s /\ m.tail[q] # s => z \in In!Slots \ {s} /\ a \in In!Slots \ {s}
      BY <1>1, <2>2, <3>1
    <3>3. /\ n.first_free = m.first_free
          /\ n.head[q] = (IF m.head[q] = s THEN z ELSE m.head[q])
          /\ n.tail[q] = (IF m.tail[q] = s THEN a ELSE m.tail[q])
          /\ \A p \in QueueNames \ {q} : n.head[p] = m.head[p] /\ n.tail[p] = m.tail[p]
          /\ n.prev[s] = In!DEQUEUED
          /\ \A r \in In!Slots \ {s} :
               /\ n.prev[r] = IF m.tail[q] # s /\ r = z THEN IF m.head[q] = s THEN In!INVALID ELSE a ELSE m.prev[r]
               /\ n.next[r] = IF m.head[q] # s /\ r = a THEN IF m.tail[q] = s THEN In!INVALID ELSE z ELSE m.next[r]
      BY <1>1, <2>2, <3>2, Unlinked
    <3> HIDE DEF n, R
    <3>4. QueueOf(n, q, R[q], rank)
      BY <1>1, <1>4, <1>5, <2>2, <3>3, QueueWithout
    <3>5. \A r \in In!Slots : r \notin Q[q] => n.prev[r] = m.prev[r] /\ n.next[r] = m.next[r]
      BY <3>1, <3>3
    <3>6. \A r \in Q[q] \ {s} : n.prev[r] \in Q[q] \cup {In!INVALID}
      BY <1>5, <3>4 DEF QueueOf
    <3>7. QED
      BY <3>3, <3>4, <3>5, <3>6
  <2>3. QED
    BY <2>1, <2>2
<1> HIDE DEF n, R
<1>7. /\ \A r \in In!Slots \ {s} : /\ n.prev[r] = In!FREE <=> m.prev[r] = In!FREE
                                   /\ n.prev[r] = In!DEQUEUED <=> m.prev[r] = In!DEQUEUED
      /\ m.prev[s] # In!FREE /\ m.prev[s] # In!DEQUEUED
  <2>1. \A r \in Q[q] : m.prev[r] # In!FREE /\ m.prev[r] # In!DEQUEUED
    BY PoolApart
  <2>2. ASSUME NEW r \in In!Slots \ {s}, r \in Q[q] PROVE n.prev[r] # In!FREE /\ n.prev[r] # In!DEQUEUED
    BY <1>1, <1>6, <2>2, MarkBytes
  <2>3. QED
    BY <1>6, <2>1, <2>2
<1>8. FreeIn(n) = FreeIn(m) /\ Queued(n) = Queued(m) \ {s}
  <2>1. FreeIn(n) = FreeIn(m)
    BY <1>6, <1>7, MarkBytes DEF FreeIn
  <2>2. Queued(n) = Queued(m) \ {s}
    BY <1>6, <1>7 DEF Queued
  <2>3. QED
    BY <2>1, <2>2
<1>9. FreeOf(n)
  <2>1. FreeOf(m) /\ FreeIn(m) \subseteq In!Slots
    BY DEF PoolHolds, FreeIn
  <2>2. \A r \in FreeIn(m) : n.next[r] = m.next[r]
    <3>1. \A r \in FreeIn(m) : r \notin Q[q]
      BY PoolApart DEF FreeIn
    <3>2. QED
      BY <1>6, <2>1, <3>1
  <2>3. QED
    BY <1>6, <1>8, <2>1, <2>2 DEF FreeOf
<1>10. R["todo"] \cap R["done"] = {} /\ R["todo"] \cup R["done"] = Queued(n)
  <2>1. Q["todo"] \cap Q["done"] = {} /\ Q["todo"] \cup Q["done"] = Queued(m)
    BY DEF PoolHolds
  <2>2. q = "todo" \/ q = "done"
    BY DEF QueueNames
  <2>3. QED
    BY <1>8, <1>5, <2>1, <2>2 DEF QueueNames
<1>11. ASSUME NEW p \in QueueNames \ {q} PROVE QueueOf(n, p, R[p], rank)
  <2>1. Q[p] \subseteq In!Slots /\ Q[p] \cap Q[q] = {}
    BY <1>1, PoolApart
  <2>2. \A r \in Q[p] : n.prev[r] = m.prev[r] /\ n.next[r] = m.next[r]
    BY <1>6, <2>1
  <2>3. QED
    BY <1>2, <1>5, <1>6, <2>2, QueueStays
<1>12. PoolHolds(n, R)
  BY <1>2, <1>3, <1>5, <1>6, <1>9, <1>10, <1>11 DEF PoolHolds
<1>13. QED
  BY <1>6, <1>7, <1>12 DEF MarksKept, n, R

LEMMA InitIn ==
  ASSUME NEW Q, Q = [q \in QueueNames |-> {}] PROVE PoolHolds(In!pool_queue_init, Q)
<1> DEFINE m == In!pool_queue_init
<1>1. /\ m.first_free = 0 /\ \A s \in In!Slots : m.prev[s] = In!FREE /\ m.next[s] = IF s = NumIn - 1 THEN In!INVALID ELSE s + 1
      /\ \A q \in QueueNames : m.head[q] = In!INVALID /\ m.tail[q] = In!INVALID
  BY DEF In!pool_queue_init, QueueNames
<1>2. m \in In!Memory
  <2>1. \A k \in In!Slots : (IF k = NumIn - 1 THEN In!INVALID ELSE k + 1) \in In!Bytes
    BY RpcAssumption, BytesOf DEF In!Slots, In!Bytes
  <2>2. 0 \in In!Bytes
    BY DEF In!Bytes
  <2>3. QED
    BY <2>1, <2>2, BytesOf DEF In!pool_queue_init, In!Memory
<1> HIDE DEF m
<1>3. FreeIn(m) = In!Slots /\ Queued(m) = {}
  BY <1>1 DEF FreeIn, Queued
<1>4. FreeOf(m)
  BY <1>1, <1>3, RpcAssumption DEF FreeOf, In!Slots, In!INVALID
<1>5. Q["todo"] = {} /\ Q["done"] = {} /\ Q \in [QueueNames -> SUBSET In!Slots]
  BY DEF QueueNames
<1>6. PICK rank : rank = [s \in In!Slots |-> 0]
  OBVIOUS
<1>7. rank \in [In!Slots -> Nat]
  BY <1>6
<1>8. \A q \in QueueNames : QueueOf(m, q, {}, rank)
  BY <1>1 DEF QueueOf
<1>9. PoolHolds(m, Q)
  BY <1>2, <1>3, <1>4, <1>5, <1>7, <1>8 DEF PoolHolds, QueueNames
<1>10. QED
  BY <1>9 DEF m

\* One more link.
Link(m, x) == IF x \in In!Slots THEN m.next[x] ELSE In!INVALID

\* f holds the first k links from slot s.
Follows(m, s, k, f) ==
  /\ f \in [0 .. k -> In!Bytes] /\ f[0] = s
  /\ \A i \in 1 .. k : f[i] = Link(m, f[i - 1])

LEMMA LinkByte ==
  ASSUME NEW m \in In!Memory PROVE \A x : Link(m, x) \in In!Bytes
  BY InFields, BytesOf DEF Link

\* The links can be followed as far as one likes.
LEMMA ChainExists ==
  ASSUME NEW m \in In!Memory, NEW s \in In!Bytes
  PROVE  \A k \in Nat : \E f : Follows(m, s, k, f)
<1> DEFINE B == {k \in Nat : ~ \E f : Follows(m, s, k, f)}
<1>1. ASSUME B # {} PROVE FALSE
  <2>1. PICK k \in B : \A j \in B : k <= j
    BY <1>1, LeastElement
  <2>2. k \in Nat /\ ~ \E f : Follows(m, s, k, f)
    BY <2>1
  <2>3. k # 0
    <3>1. PICK f : f = [i \in 0 .. 0 |-> s]
      OBVIOUS
    <3>2. Follows(m, s, 0, f)
      BY <3>1 DEF Follows
    <3>3. QED
      BY <2>2, <3>2
  <2>4. k - 1 \in Nat /\ k - 1 \notin B
    BY <2>1, <2>2, <2>3
  <2>5. PICK f : Follows(m, s, k - 1, f)
    BY <2>4
  <2>6. PICK x : x = Link(m, f[k - 1])
    OBVIOUS
  <2>7. x \in In!Bytes
    BY <2>6, LinkByte
  <2>8. PICK g : g = [i \in 0 .. k |-> IF i = k THEN x ELSE f[i]]
    OBVIOUS
  <2>9. f \in [0 .. k - 1 -> In!Bytes] /\ f[0] = s /\ \A i \in 1 .. k - 1 : f[i] = Link(m, f[i - 1])
    BY <2>5 DEF Follows
  <2>10. g \in [0 .. k -> In!Bytes] /\ g[k] = x /\ \A i \in 0 .. k - 1 : g[i] = f[i]
    BY <2>2, <2>7, <2>8, <2>9
  <2>11. g[0] = s
    BY <2>2, <2>3, <2>9, <2>10
  <2>12. ASSUME NEW i \in 1 .. k PROVE g[i] = Link(m, g[i - 1])
    <3>1. i - 1 \in 0 .. k - 1 /\ g[i - 1] = f[i - 1]
      BY <2>2, <2>10
    <3>2. CASE i = k
      BY <2>6, <2>10, <3>1, <3>2
    <3>3. CASE i # k
      <4>1. i \in 1 .. k - 1 /\ i \in 0 .. k - 1
        BY <2>2, <3>3
      <4>2. QED
        BY <2>9, <2>10, <3>1, <4>1
    <3>4. QED
      BY <3>2, <3>3
  <2>13. Follows(m, s, k, g)
    BY <2>10, <2>11, <2>12 DEF Follows
  <2>14. QED
    BY <2>2, <2>13
<1>2. QED
  BY <1>1

\* Chain follows the links.
LEMMA ChainFollows ==
  ASSUME NEW m \in In!Memory, NEW s \in In!Bytes
  PROVE  LET at == In!Chain(m, s) IN
         /\ DOMAIN at = 0 .. NumIn + 1 /\ at[0] = s
         /\ \A k \in 1 .. NumIn + 1 : at[k] = Link(m, at[k - 1])
<1> DEFINE D == 0 .. NumIn + 1
           E(at) == at = [k \in D |-> IF k = 0 THEN s
                                      ELSE IF at[k - 1] \in In!Slots THEN m.next[at[k - 1]] ELSE In!INVALID]
<1>1. NumIn + 1 \in Nat /\ D \subseteq Nat /\ 0 \in D
  BY MarkBytes
<1>2. PICK f : Follows(m, s, NumIn + 1, f)
  BY <1>1, ChainExists
<1>3. E(f)
  <2>1. f \in [D -> In!Bytes] /\ f[0] = s /\ \A i \in 1 .. NumIn + 1 : f[i] = Link(m, f[i - 1])
    BY <1>2 DEF Follows
  <2>2. \A i \in D : i # 0 => i \in 1 .. NumIn + 1
    BY <1>1
  <2>3. \A i \in D : f[i] = IF i = 0 THEN s ELSE IF f[i - 1] \in In!Slots THEN m.next[f[i - 1]] ELSE In!INVALID
    BY <2>1, <2>2 DEF Link
  <2> HIDE DEF D
  <2>4. QED
    BY <2>1, <2>3
<1>4. PICK at : at = In!Chain(m, s)
  OBVIOUS
<1>5. E(at)
  <2>1. at = CHOOSE g : E(g)
    BY <1>4 DEF In!Chain
  <2> HIDE DEF E
  <2>2. QED
    BY <1>3, <2>1
<1>6. DOMAIN at = D /\ at[0] = s
  BY <1>1, <1>5
<1>7. ASSUME NEW k \in 1 .. NumIn + 1 PROVE at[k] = Link(m, at[k - 1])
  <2>1. k \in D /\ k # 0
    BY <1>1
  <2>2. QED
    BY <1>5, <2>1 DEF Link
<1>8. QED
  BY <1>4, <1>6, <1>7

\* A chain that starts at the head of a queue stays in it.
LEMMA ChainStays ==
  ASSUME NEW m \in In!Memory, NEW q \in QueueNames, NEW S, NEW rank, QueueOf(m, q, S, rank), S \subseteq In!Slots,
         NEW at, at = In!Chain(m, m.head[q])
  PROVE  DOMAIN at = 0 .. NumIn + 1 /\ \A k \in 0 .. NumIn + 1 : at[k] \in In!Slots => at[k] \in S
<1>1. /\ DOMAIN at = 0 .. NumIn + 1 /\ at[0] = m.head[q]
      /\ \A k \in 1 .. NumIn + 1 : at[k] = Link(m, at[k - 1])
  <2>1. m.head[q] \in In!Bytes
    BY InFields
  <2>2. QED
    BY <2>1, ChainFollows
<1> DEFINE B == {k \in 0 .. NumIn + 1 : at[k] \in In!Slots /\ at[k] \notin S}
<1>2. ASSUME B # {} PROVE FALSE
  <2>0. B \subseteq Nat
    BY MarkBytes
  <2>1. PICK k \in B : \A j \in B : k <= j
    BY <1>2, <2>0, LeastElement
  <2>2. k \in 0 .. NumIn + 1 /\ k \in Nat /\ at[k] \in In!Slots /\ at[k] \notin S
    BY <2>0, <2>1
  <2>3. k # 0
    BY <1>1, <2>2, MarkBytes DEF QueueOf
  <2>4. k \in 1 .. NumIn + 1 /\ k - 1 \in 0 .. NumIn + 1 /\ k - 1 \notin B
    BY <2>1, <2>2, <2>3, MarkBytes
  <2>5. at[k] = Link(m, at[k - 1])
    BY <1>1, <2>4
  <2>6. at[k - 1] \in In!Slots /\ at[k] = m.next[at[k - 1]]
    BY <2>2, <2>5, MarkBytes DEF Link
  <2>7. at[k - 1] \in S
    BY <2>4, <2>6
  <2>8. at[k] \in S \cup {In!INVALID}
    BY <2>6, <2>7 DEF QueueOf
  <2>9. QED
    BY <2>2, <2>8, MarkBytes
<1>3. QED
  BY <1>1, <1>2

LEMMA FindIn ==
  ASSUME NEW m, NEW Q, PoolHolds(m, Q), NEW M, NEW found, found = In!find_first_body(m, "todo", M).ret,
         found \in In!Slots
  PROVE  found \in Q["todo"] /\ found \in M
<1>1. m \in In!Memory /\ "todo" \in QueueNames /\ Q["todo"] \subseteq In!Slots
  BY DEF PoolHolds, QueueNames
<1>2. PICK rank \in [In!Slots -> Nat] : \A q \in QueueNames : QueueOf(m, q, Q[q], rank)
  BY DEF PoolHolds
<1>3. PICK at : at = In!Chain(m, m.head["todo"])
  OBVIOUS
<1>4. DOMAIN at = 0 .. NumIn + 1 /\ \A k \in 0 .. NumIn + 1 : at[k] \in In!Slots => at[k] \in Q["todo"]
  <2>1. QueueOf(m, "todo", Q["todo"], rank)
    BY <1>1, <1>2
  <2>2. QED
    BY <1>1, <1>3, <2>1, ChainStays
<1> DEFINE hits == {k \in DOMAIN at : at[k] \in In!Slots \cap M}
<1>5. found = IF hits = {} THEN In!INVALID ELSE at[CHOOSE k \in hits : \A j \in hits : k <= j]
  BY <1>3 DEF In!find_first_body, In!Result
<1>6. hits # {}
  BY <1>5, MarkBytes
<1>7. hits \subseteq Nat
  BY <1>4, MarkBytes
<1>8. (CHOOSE k \in hits : \A j \in hits : k <= j) \in hits
  <2> HIDE DEF hits
  <2>1. \E k \in hits : \A j \in hits : k <= j
    BY <1>6, <1>7, LeastElement
  <2>2. QED
    BY <2>1
<1>9. PICK k \in hits : found = at[k]
  BY <1>5, <1>6, <1>8
<1>10. QED
  BY <1>4, <1>9

----------------------------------------------------------------------------
(***************************************************************************)
(* The calls in flight.  A call is known by its box and its counter, which *)
(* its message carries as arguments.                                       *)
(***************************************************************************)

\* The functions of a box are divided among its threads.
SeparateServers ==
  \A t, u \in Threads :
    t # u /\ BoxOf[t] = BoxOf[u] => (UNION Serves[t]) \cap (UNION Serves[u]) = {}

\* The state of an incoming message tells the queue it is in, if any.
StateOf(q) == IF q = "todo" THEN "sent" ELSE "done"

QueuesIn(m, messages) == [q \in QueueNames |-> {s \in Queued(m) : messages[s].state = StateOf(q)}]

QueuesOf(b) == QueuesIn(inpool[b], in[b])

\* The counter is even and within its bound; later calls have not been run.
CounterOK(b) ==
  /\ \E h \in 0 .. MaxCalls[b] : counter[b] = 2 * h
  /\ \A c \in DOMAIN ran[b] : ran[b][c] <= 1 /\ (c > counter[b] => ran[b][c] = 0)

\* An outgoing message knows its call and how far that has come.
MessageOK(b, k) ==
  LET m == out[b][k] IN
  /\ m.state = "invalid" => m.wait.slot = NONE
  /\ m.state # "invalid" =>
       /\ m.match.slot = k /\ m.match.counter \in 1 .. counter[b]
       /\ m.arg = <<b, m.match.counter>>
       /\ m.wait \in {m.match, Cookie(INVALID_COUNTER, k)}
       /\ m.state = "ready" => ran[b][m.match.counter] = 0
       /\ m.state = "done" => m.result = m.arg /\ ran[b][m.match.counter] > 0

\* The messages of a box are for different calls.
CallsDistinct(b) ==
  \A k, l \in OutSlots :
    out[b][k].state # "invalid" /\ out[b][l].state # "invalid"
      /\ out[b][k].match.counter = out[b][l].match.counter => k = l

\* A busy slot holds the copy of a message that was sent to this box.
CopyOK(b, s) ==
  LET m == in[b][s]
      o == Origin(m)
  IN  /\ m.peer \in Boxes /\ m.match.slot \in OutSlots /\ m.peer = m.arg[1]
      /\ o.state = "sent" /\ o.peer = b /\ o.match = m.match /\ o.arg = m.arg
      /\ m.state \in {"sent", "done"}
      /\ m.state = "sent" => ran[m.peer][m.match.counter] = 0
      /\ m.state = "done" => m.result = m.arg /\ ran[m.peer][m.match.counter] > 0

CopiesDistinct(b) == \A s, r \in Busy(b) : in[b][s].arg = in[b][r].arg => s = r

\* A message that was sent has its copy.
HasCopy(b, k) ==
  LET m == out[b][k] IN
  m.state = "sent" => m.peer \in Boxes /\ \E s \in Busy(m.peer) : in[m.peer][s].arg = m.arg

CallerOK(t) ==
  /\ pc[t] \in {"send", "pend"} =>
       LET m == out[BoxOf[t]][job[t].slot] IN m.state # "invalid" /\ job[t].arg = m.arg
  /\ pc[t] = "free" =>
       /\ job[t].ret = job[t].arg
       /\ \E b \in Boxes, c \in Nat : job[t].arg = <<b, c>> /\ c \in 1 .. counter[b] /\ ran[b][c] > 0

\* A server has its slot to itself from the moment it is found.
ServerOK(t) ==
  LET b == BoxOf[t]
      s == job[t].slot
  IN  /\ pc[t] \in {"group", "list", "find", "take", "run", "done", "wait"} => job[t].fns \in Serves[t]
      /\ pc[t] \in {"take", "run", "done"} => in[b][s].gateway.fn \in job[t].fns
      /\ pc[t] = "take" => s \in QueuesOf(b)["todo"]
      /\ pc[t] = "run" => inpool[b].prev[s] = In!DEQUEUED /\ in[b][s].state = "sent"
      /\ pc[t] = "done" => inpool[b].prev[s] = In!DEQUEUED /\ in[b][s].state = "done"

InInv ==
  /\ \A b \in Boxes : CounterOK(b) /\ PoolHolds(inpool[b], QueuesOf(b)) /\ CallsDistinct(b) /\ CopiesDistinct(b)
  /\ \A b \in Boxes : \A k \in OutSlots : MessageOK(b, k) /\ HasCopy(b, k)
  /\ \A b \in Boxes : \A s \in Busy(b) : CopyOK(b, s)
  /\ \A t \in Threads : CallerOK(t) /\ ServerOK(t)

\* What InInv says of one box, message, slot or thread.
LEMMA InParts ==
  ASSUME InInv
  PROVE  /\ \A b \in Boxes : CounterOK(b)
         /\ \A b \in Boxes : PoolHolds(inpool[b], QueuesOf(b))
         /\ \A b \in Boxes : CallsDistinct(b)
         /\ \A b \in Boxes : CopiesDistinct(b)
         /\ \A b \in Boxes : \A k \in OutSlots : MessageOK(b, k)
         /\ \A b \in Boxes : \A k \in OutSlots : HasCopy(b, k)
         /\ \A b \in Boxes : \A s \in Busy(b) : CopyOK(b, s)
         /\ \A t \in Threads : CallerOK(t)
         /\ \A t \in Threads : ServerOK(t)
  BY DEF InInv

\* A busy slot holds the message of the call with its arguments.
LEMMA SameCall ==
  ASSUME InInv, NEW b \in Boxes, NEW s \in Busy(b), NEW d \in Boxes, NEW k \in OutSlots,
         out[d][k].state # "invalid", out[d][k].arg = in[b][s].arg
  PROVE  d = in[b][s].peer /\ k = in[b][s].match.slot
<1> DEFINE p == in[b][s].peer
           l == in[b][s].match.slot
<1>1. /\ p \in Boxes /\ l \in OutSlots /\ p = in[b][s].arg[1]
      /\ out[p][l].state = "sent" /\ out[p][l].arg = in[b][s].arg
  <2>1. CopyOK(b, s)
    BY InParts
  <2>2. QED
    BY <2>1 DEF CopyOK, Origin
<1>2. MessageOK(p, l) /\ MessageOK(d, k)
  <2> HIDE DEF p, l
  <2>1. QED
    BY <1>1, InParts
<1>3. out[p][l].arg = <<p, out[p][l].match.counter>> /\ out[d][k].arg = <<d, out[d][k].match.counter>>
  <2> HIDE DEF p, l
  <2>1. QED
    BY <1>1, <1>2 DEF MessageOK
<1> HIDE DEF p, l
<1>4. d = p /\ out[d][k].match.counter = out[p][l].match.counter
  BY <1>1, <1>3
<1>5. out[p][l].state # "invalid" /\ CallsDistinct(d)
  BY <1>1, InParts
<1>6. k = l
  BY <1>1, <1>4, <1>5 DEF CallsDistinct
<1>7. QED
  BY <1>4, <1>6 DEF p, l

\* No call is copied to two slots.
LEMMA OneCopy ==
  ASSUME InInv, NEW b \in Boxes, NEW s \in Busy(b), NEW c \in Boxes, NEW r \in Busy(c), in[b][s].arg = in[c][r].arg
  PROVE  b = c /\ s = r
<1> DEFINE d == in[c][r].peer
           k == in[c][r].match.slot
           p == in[b][s].peer
           l == in[b][s].match.slot
<1>1. d \in Boxes /\ k \in OutSlots /\ out[d][k].state = "sent" /\ out[d][k].arg = in[c][r].arg /\ out[d][k].peer = c
  <2>1. CopyOK(c, r)
    BY InParts
  <2>2. QED
    BY <2>1 DEF CopyOK, Origin
<1>2. p \in Boxes /\ l \in OutSlots /\ out[p][l].peer = b
  <2>1. CopyOK(b, s)
    BY InParts
  <2>2. QED
    BY <2>1 DEF CopyOK, Origin
<1>3. out[d][k].state # "invalid" /\ out[d][k].arg = in[b][s].arg
  BY <1>1
<1> HIDE DEF d, k
<1>4. d = p /\ k = l
  BY <1>1, <1>3, SameCall
<1>5. b = c
  BY <1>1, <1>2, <1>4
<1>6. QED
  BY <1>5, InParts DEF CopiesDistinct

LEMMA InInit == Init => InInv
<1> SUFFICES ASSUME Init PROVE InInv
  OBVIOUS
<1>1. /\ \A b \in Boxes : counter[b] = 0 /\ inpool[b] = In!pool_queue_init
      /\ \A b \in Boxes : \A k \in OutSlots : out[b][k] = NoOut
      /\ \A b \in Boxes : DOMAIN ran[b] = 1 .. 2 * MaxCalls[b] /\ \A c \in DOMAIN ran[b] : ran[b][c] = 0
      /\ \A t \in Threads : pc[t] = "idle"
  BY DEF Init
<1>2. \A b \in Boxes : CounterOK(b)
  <2> SUFFICES ASSUME NEW b \in Boxes PROVE CounterOK(b)
    OBVIOUS
  <2>1. 0 \in 0 .. MaxCalls[b] /\ counter[b] = 2 * 0
    BY <1>1, RpcAssumption
  <2>2. QED
    BY <1>1, <2>1 DEF CounterOK
<1>3. \A s \in In!Slots : In!pool_queue_init.prev[s] = In!FREE
  BY DEF In!pool_queue_init
<1>4. \A b \in Boxes : Busy(b) = {} /\ Queued(inpool[b]) = {}
  BY <1>1, <1>3 DEF Busy, Queued
<1>5. \A b \in Boxes : PoolHolds(inpool[b], QueuesOf(b))
  <2> SUFFICES ASSUME NEW b \in Boxes PROVE PoolHolds(inpool[b], QueuesOf(b))
    OBVIOUS
  <2>1. QueuesOf(b) = [q \in QueueNames |-> {}]
    BY <1>4 DEF QueuesOf, QueuesIn
  <2>2. QED
    BY <1>1, <2>1, InitIn
<1>6. \A b \in Boxes : \A k \in OutSlots : out[b][k].state = "invalid" /\ out[b][k].wait.slot = NONE
  BY <1>1 DEF NoOut, NullCookie, Cookie, NONE
<1>7. \A b \in Boxes : CallsDistinct(b) /\ \A k \in OutSlots : MessageOK(b, k) /\ HasCopy(b, k)
  BY <1>6 DEF CallsDistinct, MessageOK, HasCopy
<1>8. \A b \in Boxes : CopiesDistinct(b) /\ \A s \in Busy(b) : CopyOK(b, s)
  BY <1>4 DEF CopiesDistinct
<1>9. \A t \in Threads : CallerOK(t) /\ ServerOK(t)
  BY <1>1 DEF CallerOK, ServerOK
<1>10. QED
  BY <1>2, <1>5, <1>7, <1>8, <1>9 DEF InInv

----------------------------------------------------------------------------
\* Steps that change no message and no pool of the callees.

\* The part of InInv that does not speak of threads.
DataOK ==
  /\ \A b \in Boxes : CounterOK(b) /\ PoolHolds(inpool[b], QueuesOf(b)) /\ CallsDistinct(b) /\ CopiesDistinct(b)
  /\ \A b \in Boxes : \A k \in OutSlots : MessageOK(b, k) /\ HasCopy(b, k)
  /\ \A b \in Boxes : \A s \in Busy(b) : CopyOK(b, s)

LEMMA DataKept ==
  ASSUME InInv, UNCHANGED <<out, inpool, in, counter, ran>>
  PROVE  DataOK'
<1>1. \A b : QueuesOf(b)' = QueuesOf(b) /\ Busy(b)' = Busy(b)
  BY DEF QueuesOf, Busy
<1>2. \A b \in Boxes : PoolHolds(inpool[b], QueuesOf(b))'
  <2>1. ASSUME NEW b \in Boxes PROVE PoolHolds(inpool'[b], QueuesOf(b)')
    <3>1. PoolHolds(inpool[b], QueuesOf(b)) /\ inpool'[b] = inpool[b] /\ QueuesOf(b)' = QueuesOf(b)
      BY <1>1, InParts
    <3>2. QED
      BY <3>1
  <2>2. QED
    BY <2>1
<1>3. \A b \in Boxes : CounterOK(b)' /\ CallsDistinct(b)' /\ CopiesDistinct(b)'
  BY <1>1, InParts DEF CounterOK, CallsDistinct, CopiesDistinct
<1>4. \A b \in Boxes : \A k \in OutSlots : MessageOK(b, k)' /\ HasCopy(b, k)'
  BY <1>1, InParts DEF MessageOK, HasCopy
<1>5. ASSUME NEW b \in Boxes, NEW s \in Busy(b)' PROVE CopyOK(b, s)'
  <2>1. CopyOK(b, s)
    BY <1>1, InParts
  <2>2. QED
    BY <2>1 DEF CopyOK, Origin
<1>6. QED
  BY <1>2, <1>3, <1>4, <1>5 DEF DataOK

\* A thread stays where it is, and so do the message and the slot it uses.
LEMMA CallerKept ==
  ASSUME NEW t \in Threads, CallerOK(t), pc'[t] = pc[t], job'[t] = job[t],
         pc[t] \in {"send", "pend"} =>
           /\ out'[BoxOf[t]][job[t].slot].state = "invalid" => out[BoxOf[t]][job[t].slot].state = "invalid"
           /\ out'[BoxOf[t]][job[t].slot].arg = out[BoxOf[t]][job[t].slot].arg,
         \A b \in Boxes : 1 .. counter[b] \subseteq 1 .. counter'[b],
         \A b \in Boxes : \A c \in 1 .. counter[b] : ran[b][c] > 0 => ran'[b][c] > 0
  PROVE  CallerOK(t)'
  BY DEF CallerOK

LEMMA ServerKept ==
  ASSUME NEW t \in Threads, ServerOK(t), pc'[t] = pc[t], job'[t] = job[t],
         pc[t] \in {"take", "run", "done"} =>
           in'[BoxOf[t]][job[t].slot] = in[BoxOf[t]][job[t].slot],
         pc[t] = "take" => job[t].slot \in QueuesOf(BoxOf[t])'["todo"],
         pc[t] \in {"run", "done"} => inpool'[BoxOf[t]].prev[job[t].slot] = In!DEQUEUED
  PROVE  ServerOK(t)'
  BY DEF ServerOK

\* The other threads stay where they are.
LEMMA OneGoes ==
  ASSUME TypeInv, NEW t \in Threads, NEW from, NEW to, GoTo(t, from, to)
  PROVE  pc[t] = from /\ pc'[t] = to /\ \A u \in Threads \ {t} : pc'[u] = pc[u]
  BY DEF TypeInv, TypeOK, GoTo

LEMMA ThreadKept ==
  ASSUME TypeInv, InInv, UNCHANGED <<out, inpool, in, counter, ran>>, NEW t \in Threads, pc'[t] = pc[t], job'[t] = job[t]
  PROVE  CallerOK(t)' /\ ServerOK(t)'
<1>1. QueuesOf(BoxOf[t])' = QueuesOf(BoxOf[t])
  BY DEF QueuesOf
<1>2. CallerOK(t) /\ ServerOK(t)
  BY InParts
<1>3. CallerOK(t)'
  BY <1>2, CallerKept
<1>4. pc[t] = "take" => job[t].slot \in QueuesOf(BoxOf[t])'["todo"]
  BY <1>1, <1>2 DEF ServerOK
<1>5. pc[t] \in {"run", "done"} => inpool'[BoxOf[t]].prev[job[t].slot] = In!DEQUEUED
  BY <1>2 DEF ServerOK
<1>6. ServerOK(t)'
  BY <1>2, <1>4, <1>5, ServerKept
<1>7. QED
  BY <1>3, <1>6

LEMMA StepKept ==
  ASSUME TypeInv, InInv, UNCHANGED <<out, inpool, in, counter, ran>>, NEW t \in Threads, NEW from, NEW to, GoTo(t, from, to),
         \A u \in Threads \ {t} : job'[u] = job[u], CallerOK(t)', ServerOK(t)'
  PROVE  InInv'
<1>1. \A u \in Threads \ {t} : CallerOK(u)' /\ ServerOK(u)'
  BY OneGoes, ThreadKept
<1>2. QED
  BY <1>1, DataKept DEF InInv, DataOK

LEMMA CoreKept ==
  ASSUME TypeInv, InInv, UNCHANGED <<out, inpool, in, counter, ran, pc, job>>
  PROVE  InInv'
<1>1. \A t \in Threads : CallerOK(t)' /\ ServerOK(t)'
  BY ThreadKept
<1>2. QED
  BY <1>1, DataKept DEF InInv, DataOK

\* A thread at a place without a message or a slot.
LEMMA NoUse ==
  ASSUME NEW t \in Threads, pc'[t] \in {"idle", "alloc", "group", "list", "find", "wait"},
         pc'[t] \in {"group", "list", "find", "wait"} => job'[t].fns \in Serves[t]
  PROVE  CallerOK(t)' /\ ServerOK(t)'
  BY DEF CallerOK, ServerOK

\* The steps of a caller that change no message.
LEMMA caller_in ==
  ASSUME TypeInv, InInv, NEW t \in Threads,
         \/ rpc_fncall(t) \/ send_outgoing_rpc_full(t) \/ enqueue_outgoing(t) \/ wait_timeout(t)
         \/ free_outgoing_msg(t) \/ waitfor_timeout(t)
  PROVE  InInv'
<1>1. UNCHANGED <<out, inpool, in, counter, ran>>
  BY DEF rpc_fncall, send_outgoing_rpc_full, enqueue_outgoing, wait_timeout, free_outgoing_msg, waitfor_timeout
<1>2. \A u \in Threads \ {t} : job'[u] = job[u]
  <2>1. job \in [Threads -> JobType]
    BY DEF TypeInv, TypeOK
  <2>2. QED
    BY <2>1 DEF rpc_fncall, send_outgoing_rpc_full, enqueue_outgoing, wait_timeout, free_outgoing_msg, waitfor_timeout
<1>3. CASE \E from : GoTo(t, from, "idle") \/ GoTo(t, from, "alloc")
  <2>1. PICK from, to : GoTo(t, from, to) /\ to \in {"idle", "alloc"}
    BY <1>3
  <2>2. pc'[t] \in {"idle", "alloc"}
    BY <2>1, OneGoes
  <2>3. CallerOK(t)' /\ ServerOK(t)'
    BY <2>2, NoUse
  <2>4. QED
    BY <1>1, <1>2, <2>1, <2>3, StepKept
<1>4. CASE GoTo(t, "send", "pend") /\ UNCHANGED job
  <2>1. pc[t] = "send" /\ pc'[t] = "pend" /\ job'[t] = job[t]
    BY <1>4, OneGoes
  <2>2. CallerOK(t)
    BY InParts
  <2>3. CallerOK(t)'
    BY <1>1, <2>1, <2>2 DEF CallerOK
  <2>4. ServerOK(t)'
    BY <2>1 DEF ServerOK
  <2>5. QED
    BY <1>1, <1>2, <1>4, <2>3, <2>4, StepKept
<1>5. QED
  BY <1>3, <1>4 DEF rpc_fncall, send_outgoing_rpc_full, enqueue_outgoing, wait_timeout, free_outgoing_msg, waitfor_timeout

\* A server on its way, with the group it has chosen.
LEMMA ServerGoes ==
  ASSUME TypeInv, InInv, NEW t \in Threads, NEW from, NEW to \in {"idle", "group", "list", "find", "wait"}, GoTo(t, from, to),
         NEW j, job' = [job EXCEPT ![t] = j], to # "idle" => j.fns \in Serves[t],
         UNCHANGED <<out, inpool, in, counter, ran>>
  PROVE  InInv'
<1>1. job'[t] = j /\ \A u \in Threads \ {t} : job'[u] = job[u]
  BY DEF TypeInv, TypeOK
<1>2. pc'[t] = to
  BY OneGoes
<1>3. CallerOK(t)' /\ ServerOK(t)'
  BY <1>1, <1>2, NoUse
<1>4. QED
  BY <1>1, <1>3, StepKept

LEMMA waitfor_in ==
  ASSUME TypeInv, InInv, NEW t \in Threads, rpc_fncall_waitfor(t) PROVE InInv'
<1>1. UNCHANGED <<out, inpool, in, counter, ran>>
  BY DEF rpc_fncall_waitfor
<1>2. ASSUME NEW g \in Serves[t], NEW i, NEW fresh, NEW to \in {"group", "wait"}, GoTo(t, "idle", to),
             job' = [job EXCEPT ![t] = Serve(g, i, fresh)]
      PROVE  InInv'
  <2>1. PICK j : j = Serve(g, i, fresh)
    OBVIOUS
  <2>2. /\ j.fns \in Serves[t] /\ job' = [job EXCEPT ![t] = j]
        /\ to \in {"idle", "group", "list", "find", "wait"} /\ GoTo(t, "idle", to)
    BY <1>2, <2>1 DEF Serve
  <2>3. QED
    BY <1>1, <2>2, ServerGoes
<1>3. PICK g \in Serves[t] :
        \/ GoTo(t, "idle", "group") /\ job' = [job EXCEPT ![t] = Serve(g, NONE, TRUE)]
        \/ \E i : GoTo(t, "idle", "wait") /\ job' = [job EXCEPT ![t] = Serve(g, i, FALSE)]
  BY DEF rpc_fncall_waitfor
<1>4. QED
  BY <1>2, <1>3

LEMMA group_in ==
  ASSUME TypeInv, InInv, NEW t \in Threads, allocate_function_group(t) \/ list_function_group(t) \/ pend_group(t)
  PROVE  InInv'
<1>1. UNCHANGED <<out, inpool, in, counter, ran>>
  BY DEF allocate_function_group, list_function_group, pend_group
<1>2. pc[t] \in {"group", "list", "wait"} => job[t].fns \in Serves[t] /\ job[t] \in ServeJobs
  BY InParts DEF ServerOK, TypeInv, JobsFit
<1>3. CASE GoTo(t, "group", "idle") /\ job' = [job EXCEPT ![t] = NoJob]
  BY <1>1, <1>3, ServerGoes
<1>4. CASE GoTo(t, "group", "list") /\ job' = [job EXCEPT ![t].group = Len(groups[BoxOf[t]]) + 1]
  <2>1. PICK i : i = Len(groups[BoxOf[t]]) + 1
    OBVIOUS
  <2>2. PICK j : j = [job[t] EXCEPT !.group = i]
    OBVIOUS
  <2>3. job' = [job EXCEPT ![t] = j]
    BY <1>4, <2>1, <2>2
  <2>4. j.fns \in Serves[t]
    BY <1>2, <1>4, <2>2 DEF GoTo, ServeJobs
  <2>5. QED
    BY <1>1, <1>4, <2>3, <2>4, ServerGoes
<1>5. CASE (GoTo(t, "list", "find") \/ GoTo(t, "wait", "find")) /\ UNCHANGED job
  <2>1. PICK from \in {"list", "wait"} : GoTo(t, from, "find")
    BY <1>5
  <2>2. job' = [job EXCEPT ![t] = job[t]]
    BY <1>5, KeepsJob
  <2>3. job[t].fns \in Serves[t]
    BY <1>2, <2>1 DEF GoTo
  <2>4. QED
    BY <1>1, <2>1, <2>2, <2>3, ServerGoes
<1>6. QED
  BY <1>3, <1>4, <1>5 DEF allocate_function_group, list_function_group, pend_group

LEMMA NotHandledIn ==
  ASSUME TypeInv, InInv, NEW t \in Threads, NEW from \in {"find", "take"}, NotHandled(t, from),
         UNCHANGED <<out, inpool, in, counter, ran>>
  PROVE  InInv'
<1>1. CASE job[t].fresh
  <2>1. PICK j : j = [job[t] EXCEPT !.fresh = FALSE, !.slot = NONE]
    OBVIOUS
  <2>2. GoTo(t, from, "wait") /\ job' = [job EXCEPT ![t] = j]
    BY <1>1, <2>1 DEF NotHandled
  <2>3. job[t] \in ServeJobs /\ job[t].fns \in Serves[t]
    BY <2>2, InParts DEF TypeInv, JobsFit, GoTo, ServerOK
  <2>4. j.fns = job[t].fns
    BY <2>1, <2>3 DEF ServeJobs
  <2>5. QED
    BY <2>2, <2>3, <2>4, ServerGoes
<1>2. CASE ~job[t].fresh
  <2>1. GoTo(t, from, "idle") /\ job' = [job EXCEPT ![t] = NoJob]
    BY <1>2 DEF NotHandled
  <2>2. QED
    BY <2>1, ServerGoes
<1>3. QED
  BY <1>1, <1>2

LEMMA find_in ==
  ASSUME TypeInv, InInv, NEW t \in Threads, find_incoming(t) PROVE InInv'
<1> DEFINE b == BoxOf[t]
<1>1. PICK found : found = In!find_first_body(inpool[b], "todo", query_for_fn_group(t)).ret
  OBVIOUS
<1>2. /\ UNCHANGED <<out, inpool, in, counter, ran>> /\ pc[t] = "find" /\ b \in Boxes
      /\ IF found \in In!Slots
         THEN GoTo(t, "find", "take") /\ job' = [job EXCEPT ![t].slot = found]
         ELSE NotHandled(t, "find")
  BY <1>1, RpcAssumption DEF find_incoming
<1>3. CASE found \in In!Slots
  <2>1. PICK j : j = [job[t] EXCEPT !.slot = found]
    OBVIOUS
  <2>2. job' = [job EXCEPT ![t] = j] /\ GoTo(t, "find", "take")
    BY <1>2, <1>3, <2>1
  <2>3. job[t] \in ServeJobs /\ job[t].fns \in Serves[t]
    BY <1>2, InParts DEF TypeInv, JobsFit, ServerOK
  <2>4. j.fns = job[t].fns /\ j.slot = found
    BY <2>1, <2>3 DEF ServeJobs
  <2>5. job'[t] = j /\ \A u \in Threads \ {t} : job'[u] = job[u]
    BY <2>2 DEF TypeInv, TypeOK
  <2>6. pc'[t] = "take"
    BY <2>2, OneGoes
  <2>7. found \in QueuesOf(b)["todo"] /\ found \in query_for_fn_group(t)
    <3>1. PoolHolds(inpool[b], QueuesOf(b))
      BY <1>2, InParts
    <3>2. QED
      BY <1>1, <1>3, <3>1, FindIn
  <2>8. in[b][found].gateway.fn \in job[t].fns
    BY <2>7 DEF query_for_fn_group
  <2>9. QueuesOf(b)' = QueuesOf(b)
    BY <1>2 DEF QueuesOf
  <2>10. CallerOK(t)'
    BY <2>6 DEF CallerOK
  <2>11. ServerOK(t)'
    BY <1>2, <2>3, <2>4, <2>5, <2>6, <2>7, <2>8, <2>9 DEF ServerOK
  <2>12. QED
    BY <1>2, <2>2, <2>5, <2>10, <2>11, StepKept
<1>4. CASE found \notin In!Slots
  BY <1>2, <1>4, NotHandledIn
<1>5. QED
  BY <1>3, <1>4

\* The steps of the core that deliver nothing.
LEMMA core_in ==
  ASSUME TypeInv, InInv,
         \/ \E b \in Boxes : thread_switch(b)
         \/ drain_message_stop \/ drain_message_seen \/ drain_message_drop \/ drain_message_busy \/ drain_result_stop
  PROVE  InInv'
<1>1. UNCHANGED <<out, inpool, in, counter, ran, pc, job>>
  BY DEF thread_switch, drain_message_stop, drain_message_seen, drain_message_drop, drain_message_busy, drain_result_stop
<1>2. QED
  BY <1>1, CoreKept

----------------------------------------------------------------------------
\* Steps that change a message only where it concerns its caller.

LEMMA PatchedData ==
  ASSUME TypeInv, InInv, UNCHANGED <<inpool, in, counter, ran>>,
         \A b \in Boxes, k \in OutSlots :
           /\ out'[b][k].state = out[b][k].state /\ out'[b][k].match = out[b][k].match
           /\ out'[b][k].arg = out[b][k].arg /\ out'[b][k].peer = out[b][k].peer
           /\ out'[b][k].result = out[b][k].result
           /\ \/ out'[b][k].wait = out[b][k].wait
              \/ out'[b][k].wait = Cookie(INVALID_COUNTER, k) /\ out[b][k].state # "invalid"
  PROVE  DataOK'
<1>1. \A b : QueuesOf(b)' = QueuesOf(b) /\ Busy(b)' = Busy(b)
  BY DEF QueuesOf, Busy
<1>2. \A b \in Boxes : PoolHolds(inpool[b], QueuesOf(b))'
  <2>1. ASSUME NEW b \in Boxes PROVE PoolHolds(inpool'[b], QueuesOf(b)')
    <3>1. PoolHolds(inpool[b], QueuesOf(b)) /\ inpool'[b] = inpool[b] /\ QueuesOf(b)' = QueuesOf(b)
      BY <1>1, InParts
    <3>2. QED
      BY <3>1
  <2>2. QED
    BY <2>1
<1>3. \A b \in Boxes : CounterOK(b)' /\ CallsDistinct(b)' /\ CopiesDistinct(b)'
  BY <1>1, InParts DEF CounterOK, CallsDistinct, CopiesDistinct
<1>4. ASSUME NEW b \in Boxes, NEW k \in OutSlots PROVE MessageOK(b, k)' /\ HasCopy(b, k)'
  <2>1. MessageOK(b, k) /\ HasCopy(b, k)
    BY InParts
  <2>2. MessageOK(b, k)'
    BY <2>1 DEF MessageOK
  <2>3. HasCopy(b, k)'
    BY <1>1, <2>1 DEF HasCopy
  <2>4. QED
    BY <2>2, <2>3
<1>5. ASSUME NEW b \in Boxes, NEW s \in Busy(b)' PROVE CopyOK(b, s)'
  <2>1. CopyOK(b, s)
    BY <1>1, InParts
  <2>2. QED
    BY <2>1 DEF CopyOK, Origin
<1>6. QED
  BY <1>2, <1>3, <1>4, <1>5 DEF DataOK

\* The threads that stay where they are.
LEMMA PatchedThreads ==
  ASSUME TypeInv, InInv, UNCHANGED <<inpool, in, counter, ran>>,
         \A b \in Boxes, k \in OutSlots :
           out'[b][k].state = out[b][k].state /\ out'[b][k].arg = out[b][k].arg,
         NEW u \in Threads, pc'[u] = pc[u], job'[u] = job[u]
  PROVE  CallerOK(u)' /\ ServerOK(u)'
<1>1. QueuesOf(BoxOf[u])' = QueuesOf(BoxOf[u])
  BY DEF QueuesOf
<1>2. CallerOK(u) /\ ServerOK(u) /\ BoxOf[u] \in Boxes
  BY InParts, RpcAssumption
<1>3. pc[u] \in {"send", "pend"} => job[u].slot \in OutSlots
  BY DEF TypeInv, JobsFit
<1>4. CallerOK(u)'
  BY <1>2, <1>3, CallerKept
<1>5. pc[u] = "take" => job[u].slot \in QueuesOf(BoxOf[u])'["todo"]
  BY <1>1, <1>2 DEF ServerOK
<1>6. pc[u] \in {"run", "done"} => inpool'[BoxOf[u]].prev[job[u].slot] = In!DEQUEUED
  BY <1>2 DEF ServerOK
<1>7. ServerOK(u)'
  BY <1>2, <1>5, <1>6, ServerKept
<1>8. QED
  BY <1>4, <1>7

LEMMA wait_in ==
  ASSUME TypeInv, InInv, NEW t \in Threads, rpc_fncall_wait(t) PROVE InInv'
<1> DEFINE b == BoxOf[t]
<1>1. PICK c \in cookies[b], j \in CallJobs : Waits(t, b, c, j)
  BY WaitSteps
<1> DEFINE k == c.slot
           o == out[b][k]
           m == [o EXCEPT !.wait = Cookie(INVALID_COUNTER, k)]
<1>2. /\ o.wait = c /\ Patches(b, k, m) /\ b \in Boxes /\ k \in OutSlots /\ job' = [job EXCEPT ![t] = j]
      /\ j.slot = k /\ j.arg = <<b, c.counter>>
  BY <1>1 DEF Waits
<1>3. UNCHANGED <<inpool, in, counter, ran>> /\ GoTo(t, "idle", "pend")
  BY DEF rpc_fncall_wait
<1>4. o \in OutType /\ c.counter \in 1 .. counter[b] /\ counter[b] \in Nat /\ k # NONE
  <2>1. out \in [Boxes -> [OutSlots -> OutType]]
    BY DEF TypeInv, TypeOK
  <2>2. o \in OutType
    BY <1>2, <2>1
  <2>3. k # NONE
    BY <1>2, NoneIsNoSlot
  <2>4. c.counter \in 1 .. counter[b] /\ counter[b] \in Nat
    BY <1>2, <2>3 DEF TypeInv, CookiesFit
  <2>5. QED
    BY <2>2, <2>3, <2>4
<1>5. MessageOK(b, k)
  BY <1>2, InParts
<1>6. o.state # "invalid" /\ o.arg = <<b, c.counter>>
  <2>1. o.state # "invalid"
    BY <1>2, <1>4, <1>5 DEF MessageOK
  <2>2. c \in {o.match, Cookie(INVALID_COUNTER, k)} /\ o.arg = <<b, o.match.counter>>
    BY <1>2, <1>5, <2>1 DEF MessageOK
  <2>3. c # Cookie(INVALID_COUNTER, k)
    BY <1>4 DEF Cookie, INVALID_COUNTER
  <2>4. QED
    BY <2>1, <2>2, <2>3
<1>7. /\ m.state = o.state /\ m.match = o.match /\ m.arg = o.arg /\ m.peer = o.peer /\ m.result = o.result
      /\ m.wait = Cookie(INVALID_COUNTER, k)
  <2> HIDE DEF o, k
  <2>1. QED
    BY <1>4 DEF OutType
<1> HIDE DEF m
<1>8. /\ out'[b][k] = m /\ \A d \in Boxes, l \in OutSlots : d # b \/ l # k => out'[d][l] = out[d][l]
  BY <1>2, Patched
<1> HIDE DEF b, k
<1>9. ASSUME NEW d \in Boxes, NEW l \in OutSlots
      PROVE  /\ out'[d][l].state = out[d][l].state /\ out'[d][l].match = out[d][l].match
             /\ out'[d][l].arg = out[d][l].arg /\ out'[d][l].peer = out[d][l].peer
             /\ out'[d][l].result = out[d][l].result
             /\ \/ out'[d][l].wait = out[d][l].wait
                \/ out'[d][l].wait = Cookie(INVALID_COUNTER, l) /\ out[d][l].state # "invalid"
  <2>1. CASE d # b \/ l # k
    BY <1>8, <2>1
  <2>2. CASE d = b /\ l = k
    BY <1>6, <1>7, <1>8, <2>2
  <2>3. QED
    BY <2>1, <2>2
<1>10. DataOK'
  BY <1>3, <1>9, PatchedData
<1>11. pc'[t] = "pend" /\ \A u \in Threads \ {t} : pc'[u] = pc[u]
  BY <1>3, OneGoes
<1>12. job'[t] = j /\ \A u \in Threads \ {t} : job'[u] = job[u]
  BY <1>2 DEF TypeInv, TypeOK
<1>13. \A u \in Threads \ {t} : CallerOK(u)' /\ ServerOK(u)'
  BY <1>3, <1>9, <1>11, <1>12, PatchedThreads
<1>14. CallerOK(t)'
  <2>1. BoxOf[t] = b /\ out'[b][k].state # "invalid" /\ out'[b][k].arg = j.arg /\ j.slot = k
    BY <1>2, <1>6, <1>7, <1>8 DEF b
  <2>2. QED
    BY <1>11, <1>12, <2>1 DEF CallerOK
<1>15. ServerOK(t)'
  BY <1>11 DEF ServerOK
<1>16. QED
  BY <1>10, <1>13, <1>14, <1>15 DEF InInv, DataOK

LEMMA result_in ==
  ASSUME TypeInv, OutInv, InInv, NEW t \in Threads, wait_for_rpc_result(t) PROVE InInv'
<1> DEFINE b == BoxOf[t]
           k == job[t].slot
           o == out[b][k]
           m == [o EXCEPT !.sem = 0]
<1>1. PICK j \in CallJobs : Gets(t, b, k, j)
  BY GetSteps
<1>2. /\ o.sem = 1 /\ Patches(b, k, m) /\ b \in Boxes /\ k \in OutSlots /\ job' = [job EXCEPT ![t] = j]
      /\ j.arg = job[t].arg /\ j.ret = o.result
  BY <1>1 DEF Gets
<1>3. UNCHANGED <<inpool, in, counter, ran>> /\ GoTo(t, "pend", "free") /\ pc[t] = "pend"
  BY DEF wait_for_rpc_result, GoTo
<1>4. o \in OutType
  BY <1>2 DEF TypeInv, TypeOK
<1>5. MessageOK(b, k) /\ SlotOK(b, k) /\ CallerOK(t)
  BY <1>2, InParts DEF OutInv
<1>6. o.state = "done"
  BY <1>2, <1>5 DEF SlotOK
<1>7. /\ o.result = o.arg /\ o.arg = <<b, o.match.counter>> /\ o.match.counter \in 1 .. counter[b]
      /\ ran[b][o.match.counter] > 0 /\ job[t].arg = o.arg
  BY <1>3, <1>5, <1>6 DEF MessageOK, CallerOK
<1>8. /\ m.state = o.state /\ m.match = o.match /\ m.arg = o.arg /\ m.peer = o.peer /\ m.result = o.result
      /\ m.wait = o.wait
  <2> HIDE DEF o, k
  <2>1. QED
    BY <1>4 DEF OutType
<1> HIDE DEF m
<1>9. /\ out'[b][k] = m /\ \A d \in Boxes, l \in OutSlots : d # b \/ l # k => out'[d][l] = out[d][l]
  BY <1>2, Patched
<1>10. counter[b] \in Nat
  BY <1>2 DEF TypeInv
<1> HIDE DEF b, k
<1>11. ASSUME NEW d \in Boxes, NEW l \in OutSlots
      PROVE  /\ out'[d][l].state = out[d][l].state /\ out'[d][l].match = out[d][l].match
             /\ out'[d][l].arg = out[d][l].arg /\ out'[d][l].peer = out[d][l].peer
             /\ out'[d][l].result = out[d][l].result
             /\ out'[d][l].wait = out[d][l].wait
  <2>1. CASE d # b \/ l # k
    BY <1>9, <2>1
  <2>2. CASE d = b /\ l = k
    BY <1>8, <1>9, <2>2
  <2>3. QED
    BY <2>1, <2>2
<1>12. DataOK'
  BY <1>3, <1>11, PatchedData
<1>13. pc'[t] = "free" /\ \A u \in Threads \ {t} : pc'[u] = pc[u]
  BY <1>3, OneGoes
<1>14. job'[t] = j /\ \A u \in Threads \ {t} : job'[u] = job[u]
  BY <1>2 DEF TypeInv, TypeOK
<1>15. \A u \in Threads \ {t} : CallerOK(u)' /\ ServerOK(u)'
  BY <1>3, <1>11, <1>13, <1>14, PatchedThreads
<1>16. CallerOK(t)'
  <2>1. PICK c : c = o.match.counter
    OBVIOUS
  <2>2. j.ret = j.arg /\ j.arg = <<b, c>> /\ c \in 1 .. counter'[b] /\ ran'[b][c] > 0 /\ b \in Boxes /\ c \in Nat
    BY <1>2, <1>3, <1>7, <1>10, <2>1
  <2>3. QED
    BY <1>13, <1>14, <2>2 DEF CallerOK
<1>17. ServerOK(t)'
  BY <1>13 DEF ServerOK
<1>18. QED
  BY <1>12, <1>15, <1>16, <1>17 DEF InInv, DataOK

LEMMA send_in ==
  ASSUME TypeInv, OutInv, InInv, NEW t \in Threads, send_outgoing_rpc(t) PROVE InInv'
<1> DEFINE b == BoxOf[t]
<1>1. PICK k \in OutSlots, m \in OutType, n \in Nat \ {0}, j \in CallJobs : Sends(t, b, k, m, n, j)
  BY SendSteps
<1>2. /\ b \in Boxes /\ n = counter[b] + 2 /\ outpool[b].free \in Seq(OutSlots) /\ outpool[b].free # <<>>
      /\ k = Head(outpool[b].free) /\ counter' = [counter EXCEPT ![b] = n]
      /\ m.wait = Cookie(n, k) /\ m.match = Cookie(n, k) /\ m.state = "ready" /\ m.arg = <<b, n>>
      /\ out' = [out EXCEPT ![b][k] = m] /\ j.slot = k /\ j.arg = <<b, n>> /\ job' = [job EXCEPT ![t] = j]
  BY <1>1 DEF Sends
<1>3. UNCHANGED <<inpool, in, ran>> /\ GoTo(t, "alloc", "send") /\ counter[b] < 2 * MaxCalls[b]
  BY DEF send_outgoing_rpc, MayCall
<1>4. k \in FreeOut(b)
  <2>1. k \in Range(outpool[b].free)
    BY <1>2, TailRange
  <2>2. QED
    BY <2>1, PoolRanges
<1>5. out[b][k].state \in {"invalid", "done"}
  <2>1. SlotOK(b, k)
    BY <1>2 DEF OutInv
  <2>2. QED
    BY <1>4, <2>1 DEF SlotOK
<1>6. /\ out'[b][k] = m
      /\ \A d \in Boxes, l \in OutSlots : d # b \/ l # k => out'[d][l] = out[d][l]
  <2>1. out \in [Boxes -> [OutSlots -> OutType]]
    BY DEF TypeInv, TypeOK
  <2> DEFINE O == [out EXCEPT ![b][k] = m]
  <2>2. O[b][k] = m /\ \A d \in Boxes, l \in OutSlots : d # b \/ l # k => O[d][l] = out[d][l]
    BY <1>2, <2>1, Rewritten
  <2>3. QED
    BY <1>2, <2>2
<1>7. /\ counter'[b] = n /\ counter[b] \in Nat /\ MaxCalls[b] \in Nat
      /\ \A d \in Boxes : d # b => counter'[d] = counter[d]
  BY <1>2, RpcAssumption DEF TypeInv
<1>8. PICK h \in 0 .. MaxCalls[b] : counter[b] = 2 * h
  BY <1>2, InParts DEF CounterOK
<1>9. n = 2 * (h + 1) /\ h + 1 \in 0 .. MaxCalls[b] /\ n \in 1 .. 2 * MaxCalls[b]
  BY <1>2, <1>3, <1>7, <1>8
<1>10. DOMAIN ran[b] = 1 .. 2 * MaxCalls[b]
  BY <1>2, CalleeTypes
<1>11. ran[b][n] = 0
  <2>1. n \in DOMAIN ran[b] /\ n > counter[b]
    BY <1>2, <1>7, <1>9, <1>10
  <2>2. QED
    BY <1>2, <2>1, InParts DEF CounterOK
<1> HIDE DEF b
<1>12. \A d : QueuesOf(d)' = QueuesOf(d) /\ Busy(d)' = Busy(d)
  BY <1>3 DEF QueuesOf, Busy
<1>13. \A d \in Boxes : PoolHolds(inpool[d], QueuesOf(d))'
  <2>1. ASSUME NEW d \in Boxes PROVE PoolHolds(inpool'[d], QueuesOf(d)')
    <3>1. PoolHolds(inpool[d], QueuesOf(d)) /\ inpool'[d] = inpool[d] /\ QueuesOf(d)' = QueuesOf(d)
      BY <1>3, <1>12, InParts
    <3>2. QED
      BY <3>1
  <2>2. QED
    BY <2>1
<1>14. ASSUME NEW d \in Boxes PROVE CounterOK(d)'
  <2>1. CounterOK(d)
    BY InParts
  <2>2. CASE d # b
    BY <1>3, <1>7, <2>1, <2>2 DEF CounterOK
  <2>3. CASE d = b
    <3>1. \E i \in 0 .. MaxCalls[b] : counter'[b] = 2 * i
      BY <1>7, <1>9
    <3>2. ASSUME NEW c \in DOMAIN ran[b] PROVE ran[b][c] <= 1 /\ (c > counter'[b] => ran[b][c] = 0)
      <4>1. c \in Int
        BY <1>10, <1>7
      <4>2. c > counter'[b] => c > counter[b]
        BY <1>2, <1>7, <4>1
      <4>3. QED
        BY <2>1, <2>3, <4>2 DEF CounterOK
    <3>3. QED
      BY <1>3, <2>3, <3>1, <3>2 DEF CounterOK
  <2>4. QED
    BY <2>2, <2>3
<1>15. ASSUME NEW d \in Boxes PROVE CallsDistinct(d)'
  <2>1. CallsDistinct(d)
    BY InParts
  <2>2. CASE d # b
    <3>1. \A l \in OutSlots : out'[d][l] = out[d][l]
      BY <1>6, <2>2
    <3>2. QED
      BY <2>1, <3>1 DEF CallsDistinct
  <2>3. CASE d = b
    <3>1. \A l \in OutSlots \ {k} : out'[b][l] = out[b][l]
      BY <1>6, <1>2
    <3>2. \A l \in OutSlots \ {k} : out[b][l].state # "invalid" => out[b][l].match.counter # n
      <4>1. \A l \in OutSlots : out[b][l].state # "invalid" => out[b][l].match.counter \in 1 .. counter[b]
        BY <1>2, InParts DEF MessageOK
      <4>2. n \notin 1 .. counter[b]
        BY <1>2, <1>7
      <4>3. QED
        BY <4>1, <4>2
    <3>3. out'[b][k].match.counter = n
      BY <1>2, <1>6 DEF Cookie
    <3>4. QED
      BY <2>1, <2>3, <3>1, <3>2, <3>3 DEF CallsDistinct
  <2>4. QED
    BY <2>2, <2>3
<1>16. \A d \in Boxes : CopiesDistinct(d)'
  BY <1>3, <1>12, InParts DEF CopiesDistinct
<1>17. ASSUME NEW d \in Boxes, NEW l \in OutSlots PROVE MessageOK(d, l)' /\ HasCopy(d, l)'
  <2>1. MessageOK(d, l) /\ HasCopy(d, l)
    BY InParts
  <2>2. CASE d # b \/ l # k
    <3>1. out'[d][l] = out[d][l] /\ 1 .. counter[d] \subseteq 1 .. counter'[d]
      <4>1. counter[d] \in Nat /\ counter'[d] >= counter[d] /\ counter'[d] \in Nat
        BY <1>2, <1>7 DEF TypeInv
      <4>2. QED
        BY <1>6, <2>2, <4>1
    <3>2. MessageOK(d, l)'
      BY <1>3, <2>1, <3>1 DEF MessageOK
    <3>3. HasCopy(d, l)'
      BY <1>3, <1>12, <2>1, <3>1 DEF HasCopy
    <3>4. QED
      BY <3>2, <3>3
  <2>3. CASE d = b /\ l = k
    <3>1. m.match.slot = k /\ m.match.counter = n /\ n \in 1 .. counter'[b]
      BY <1>2, <1>7 DEF Cookie
    <3>2. MessageOK(b, k)'
      BY <1>2, <1>3, <1>6, <1>11, <3>1 DEF MessageOK
    <3>3. HasCopy(b, k)'
      BY <1>2, <1>6 DEF HasCopy
    <3>4. QED
      BY <2>3, <3>2, <3>3
  <2>4. QED
    BY <2>2, <2>3
<1>18. ASSUME NEW d \in Boxes, NEW s \in Busy(d)' PROVE CopyOK(d, s)'
  <2>1. CopyOK(d, s)
    BY <1>12, InParts
  <2> DEFINE p == in[d][s].peer
             l == in[d][s].match.slot
  <2>2. p \in Boxes /\ l \in OutSlots /\ out[p][l].state = "sent"
    BY <2>1 DEF CopyOK, Origin
  <2>3. out'[p][l] = out[p][l]
    BY <1>5, <1>6, <2>2
  <2>4. QED
    BY <1>3, <2>1, <2>3 DEF CopyOK, Origin
<1>19. DataOK'
  BY <1>13, <1>14, <1>15, <1>16, <1>17, <1>18 DEF DataOK
<1>20. pc'[t] = "send" /\ \A u \in Threads \ {t} : pc'[u] = pc[u]
  BY <1>3, OneGoes
<1>21. job'[t] = j /\ \A u \in Threads \ {t} : job'[u] = job[u]
  BY <1>2 DEF TypeInv, TypeOK
<1>22. ASSUME NEW u \in Threads \ {t} PROVE CallerOK(u)' /\ ServerOK(u)'
  <2>1. CallerOK(u) /\ ServerOK(u) /\ BoxOf[u] \in Boxes /\ UserOK(u)
    BY InParts, RpcAssumption DEF OutInv
  <2>2. pc[u] \in {"send", "pend"} =>
          out'[BoxOf[u]][job[u].slot] = out[BoxOf[u]][job[u].slot]
    <3>1. pc[u] \in {"send", "pend"} => job[u].slot \in OutSlots /\ job[u].slot \notin FreeOut(BoxOf[u])
      BY <2>1 DEF TypeInv, JobsFit, UserOK, Uses
    <3>2. QED
      BY <1>4, <1>6, <2>1, <3>1
  <2>3. \A d \in Boxes : 1 .. counter[d] \subseteq 1 .. counter'[d]
    <3>1. ASSUME NEW d \in Boxes PROVE counter[d] \in Nat /\ counter'[d] >= counter[d] /\ counter'[d] \in Nat
      BY <1>2, <1>7 DEF TypeInv
    <3>2. QED
      BY <3>1
  <2>4. CallerOK(u)'
    BY <1>3, <1>20, <1>21, <2>1, <2>2, <2>3, CallerKept
  <2>5. pc[u] = "take" => job[u].slot \in QueuesOf(BoxOf[u])'["todo"]
    BY <1>12, <2>1 DEF ServerOK
  <2>6. pc[u] \in {"run", "done"} => inpool'[BoxOf[u]].prev[job[u].slot] = In!DEQUEUED
    BY <1>3, <2>1 DEF ServerOK
  <2>7. ServerOK(u)'
    BY <1>3, <1>20, <1>21, <2>1, <2>5, <2>6, ServerKept
  <2>8. QED
    BY <2>4, <2>7
<1>23. CallerOK(t)'
  <2>1. BoxOf[t] = b
    BY DEF b
  <2>2. out'[BoxOf[t]][job'[t].slot] = m /\ job'[t].arg = m.arg /\ m.state # "invalid"
    BY <1>2, <1>6, <1>21, <2>1
  <2>3. QED
    BY <1>20, <2>2 DEF CallerOK
<1>24. ServerOK(t)'
  BY <1>20 DEF ServerOK
<1>25. QED
  BY <1>19, <1>22, <1>23, <1>24 DEF InInv, DataOK

----------------------------------------------------------------------------
\* Steps that move one slot of an incoming pool.

LEMMA MarksJoin ==
  ASSUME NEW m, NEW n, NEW o, NEW s, MarksKept(m, n, s), MarksKept(n, o, s) PROVE MarksKept(m, o, s)
  BY DEF MarksKept

\* The slots that stay keep their queue.
LEMMA StaysQueued ==
  ASSUME NEW m, NEW n, NEW x, NEW y, NEW s \in In!Slots, MarksKept(m, n, s),
         \A r \in In!Slots \ {s} : y[r] = x[r]
  PROVE  \A q \in QueueNames : QueuesIn(n, y)[q] \ {s} = QueuesIn(m, x)[q] \ {s}
  BY DEF QueuesIn, Queued, MarksKept

LEMMA LeavesQueue ==
  ASSUME NEW m, NEW n, NEW x, NEW y, NEW s \in In!Slots, MarksKept(m, n, s),
         \A r \in In!Slots \ {s} : y[r] = x[r],
         NEW q \in QueueNames, n.prev[s] \in {In!FREE, In!DEQUEUED}, s \in QueuesIn(m, x)[q]
  PROVE  QueuesIn(n, y) = [QueuesIn(m, x) EXCEPT ![q] = @ \ {s}]
<1> DEFINE A == QueuesIn(m, x)
           B == QueuesIn(n, y)
<1>1. \A p \in QueueNames : B[p] \ {s} = A[p] \ {s}
  BY StaysQueued
<1>2. \A p \in QueueNames : s \notin B[p]
  BY DEF QueuesIn, Queued
<1>3. \A p \in QueueNames \ {q} : s \notin A[p]
  BY DEF QueuesIn, QueueNames, StateOf
<1>4. A = [p \in QueueNames |-> A[p]] /\ B = [p \in QueueNames |-> B[p]]
  BY DEF QueuesIn
<1> HIDE DEF A, B
<1>5. /\ B[q] = A[q] \ {s} /\ \A p \in QueueNames \ {q} : B[p] = A[p]
  <2>1. \A p \in QueueNames : B[p] = A[p] \ {s}
    BY <1>1, <1>2
  <2>2. \A p \in QueueNames \ {q} : A[p] \ {s} = A[p]
    BY <1>3
  <2>3. QED
    BY <2>1, <2>2
<1>6. B = [A EXCEPT ![q] = @ \ {s}]
  BY <1>4, <1>5
<1>7. QED
  BY <1>6 DEF A, B

LEMMA JoinsQueue ==
  ASSUME NEW m, NEW n, NEW x, NEW y, NEW s \in In!Slots, MarksKept(m, n, s),
         \A r \in In!Slots \ {s} : y[r] = x[r],
         NEW q \in QueueNames, m.prev[s] \in {In!FREE, In!DEQUEUED}, n.prev[s] \notin {In!FREE, In!DEQUEUED},
         y[s].state = StateOf(q)
  PROVE  QueuesIn(n, y) = [QueuesIn(m, x) EXCEPT ![q] = @ \cup {s}]
<1> DEFINE A == QueuesIn(m, x)
           B == QueuesIn(n, y)
<1>1. \A p \in QueueNames : B[p] \ {s} = A[p] \ {s}
  BY StaysQueued
<1>2. \A p \in QueueNames : s \notin A[p]
  BY DEF QueuesIn, Queued
<1>3. s \in B[q] /\ \A p \in QueueNames \ {q} : s \notin B[p]
  BY DEF QueuesIn, Queued, QueueNames, StateOf
<1>4. A = [p \in QueueNames |-> A[p]] /\ B = [p \in QueueNames |-> B[p]]
  BY DEF QueuesIn
<1> HIDE DEF A, B
<1>5. /\ B[q] = A[q] \cup {s} /\ \A p \in QueueNames \ {q} : B[p] = A[p]
  <2>1. \A p \in QueueNames : B[p] \ {s} = A[p]
    BY <1>1, <1>2
  <2>2. \A p \in QueueNames \ {q} : B[p] \ {s} = B[p]
    BY <1>3
  <2>3. B[q] = (B[q] \ {s}) \cup {s}
    BY <1>3
  <2>4. QED
    BY <2>1, <2>2, <2>3
<1>6. B = [A EXCEPT ![q] = @ \cup {s}]
  BY <1>4, <1>5
<1>7. QED
  BY <1>6 DEF A, B

LEMMA KeepsQueues ==
  ASSUME NEW m, NEW n, NEW x, NEW y, NEW s \in In!Slots, MarksKept(m, n, s),
         \A r \in In!Slots \ {s} : y[r] = x[r],
         m.prev[s] \in {In!FREE, In!DEQUEUED}, n.prev[s] \in {In!FREE, In!DEQUEUED}
  PROVE  QueuesIn(n, y) = QueuesIn(m, x)
<1> DEFINE A == QueuesIn(m, x)
           B == QueuesIn(n, y)
<1>1. \A p \in QueueNames : B[p] \ {s} = A[p] \ {s}
  BY StaysQueued
<1>2. \A p \in QueueNames : s \notin A[p] /\ s \notin B[p]
  BY DEF QueuesIn, Queued
<1>3. A = [p \in QueueNames |-> A[p]] /\ B = [p \in QueueNames |-> B[p]]
  BY DEF QueuesIn
<1> HIDE DEF A, B
<1>4. A = B
  BY <1>1, <1>2, <1>3
<1>5. QED
  BY <1>4 DEF A, B

\* A queue of the pool and its slots.
LEMMA InQueue ==
  ASSUME NEW b, NEW q \in QueueNames, NEW s
  PROVE  s \in QueuesOf(b)[q] <=>
           /\ s \in In!Slots /\ inpool[b].prev[s] # In!FREE /\ inpool[b].prev[s] # In!DEQUEUED
           /\ in[b][s].state = StateOf(q)
  BY DEF QueuesOf, QueuesIn, Queued

\* The pool of box b becomes n; slot s is busy before and after.
LEMMA PoolStepData ==
  ASSUME TypeInv, InInv, UNCHANGED <<out, in, counter, ran>>, NEW b \in Boxes, NEW n, inpool' = [inpool EXCEPT ![b] = n],
         NEW s \in In!Slots, MarksKept(inpool[b], n, s), inpool[b].prev[s] # In!FREE, n.prev[s] # In!FREE,
         PoolHolds(n, QueuesIn(n, in[b]))
  PROVE  DataOK'
<1>1. inpool'[b] = n /\ \A d \in Boxes \ {b} : inpool'[d] = inpool[d]
  BY CalleeTypes
<1>2. \A d \in Boxes : Busy(d)' = Busy(d)
  <2>1. Busy(b)' = Busy(b)
    BY <1>1 DEF Busy, MarksKept
  <2>2. \A d \in Boxes \ {b} : Busy(d)' = Busy(d)
    BY <1>1 DEF Busy
  <2>3. QED
    BY <2>1, <2>2
<1>3. ASSUME NEW d \in Boxes PROVE PoolHolds(inpool'[d], QueuesOf(d)')
  <2>1. QueuesOf(d)' = QueuesIn(inpool'[d], in[d])
    BY DEF QueuesOf
  <2>2. CASE d = b
    BY <1>1, <2>1, <2>2
  <2>3. CASE d # b
    <3>1. PoolHolds(inpool[d], QueuesIn(inpool[d], in[d])) /\ inpool'[d] = inpool[d]
      BY <1>1, <2>3, InParts DEF QueuesOf
    <3>2. QED
      BY <2>1, <3>1
  <2>4. QED
    BY <2>2, <2>3
<1>4. \A d \in Boxes : CounterOK(d)' /\ CallsDistinct(d)' /\ CopiesDistinct(d)'
  BY <1>2, InParts DEF CounterOK, CallsDistinct, CopiesDistinct
<1>5. \A d \in Boxes : \A k \in OutSlots : MessageOK(d, k)' /\ HasCopy(d, k)'
  BY <1>2, InParts DEF MessageOK, HasCopy
<1>6. ASSUME NEW d \in Boxes, NEW r \in Busy(d)' PROVE CopyOK(d, r)'
  <2>1. CopyOK(d, r)
    BY <1>2, InParts
  <2>2. QED
    BY <2>1 DEF CopyOK, Origin
<1>7. QED
  BY <1>3, <1>4, <1>5, <1>6 DEF DataOK

\* The slots of two servers differ.
LEMMA ServersApart ==
  ASSUME SeparateServers, TypeInv, InInv, NEW t \in Threads, NEW u \in Threads \ {t}, BoxOf[t] = BoxOf[u],
         pc[t] \in {"take", "run", "done"}, pc[u] \in {"take", "run", "done"}
  PROVE  job[t].slot # job[u].slot
<1>1. /\ job[t].fns \in Serves[t] /\ in[BoxOf[t]][job[t].slot].gateway.fn \in job[t].fns
      /\ job[u].fns \in Serves[u] /\ in[BoxOf[u]][job[u].slot].gateway.fn \in job[u].fns
  BY InParts DEF ServerOK
<1>2. (UNION Serves[t]) \cap (UNION Serves[u]) = {}
  BY DEF SeparateServers
<1>3. QED
  BY <1>1, <1>2

\* The other threads, when slot s of box b moves, which none of them uses.
LEMMA PoolStepThreads ==
  ASSUME TypeInv, InInv, UNCHANGED <<out, in, counter, ran>>, NEW b \in Boxes, NEW n, inpool' = [inpool EXCEPT ![b] = n],
         NEW s \in In!Slots, MarksKept(inpool[b], n, s), NEW u \in Threads, pc'[u] = pc[u], job'[u] = job[u],
         BoxOf[u] = b /\ pc[u] \in {"take", "run", "done"} => job[u].slot # s
  PROVE  CallerOK(u)' /\ ServerOK(u)'
<1>1. inpool'[b] = n /\ \A d \in Boxes \ {b} : inpool'[d] = inpool[d]
  BY CalleeTypes
<1>2. CallerOK(u) /\ ServerOK(u) /\ BoxOf[u] \in Boxes
  BY InParts, RpcAssumption
<1>3. CallerOK(u)'
  BY <1>2, CallerKept
<1>4. pc[u] \in {"take", "run", "done"} => job[u].slot \in In!Slots
  BY DEF TypeInv, JobsFit
<1>5. pc[u] = "take" => job[u].slot \in QueuesOf(BoxOf[u])'["todo"]
  <2> SUFFICES ASSUME pc[u] = "take" PROVE job[u].slot \in QueuesOf(BoxOf[u])'["todo"]
    OBVIOUS
  <2>1. QueuesOf(BoxOf[u])' = QueuesIn(inpool'[BoxOf[u]], in[BoxOf[u]]) /\ "todo" \in QueueNames
    BY DEF QueuesOf, QueueNames
  <2>2. job[u].slot \in QueuesIn(inpool[BoxOf[u]], in[BoxOf[u]])["todo"]
    BY <1>2 DEF ServerOK, QueuesOf
  <2>3. CASE BoxOf[u] # b
    BY <1>1, <1>2, <2>1, <2>2, <2>3
  <2>4. CASE BoxOf[u] = b
    <3>1. QueuesIn(n, in[b])["todo"] \ {s} = QueuesIn(inpool[b], in[b])["todo"] \ {s}
      BY <2>1, StaysQueued
    <3>2. QED
      BY <1>1, <2>1, <2>2, <2>4, <3>1
  <2>5. QED
    BY <2>3, <2>4
<1>6. pc[u] \in {"run", "done"} => inpool'[BoxOf[u]].prev[job[u].slot] = In!DEQUEUED
  <2> SUFFICES ASSUME pc[u] \in {"run", "done"} PROVE inpool'[BoxOf[u]].prev[job[u].slot] = In!DEQUEUED
    OBVIOUS
  <2>1. inpool[BoxOf[u]].prev[job[u].slot] = In!DEQUEUED
    BY <1>2 DEF ServerOK
  <2>2. CASE BoxOf[u] # b
    BY <1>1, <1>2, <2>1, <2>2
  <2>3. CASE BoxOf[u] = b
    BY <1>1, <1>4, <2>1, <2>3 DEF MarksKept
  <2>4. QED
    BY <2>2, <2>3
<1>7. ServerOK(u)'
  BY <1>2, <1>5, <1>6, ServerKept
<1>8. QED
  BY <1>3, <1>7

LEMMA dequeue_in ==
  ASSUME SeparateServers, TypeInv, InInv, NEW t \in Threads, dequeue_incoming(t) PROVE InInv'
<1> DEFINE b == BoxOf[t]
           s == job[t].slot
<1>1. /\ UNCHANGED <<out, in, counter, ran>> /\ pc[t] = "take" /\ b \in Boxes
  BY RpcAssumption DEF dequeue_incoming
<1>2. PICK n : n = In!dequeue(inpool[b], "todo", s)
  OBVIOUS
<1>3. s \in QueuesOf(b)["todo"] /\ "todo" \in QueueNames /\ ServerOK(t)
  BY <1>1, InParts DEF ServerOK, QueueNames
<1>4. s \in In!Slots /\ inpool[b].prev[s] # In!FREE /\ inpool[b].prev[s] # In!DEQUEUED /\ in[b][s].state = "sent"
  BY <1>3, InQueue DEF StateOf
<1>5. PoolHolds(inpool[b], QueuesOf(b))
  BY <1>1, InParts
<1>6. inpool[b].head["todo"] # In!INVALID
  <2>1. PICK rank \in [In!Slots -> Nat] : \A q \in QueueNames : QueueOf(inpool[b], q, QueuesOf(b)[q], rank)
    BY <1>5 DEF PoolHolds
  <2>2. QueueOf(inpool[b], "todo", QueuesOf(b)["todo"], rank)
    BY <1>3, <2>1
  <2>3. QED
    BY <1>3, <2>2 DEF QueueOf
<1>7. inpool' = [inpool EXCEPT ![b] = n] /\ GoTo(t, "take", "run") /\ UNCHANGED job
  <2> DEFINE r == In!dequeue_body(inpool[b], "todo", s)
  <2>1. r.mem = n /\ r.ret = s
    BY <1>2, <1>4, <1>6 DEF In!dequeue_body, In!Result
  <2>2. inpool' = [inpool EXCEPT ![b] = r.mem] /\ (r.ret \in In!Slots => GoTo(t, "take", "run") /\ UNCHANGED job)
    BY DEF dequeue_incoming
  <2> HIDE DEF r
  <2>3. QED
    BY <1>4, <2>1, <2>2
<1> HIDE DEF b, s
<1>8. /\ PoolHolds(n, [QueuesOf(b) EXCEPT !["todo"] = @ \ {s}]) /\ MarksKept(inpool[b], n, s)
      /\ n.prev[s] = In!DEQUEUED
  BY <1>2, <1>3, <1>5, DequeueIn
<1>9. QueuesIn(n, in[b]) = [QueuesOf(b) EXCEPT !["todo"] = @ \ {s}]
  <2>1. QueuesOf(b) = QueuesIn(inpool[b], in[b])
    BY DEF QueuesOf
  <2>2. s \in QueuesIn(inpool[b], in[b])["todo"] /\ n.prev[s] \in {In!FREE, In!DEQUEUED}
    BY <1>3, <1>8, <2>1
  <2>3. QueuesIn(n, in[b]) = [QueuesIn(inpool[b], in[b]) EXCEPT !["todo"] = @ \ {s}]
    BY <1>3, <1>4, <1>8, <2>2, LeavesQueue
  <2>4. QED
    BY <2>1, <2>3
<1>10. PoolHolds(n, QueuesIn(n, in[b]))
  BY <1>8, <1>9
<1>11. n.prev[s] # In!FREE
  BY <1>8, MarkBytes
<1>12. DataOK'
  BY <1>1, <1>4, <1>7, <1>8, <1>10, <1>11, PoolStepData
<1>13. pc'[t] = "run" /\ job'[t] = job[t] /\ \A u \in Threads \ {t} : pc'[u] = pc[u] /\ job'[u] = job[u]
  BY <1>7, OneGoes
<1>14. ASSUME NEW u \in Threads \ {t} PROVE CallerOK(u)' /\ ServerOK(u)'
  <2>1. BoxOf[u] = b /\ pc[u] \in {"take", "run", "done"} => job[u].slot # s
    BY <1>1, ServersApart DEF b, s
  <2>2. QED
    BY <1>1, <1>4, <1>7, <1>8, <1>13, <2>1, PoolStepThreads
<1>15. CallerOK(t)'
  BY <1>13 DEF CallerOK
<1>16. ServerOK(t)'
  <2>1. inpool'[b] = n /\ BoxOf[t] = b /\ job[t].slot = s
    BY <1>1, <1>7, CalleeTypes DEF b, s
  <2>2. job[t].fns \in Serves[t] /\ in[b][s].gateway.fn \in job[t].fns
    BY <1>1, <1>3, <2>1 DEF ServerOK
  <2>3. QED
    BY <1>1, <1>4, <1>8, <1>13, <2>1, <2>2 DEF ServerOK
<1>17. QED
  BY <1>12, <1>14, <1>15, <1>16 DEF InInv, DataOK

LEMMA done_in ==
  ASSUME SeparateServers, TypeInv, InInv, NEW t \in Threads, enqueue_done(t) PROVE InInv'
<1> DEFINE b == BoxOf[t]
           s == job[t].slot
<1>1. /\ UNCHANGED <<out, in, counter, ran>> /\ pc[t] = "done" /\ b \in Boxes /\ GoTo(t, "done", "idle")
      /\ job' = [job EXCEPT ![t] = NoJob]
  BY RpcAssumption DEF enqueue_done, GoTo
<1>2. PICK n : n = In!enqueue(inpool[b], "done", s)
  OBVIOUS
<1>3. inpool' = [inpool EXCEPT ![b] = n]
  BY <1>2 DEF enqueue_done
<1>4. inpool[b].prev[s] = In!DEQUEUED /\ in[b][s].state = "done" /\ s \in In!Slots
  BY <1>1, InParts DEF ServerOK, TypeInv, JobsFit
<1>5. PoolHolds(inpool[b], QueuesOf(b)) /\ "done" \in QueueNames
  BY <1>1, InParts DEF QueueNames
<1> HIDE DEF b, s
<1>6. /\ PoolHolds(n, [QueuesOf(b) EXCEPT !["done"] = @ \cup {s}]) /\ MarksKept(inpool[b], n, s)
      /\ n.prev[s] # In!FREE /\ n.prev[s] # In!DEQUEUED
  BY <1>2, <1>4, <1>5, EnqueueIn
<1>7. QueuesIn(n, in[b]) = [QueuesOf(b) EXCEPT !["done"] = @ \cup {s}]
  <2>1. QueuesOf(b) = QueuesIn(inpool[b], in[b])
    BY DEF QueuesOf
  <2>2. in[b][s].state = StateOf("done") /\ inpool[b].prev[s] \in {In!FREE, In!DEQUEUED} /\ n.prev[s] \notin {In!FREE, In!DEQUEUED}
    BY <1>4, <1>6 DEF StateOf
  <2>3. PICK x, y, q : x = in[b] /\ y = inpool[b] /\ q = "done"
    OBVIOUS
  <2>4. QueuesIn(n, x) = [QueuesIn(y, x) EXCEPT ![q] = @ \cup {s}]
    <3>1. /\ x[s].state = StateOf(q) /\ y.prev[s] \in {In!FREE, In!DEQUEUED} /\ n.prev[s] \notin {In!FREE, In!DEQUEUED}
          /\ MarksKept(y, n, s) /\ q \in QueueNames /\ s \in In!Slots
      BY <1>4, <1>5, <1>6, <2>2, <2>3
    <3>2. QED
      BY <3>1, JoinsQueue
  <2>5. QED
    BY <2>1, <2>3, <2>4
<1>8. PoolHolds(n, QueuesIn(n, in[b])) /\ inpool[b].prev[s] # In!FREE
  BY <1>4, <1>6, <1>7, MarkBytes
<1>9. DataOK'
  BY <1>1, <1>3, <1>4, <1>6, <1>8, PoolStepData
<1>10. pc'[t] = "idle" /\ \A u \in Threads \ {t} : pc'[u] = pc[u] /\ job'[u] = job[u]
  BY <1>1, OneGoes, OneJob
<1>11. ASSUME NEW u \in Threads \ {t} PROVE CallerOK(u)' /\ ServerOK(u)'
  <2>1. BoxOf[u] = b /\ pc[u] \in {"take", "run", "done"} => job[u].slot # s
    BY <1>1, ServersApart DEF b, s
  <2>2. QED
    BY <1>1, <1>3, <1>4, <1>6, <1>10, <2>1, PoolStepThreads
<1>12. CallerOK(t)' /\ ServerOK(t)'
  BY <1>10, NoUse
<1>13. QED
  BY <1>9, <1>11, <1>12 DEF InInv, DataOK

LEMMA dispatch_in ==
  ASSUME SeparateServers, TypeInv, InInv, NEW t \in Threads, dispatch(t) PROVE InInv'
<1> DEFINE b == BoxOf[t]
           s == job[t].slot
           m == in[b][s]
           p == m.peer
           c == m.match.counter
           k == m.match.slot
           x == [m EXCEPT !.result = m.arg, !.state = "done"]
<1>1. /\ UNCHANGED <<out, inpool, counter, job>> /\ pc[t] = "run" /\ b \in Boxes /\ GoTo(t, "run", "done")
      /\ in' = [in EXCEPT ![b][s] = x] /\ ran' = [ran EXCEPT ![m.arg[1]][m.arg[2]] = @ + 1]
  BY RpcAssumption DEF dispatch, GoTo
<1>2. inpool[b].prev[s] = In!DEQUEUED /\ m.state = "sent" /\ s \in In!Slots /\ ServerOK(t)
  BY <1>1, InParts DEF ServerOK, TypeInv, JobsFit
<1>3. s \in Busy(b) /\ m \in InType
  <2>1. s \in Busy(b)
    BY <1>2, MarkBytes DEF Busy
  <2>2. in \in [Boxes -> [In!Slots -> InType]]
    BY CalleeTypes
  <2>3. QED
    BY <1>1, <1>2, <2>1, <2>2
<1>4. CopyOK(b, s)
  BY <1>1, <1>3, InParts
<1>5. /\ p \in Boxes /\ k \in OutSlots /\ out[p][k].state = "sent" /\ out[p][k].arg = m.arg
      /\ out[p][k].match = m.match /\ out[p][k].peer = b /\ ran[p][c] = 0 /\ p = m.arg[1]
  BY <1>2, <1>4 DEF CopyOK, Origin
<1>6. m.arg = <<p, c>> /\ c \in 1 .. counter[p]
  <2>1. MessageOK(p, k)
    BY <1>5, InParts
  <2>2. QED
    BY <1>5, <2>1 DEF MessageOK
<1>7. ran' = [ran EXCEPT ![p][c] = @ + 1]
  <2> HIDE DEF p, c, m
  <2>1. m.arg[1] = p /\ m.arg[2] = c
    BY <1>6
  <2>2. QED
    BY <1>1, <2>1
<1>8. /\ x.result = m.arg /\ x.state = "done" /\ x.arg = m.arg /\ x.peer = m.peer /\ x.match = m.match
      /\ x.gateway = m.gateway
  <2> HIDE DEF m
  <2>1. QED
    BY <1>3 DEF InType
<1> HIDE DEF x
<1>9. in'[b][s] = x /\ \A d \in Boxes, r \in In!Slots : d # b \/ r # s => in'[d][r] = in[d][r]
  <2> HIDE DEF b, s
  <2>1. in \in [Boxes -> [In!Slots -> InType]]
    BY CalleeTypes
  <2>2. QED
    BY <1>1, <1>2, <2>1
<1> HIDE DEF b, s, m
<1>10. c \in 1 .. 2 * MaxCalls[p] /\ c \in Nat
  <2>1. PICK h \in 0 .. MaxCalls[p] : counter[p] = 2 * h
    BY <1>5, InParts DEF CounterOK
  <2>2. MaxCalls[p] \in Nat
    BY <1>5, RpcAssumption
  <2>3. QED
    BY <1>6, <2>1, <2>2
<1> HIDE DEF p, c, k
<1>11. /\ ran'[p][c] = 1
       /\ \A d \in Boxes : DOMAIN ran'[d] = DOMAIN ran[d]
       /\ \A d \in Boxes : \A e \in DOMAIN ran[d] : d # p \/ e # c => ran'[d][e] = ran[d][e]
  <2>1. DOMAIN ran = Boxes /\ (\A d \in Boxes : ran[d] \in [1 .. 2 * MaxCalls[d] -> Nat])
    BY CalleeTypes
  <2>2. ran' = [ran EXCEPT ![p] = [ran[p] EXCEPT ![c] = ran[p][c] + 1]]
    BY <1>7
  <2>3. ran'[p] = [ran[p] EXCEPT ![c] = ran[p][c] + 1] /\ \A d \in Boxes \ {p} : ran'[d] = ran[d]
    BY <1>5, <2>1, <2>2
  <2>4. ran'[p][c] = 0 + 1
    BY <1>5, <1>10, <2>1, <2>3
  <2>5. QED
    BY <1>5, <2>1, <2>3, <2>4
<1>12. \A d \in Boxes : Busy(d)' = Busy(d)
  BY <1>1 DEF Busy
<1>13. ASSUME NEW d \in Boxes PROVE QueuesOf(d)' = QueuesOf(d)
  <2>1. QueuesOf(d)' = QueuesIn(inpool[d], in'[d]) /\ QueuesOf(d) = QueuesIn(inpool[d], in[d])
    BY <1>1 DEF QueuesOf
  <2>2. MarksKept(inpool[d], inpool[d], s)
    BY DEF MarksKept
  <2>3. CASE d = b
    <3>1. \A r \in In!Slots \ {s} : in'[d][r] = in[d][r]
      BY <1>9, <2>3
    <3>2. inpool[d].prev[s] \in {In!FREE, In!DEQUEUED}
      BY <1>2, <2>3
    <3>3. QueuesIn(inpool[d], in'[d]) = QueuesIn(inpool[d], in[d])
      BY <1>2, <2>2, <3>1, <3>2, KeepsQueues
    <3>4. QED
      BY <2>1, <3>3
  <2>4. CASE d # b
    <3>1. \A r \in In!Slots : in'[d][r] = in[d][r]
      BY <1>9, <2>4
    <3>2. QED
      BY <2>1, <3>1 DEF QueuesIn, Queued
  <2>5. QED
    BY <2>3, <2>4
<1>14. ASSUME NEW d \in Boxes PROVE PoolHolds(inpool'[d], QueuesOf(d)')
  <2>1. PoolHolds(inpool[d], QueuesOf(d)) /\ inpool'[d] = inpool[d] /\ QueuesOf(d)' = QueuesOf(d)
    BY <1>1, <1>13, InParts
  <2>2. QED
    BY <2>1
<1>15. \A d \in Boxes : CallsDistinct(d)'
  BY <1>1, InParts DEF CallsDistinct
<1>16. ASSUME NEW d \in Boxes PROVE CounterOK(d)'
  <2>1. CounterOK(d) /\ counter'[d] = counter[d] /\ DOMAIN ran'[d] = DOMAIN ran[d]
    BY <1>1, <1>11, InParts
  <2>2. ASSUME NEW e \in DOMAIN ran[d] PROVE ran'[d][e] <= 1 /\ (e > counter[d] => ran'[d][e] = 0)
    <3>1. CASE d = p /\ e = c
      <4>1. ~(e > counter[d])
        <5>1. counter[p] \in Nat
          BY <1>5 DEF TypeInv
        <5>2. QED
          BY <1>6, <3>1, <5>1
      <4>2. QED
        BY <1>11, <3>1, <4>1
    <3>2. CASE d # p \/ e # c
      BY <1>11, <2>1, <3>2 DEF CounterOK
    <3>3. QED
      BY <3>1, <3>2
  <2>3. QED
    BY <2>1, <2>2 DEF CounterOK
<1>17. ASSUME NEW d \in Boxes, NEW r \in In!Slots
       PROVE  /\ in'[d][r].arg = in[d][r].arg /\ in'[d][r].peer = in[d][r].peer
              /\ in'[d][r].match = in[d][r].match /\ in'[d][r].gateway = in[d][r].gateway
  <2>1. CASE d # b \/ r # s
    BY <1>9, <2>1
  <2>2. CASE d = b /\ r = s
    BY <1>8, <1>9, <2>2 DEF m
  <2>3. QED
    BY <2>1, <2>2
<1>18. \A d \in Boxes : \A r \in Busy(d) : r \in In!Slots
  BY DEF Busy
<1>19. \A d \in Boxes : CopiesDistinct(d)'
  BY <1>12, <1>17, <1>18, InParts DEF CopiesDistinct
<1>20. ASSUME NEW d \in Boxes, NEW e \in 1 .. counter[d] PROVE e \in DOMAIN ran[d]
  <2>1. PICK h \in 0 .. MaxCalls[d] : counter[d] = 2 * h
    BY InParts DEF CounterOK
  <2>2. MaxCalls[d] \in Nat /\ DOMAIN ran[d] = 1 .. 2 * MaxCalls[d]
    BY RpcAssumption, CalleeTypes
  <2>3. QED
    BY <2>1, <2>2
<1>21. ASSUME NEW d \in Boxes, NEW l \in OutSlots PROVE MessageOK(d, l)' /\ HasCopy(d, l)'
  <2>1. MessageOK(d, l) /\ HasCopy(d, l)
    BY InParts
  <2>2. HasCopy(d, l)'
    BY <1>1, <1>12, <1>17, <1>18, <2>1 DEF HasCopy
  <2> DEFINE o == out[d][l]
             e == o.match.counter
  <2>3. CASE o.state = "invalid"
    BY <1>1, <2>1, <2>2, <2>3 DEF MessageOK
  <2>4. CASE o.state # "invalid"
    <3>1. e \in 1 .. counter[d] /\ e \in DOMAIN ran[d] /\ o.arg = <<d, e>>
      BY <1>20, <2>1, <2>4 DEF MessageOK
    <3>2. /\ o.state = "ready" => ran'[d][e] = 0
          /\ o.state = "done" => ran'[d][e] > 0
      <4>1. CASE d # p \/ e # c
        BY <1>11, <2>1, <2>4, <3>1, <4>1 DEF MessageOK
      <4>2. CASE d = p /\ e = c
        <5>1. o.arg = in[b][s].arg
          BY <1>6, <3>1, <4>2 DEF m
        <5>2. d = in[b][s].peer /\ l = in[b][s].match.slot
          BY <1>1, <1>3, <2>4, <5>1, SameCall
        <5>3. o.state = "sent"
          BY <1>5, <5>2 DEF p, k, m
        <5>4. QED
          BY <5>3
      <4>3. QED
        BY <4>1, <4>2
    <3>3. MessageOK(d, l)'
      BY <1>1, <2>1, <2>4, <3>2 DEF MessageOK
    <3>4. QED
      BY <2>2, <3>3
  <2>5. QED
    BY <2>3, <2>4
<1>22. ASSUME NEW d \in Boxes, NEW r \in Busy(d)' PROVE CopyOK(d, r)'
  <2>1. r \in Busy(d) /\ r \in In!Slots
    BY <1>12, <1>18
  <2>2. CopyOK(d, r)
    BY <2>1, InParts
  <2>3. CASE d = b /\ r = s
    <3>1. /\ in'[b][s].state = "done" /\ in'[b][s].result = in'[b][s].arg /\ ran'[p][c] > 0
          /\ in'[b][s].peer = p /\ in'[b][s].match.counter = c
      BY <1>8, <1>9, <1>11 DEF p, c
    <3>2. /\ in'[b][s].arg = m.arg /\ in'[b][s].match = m.match /\ in'[b][s].match.slot = k
      BY <1>8, <1>9 DEF k
    <3>3. out' = out
      BY <1>1
    <3>4. PICK y, i, l : y = in'[d][r] /\ i = p /\ l = k
      OBVIOUS
    <3>5. /\ y.state = "done" /\ y.result = y.arg /\ ran'[i][y.match.counter] > 0 /\ y.peer = i /\ y.match.slot = l
          /\ i \in Boxes /\ l \in OutSlots /\ out'[i][l].state = "sent" /\ out'[i][l].arg = y.arg
          /\ out'[i][l].match = y.match /\ out'[i][l].peer = d /\ i = y.arg[1]
      BY <1>5, <2>3, <3>1, <3>2, <3>3, <3>4
    <3>6. QED
      BY <3>4, <3>5 DEF CopyOK, Origin
  <2>4. CASE d # b \/ r # s
    <3>1. in'[d][r] = in[d][r]
      BY <1>9, <2>1, <2>4
    <3> DEFINE q == in[d][r].peer
               e == in[d][r].match.counter
               l == in[d][r].match.slot
    <3>2. q \in Boxes /\ l \in OutSlots /\ out[q][l].state = "sent" /\ out[q][l].match = in[d][r].match /\ out[q][l].arg = in[d][r].arg
      BY <2>2 DEF CopyOK, Origin
    <3>3. in[d][r].arg = <<q, e>> /\ e \in 1 .. counter[q]
      <4>1. MessageOK(q, l)
        BY <3>2, InParts
      <4>2. QED
        BY <3>2, <4>1 DEF MessageOK
    <3>4. q # p \/ e # c
      <4>1. in[d][r].arg # in[b][s].arg
        BY <1>1, <1>3, <2>1, <2>4, OneCopy
      <4>2. QED
        BY <1>6, <3>3, <4>1 DEF m
    <3>5. e \in DOMAIN ran[q]
      BY <1>20, <3>2, <3>3
    <3>6. ran'[q][e] = ran[q][e]
      BY <1>11, <3>2, <3>4, <3>5
    <3>7. QED
      BY <1>1, <2>2, <3>1, <3>6 DEF CopyOK, Origin
  <2>5. QED
    BY <2>3, <2>4
<1>23. DataOK'
  BY <1>14, <1>15, <1>16, <1>19, <1>21, <1>22 DEF DataOK
<1>24. pc'[t] = "done" /\ job'[t] = job[t] /\ \A u \in Threads \ {t} : pc'[u] = pc[u] /\ job'[u] = job[u]
  BY <1>1, OneGoes
<1>25. ASSUME NEW u \in Threads \ {t} PROVE CallerOK(u)' /\ ServerOK(u)'
  <2>1. CallerOK(u) /\ ServerOK(u) /\ BoxOf[u] \in Boxes
    BY InParts, RpcAssumption
  <2>2. \A d \in Boxes : \A e \in 1 .. counter[d] : ran[d][e] > 0 => ran'[d][e] > 0
    <3>1. ASSUME NEW d \in Boxes, NEW e \in 1 .. counter[d], ran[d][e] > 0 PROVE ran'[d][e] > 0
      <4>1. e \in DOMAIN ran[d]
        BY <1>20
      <4>2. CASE d # p \/ e # c
        BY <1>11, <3>1, <4>1, <4>2
      <4>3. CASE d = p /\ e = c
        BY <1>11, <4>3
      <4>4. QED
        BY <4>2, <4>3
    <3>2. QED
      BY <3>1
  <2>3. CallerOK(u)'
    BY <1>1, <1>24, <2>1, <2>2, CallerKept
  <2>4. pc[u] \in {"take", "run", "done"} => in'[BoxOf[u]][job[u].slot] = in[BoxOf[u]][job[u].slot]
    <3> SUFFICES ASSUME pc[u] \in {"take", "run", "done"} PROVE in'[BoxOf[u]][job[u].slot] = in[BoxOf[u]][job[u].slot]
      OBVIOUS
    <3>1. job[u].slot \in In!Slots
      BY DEF TypeInv, JobsFit
    <3>2. BoxOf[u] # b \/ job[u].slot # s
      BY <1>1, ServersApart DEF b, s
    <3>3. QED
      BY <1>9, <2>1, <3>1, <3>2
  <2>5. pc[u] = "take" => job[u].slot \in QueuesOf(BoxOf[u])'["todo"]
    BY <1>13, <2>1 DEF ServerOK
  <2>6. pc[u] \in {"run", "done"} => inpool'[BoxOf[u]].prev[job[u].slot] = In!DEQUEUED
    BY <1>1, <2>1 DEF ServerOK
  <2>7. ServerOK(u)'
    BY <1>24, <2>1, <2>4, <2>5, <2>6, ServerKept
  <2>8. QED
    BY <2>3, <2>7
<1>26. CallerOK(t)'
  BY <1>24 DEF CallerOK
<1>27. ServerOK(t)'
  <2>1. BoxOf[t] = b /\ job[t].slot = s
    BY DEF b, s
  <2>2. job[t].fns \in Serves[t] /\ in[b][s].gateway.fn \in job[t].fns
    BY <1>1, <1>2, <2>1 DEF ServerOK
  <2>3. in'[b][s].state = "done" /\ in'[b][s].gateway = in[b][s].gateway
    BY <1>8, <1>9 DEF m
  <2>4. QED
    BY <1>1, <1>2, <1>24, <2>1, <2>2, <2>3 DEF ServerOK
<1>28. QED
  BY <1>23, <1>25, <1>26, <1>27 DEF InInv, DataOK

\* What becomes of the slots and messages of a pool when slot s of box c gets message x.
LEMMA SlotSet ==
  ASSUME TypeInv, NEW c \in Boxes, NEW s \in In!Slots, NEW n, NEW x,
         inpool' = [inpool EXCEPT ![c] = n], in' = [in EXCEPT ![c][s] = x]
  PROVE  /\ inpool'[c] = n /\ \A d \in Boxes : d # c => inpool'[d] = inpool[d] /\ in'[d] = in[d]
         /\ in'[c][s] = x /\ \A d \in Boxes, r \in In!Slots : d # c \/ r # s => in'[d][r] = in[d][r]
<1>1. inpool \in [Boxes -> In!Memory] /\ in \in [Boxes -> [In!Slots -> InType]]
  BY CalleeTypes
<1>2. inpool'[c] = n /\ \A d \in Boxes : d # c => inpool'[d] = inpool[d] /\ in'[d] = in[d]
  BY <1>1
<1>3. in'[c] = [in[c] EXCEPT ![s] = x] /\ in[c] \in [In!Slots -> InType]
  BY <1>1
<1>4. in'[c][s] = x /\ \A r \in In!Slots : r # s => in'[c][r] = in[c][r]
  BY <1>3
<1>5. QED
  BY <1>2, <1>4

LEMMA deliver_in ==
  ASSUME TypeInv, OutInv, InInv, drain_message_deliver PROVE InInv'
<1>1. /\ CanDequeue /\ Callee \in Boxes /\ inpool[Callee].first_free \in In!Slots
      /\ Patches(drain.box, Slot, [Message EXCEPT !.peer = Callee, !.state = "sent"])
  BY DeliverSteps
<1>2. PICK d, k, M, c, m, s, x :
        /\ d = drain.box /\ k = Slot /\ M = Message /\ c = Callee /\ m = inpool[Callee]
        /\ s = inpool[Callee].first_free /\ x = Delivered
  OBVIOUS
<1>3. PICK o : o = [M EXCEPT !.peer = c, !.state = "sent"]
  OBVIOUS
<1>4. /\ d \in Boxes /\ k \in OutSlots /\ M = out[d][k] /\ M \in OutType /\ c \in Boxes /\ s \in In!Slots
      /\ m = inpool[c] /\ s = m.first_free /\ Patches(d, k, o)
  BY <1>1, <1>2, <1>3, QueueFacts
<1>5. M.state = "ready"
  <2>1. k \in QueuedOut(d)
    <3>1. OutQueue \in Seq(OutSlots) /\ OutQueue # <<>>
      BY <1>1, QueueFacts
    <3>2. Head(OutQueue) \in Range(OutQueue)
      BY <3>1, TailRange
    <3>3. QED
      BY <1>2, <3>2, PoolRanges DEF OutQueue, Slot
  <2>2. SlotOK(d, k)
    BY <1>4 DEF OutInv
  <2>3. QED
    BY <1>4, <2>1, <2>2 DEF SlotOK
<1>6. /\ o.state = "sent" /\ o.peer = c /\ o.match = M.match /\ o.arg = M.arg /\ o.wait = M.wait
  BY <1>3, <1>4 DEF OutType
<1>7. /\ out'[d][k] = o /\ \A e \in Boxes, l \in OutSlots : e # d \/ l # k => out'[e][l] = out[e][l]
  BY <1>4, Patched
<1>8. x.arg = M.arg /\ x.peer = d /\ x.match = M.match /\ x.state = "sent"
  BY <1>2 DEF Delivered
<1>9. PICK n1, n : n1 = In!pool_alloc(m) /\ n = In!enqueue(n1, "todo", s)
  OBVIOUS
<1>10. inpool' = [inpool EXCEPT ![c] = n] /\ in' = [in EXCEPT ![c][s] = x] /\ UNCHANGED <<counter, pc, job, ran>>
  BY <1>2, <1>9 DEF drain_message_deliver
<1>11. /\ inpool'[c] = n /\ (\A e \in Boxes : e # c => inpool'[e] = inpool[e] /\ in'[e] = in[e])
       /\ in'[c][s] = x /\ \A e \in Boxes, r \in In!Slots : e # c \/ r # s => in'[e][r] = in[e][r]
  <2>1. c \in Boxes /\ s \in In!Slots /\ inpool' = [inpool EXCEPT ![c] = n] /\ in' = [in EXCEPT ![c][s] = x]
    BY <1>4, <1>10
  <2>2. QED
    BY <2>1, SlotSet, Zenon
<1>12. PICK Q : Q = QueuesOf(c)
  OBVIOUS
<1>13. PoolHolds(m, Q)
  BY <1>4, <1>12, InParts
<1>14. m.prev[s] = In!FREE /\ PoolHolds(n1, Q) /\ MarksKept(m, n1, s) /\ n1.prev[s] = In!DEQUEUED
  BY <1>4, <1>9, <1>13, AllocIn
<1>15. /\ PoolHolds(n, [Q EXCEPT !["todo"] = @ \cup {s}]) /\ MarksKept(n1, n, s)
       /\ n.prev[s] # In!FREE /\ n.prev[s] # In!DEQUEUED
  <2>1. "todo" \in QueueNames
    BY DEF QueueNames
  <2>2. QED
    BY <1>4, <1>9, <1>14, <2>1, EnqueueIn
<1>16. MarksKept(m, n, s)
  BY <1>14, <1>15, MarksJoin
<1>17. QueuesOf(c)' = [Q EXCEPT !["todo"] = @ \cup {s}]
  <2>1. PICK y, z, q : y = in[c] /\ z = in'[c] /\ q = "todo"
    OBVIOUS
  <2>2. /\ (\A r \in In!Slots \ {s} : z[r] = y[r]) /\ z[s].state = StateOf(q) /\ q \in QueueNames
        /\ m.prev[s] \in {In!FREE, In!DEQUEUED} /\ n.prev[s] \notin {In!FREE, In!DEQUEUED}
        /\ s \in In!Slots /\ MarksKept(m, n, s)
    BY <1>4, <1>8, <1>11, <1>14, <1>15, <1>16, <2>1 DEF StateOf, QueueNames
  <2>3. QueuesIn(n, z) = [QueuesIn(m, y) EXCEPT ![q] = @ \cup {s}]
    <3>1. QueuesIn(m, z) = QueuesIn(m, y)
      <4>1. MarksKept(m, m, s)
        BY DEF MarksKept
      <4>2. QED
        BY <2>2, <4>1, KeepsQueues
    <3>2. QueuesIn(n, z) = [QueuesIn(m, z) EXCEPT ![q] = @ \cup {s}]
      <4>1. /\ z[s].state = StateOf(q) /\ m.prev[s] \in {In!FREE, In!DEQUEUED} /\ n.prev[s] \notin {In!FREE, In!DEQUEUED}
            /\ MarksKept(m, n, s) /\ q \in QueueNames /\ s \in In!Slots
        BY <2>2
      <4>2. QED
        BY <4>1, JoinsQueue
    <3>3. QED
      BY <3>1, <3>2
  <2>4. QueuesOf(c)' = QueuesIn(n, z) /\ Q = QueuesIn(m, y)
    BY <1>4, <1>11, <1>12, <2>1 DEF QueuesOf
  <2>5. QED
    BY <2>1, <2>3, <2>4
<1>18. \A e \in Boxes : e # c => QueuesOf(e)' = QueuesOf(e) /\ Busy(e)' = Busy(e)
  BY <1>11 DEF QueuesOf, Busy
<1>19. Busy(c)' = Busy(c) \cup {s} /\ s \notin Busy(c)
  <2>1. Busy(c)' = {r \in In!Slots : n.prev[r] # In!FREE} /\ Busy(c) = {r \in In!Slots : m.prev[r] # In!FREE}
    BY <1>4, <1>11 DEF Busy
  <2>2. QED
    BY <1>4, <1>14, <1>15, <1>16, <2>1 DEF MarksKept
<1>20. ASSUME NEW e \in Boxes PROVE PoolHolds(inpool'[e], QueuesOf(e)')
  <2>1. CASE e = c
    BY <1>11, <1>15, <1>17, <2>1
  <2>2. CASE e # c
    <3>1. PoolHolds(inpool[e], QueuesOf(e)) /\ inpool'[e] = inpool[e] /\ QueuesOf(e)' = QueuesOf(e)
      BY <1>11, <1>18, <2>2, InParts
    <3>2. QED
      BY <3>1
  <2>3. QED
    BY <2>1, <2>2
<1>21. \A e \in Boxes : CounterOK(e)'
  BY <1>10, InParts DEF CounterOK
<1>22. ASSUME NEW e \in Boxes, NEW l \in OutSlots
       PROVE  /\ out'[e][l].match = out[e][l].match /\ out'[e][l].arg = out[e][l].arg
              /\ out'[e][l].state = "invalid" <=> out[e][l].state = "invalid"
  <2>1. CASE e = d /\ l = k
    BY <1>4, <1>5, <1>6, <1>7, <2>1
  <2>2. CASE e # d \/ l # k
    BY <1>7, <2>2
  <2>3. QED
    BY <2>1, <2>2
<1>23. \A e \in Boxes : CallsDistinct(e)'
  BY <1>22, InParts DEF CallsDistinct
<1>24. ASSUME NEW e \in Boxes, NEW r \in Busy(e)
       PROVE  /\ r \in In!Slots /\ (e # c \/ r # s) /\ in'[e][r] = in[e][r] /\ r \in Busy(e)'
  <2>1. r \in In!Slots /\ (e # c \/ r # s)
    BY <1>19 DEF Busy
  <2>2. QED
    BY <1>11, <1>18, <1>19, <2>1
<1>25. \A e \in Boxes : \A r \in Busy(e)' : r \in Busy(e) \/ (e = c /\ r = s)
  BY <1>18, <1>19
<1>26. ASSUME NEW e \in Boxes, NEW r \in Busy(e) PROVE in[e][r].arg # M.arg
  <2> SUFFICES ASSUME in[e][r].arg = M.arg PROVE FALSE
    OBVIOUS
  <2>1. out[d][k].state # "invalid" /\ out[d][k].arg = in[e][r].arg
    BY <1>4, <1>5
  <2>2. d = in[e][r].peer /\ k = in[e][r].match.slot
    BY <1>4, <2>1, SameCall
  <2>3. CopyOK(e, r)
    BY InParts
  <2>4. QED
    BY <1>4, <1>5, <2>2, <2>3 DEF CopyOK, Origin
<1>27. ASSUME NEW e \in Boxes PROVE CopiesDistinct(e)'
  <2> SUFFICES ASSUME NEW r \in Busy(e)', NEW i \in Busy(e)', in'[e][r].arg = in'[e][i].arg PROVE r = i
    BY DEF CopiesDistinct
  <2>1. CASE r \in Busy(e) /\ i \in Busy(e)
    <3>1. in[e][r].arg = in[e][i].arg /\ CopiesDistinct(e)
      BY <1>24, <2>1, InParts
    <3>2. QED
      BY <2>1, <3>1 DEF CopiesDistinct
  <2>2. CASE r \in Busy(e) /\ e = c /\ i = s
    BY <1>8, <1>11, <1>24, <1>26, <2>2
  <2>3. CASE i \in Busy(e) /\ e = c /\ r = s
    BY <1>8, <1>11, <1>24, <1>26, <2>3
  <2>4. QED
    BY <1>25, <2>1, <2>2, <2>3
<1>28. ASSUME NEW e \in Boxes, NEW l \in OutSlots PROVE MessageOK(e, l)' /\ HasCopy(e, l)'
  <2>1. MessageOK(e, l) /\ HasCopy(e, l)
    BY InParts
  <2>2. CASE e = d /\ l = k
    <3>1. MessageOK(e, l)'
      BY <1>4, <1>5, <1>6, <1>7, <1>10, <2>1, <2>2 DEF MessageOK
    <3>2. s \in Busy(c)' /\ in'[c][s].arg = o.arg
      BY <1>6, <1>8, <1>11, <1>19
    <3>3. HasCopy(e, l)'
      BY <1>4, <1>6, <1>7, <2>2, <3>2 DEF HasCopy
    <3>4. QED
      BY <3>1, <3>3
  <2>3. CASE e # d \/ l # k
    <3>1. out'[e][l] = out[e][l]
      BY <1>7, <2>3
    <3>2. MessageOK(e, l)'
      BY <1>10, <2>1, <3>1 DEF MessageOK
    <3>3. HasCopy(e, l)'
      BY <1>24, <2>1, <3>1 DEF HasCopy
    <3>4. QED
      BY <3>2, <3>3
  <2>4. QED
    BY <2>2, <2>3
<1>29. ASSUME NEW e \in Boxes, NEW r \in Busy(e)' PROVE CopyOK(e, r)'
  <2>1. CASE r \in Busy(e)
    <3>1. CopyOK(e, r) /\ in'[e][r] = in[e][r]
      BY <1>24, <2>1, InParts
    <3>2. PICK y, p, l : y = in[e][r] /\ p = in[e][r].peer /\ l = in[e][r].match.slot
      OBVIOUS
    <3>3. p \in Boxes /\ l \in OutSlots /\ out[p][l].state = "sent"
      BY <3>1, <3>2 DEF CopyOK, Origin
    <3>4. out'[p][l] = out[p][l]
      BY <1>4, <1>5, <1>7, <3>3
    <3>5. QED
      BY <1>10, <3>1, <3>2, <3>4 DEF CopyOK, Origin
  <2>2. CASE e = c /\ r = s
    <3>1. MessageOK(d, k)
      BY <1>4, InParts
    <3>2. M.match.slot = k /\ M.arg = <<d, M.match.counter>> /\ ran[d][M.match.counter] = 0
      BY <1>4, <1>5, <3>1 DEF MessageOK
    <3>3. /\ x.peer = d /\ x.match.slot = k /\ x.arg[1] = d /\ x.state = "sent"
          /\ ran'[d][x.match.counter] = 0
          /\ out'[d][k].state = "sent" /\ out'[d][k].peer = c /\ out'[d][k].match = x.match /\ out'[d][k].arg = x.arg
      BY <1>6, <1>7, <1>8, <1>10, <3>2
    <3>4. in'[e][r] = x
      BY <1>11, <2>2
    <3>5. QED
      BY <1>4, <2>2, <3>3, <3>4 DEF CopyOK, Origin
  <2>3. QED
    BY <1>25, <2>1, <2>2
<1>30. DataOK'
  BY <1>20, <1>21, <1>23, <1>27, <1>28, <1>29 DEF DataOK
<1>31. ASSUME NEW u \in Threads PROVE CallerOK(u)' /\ ServerOK(u)'
  <2>1. CallerOK(u) /\ ServerOK(u) /\ BoxOf[u] \in Boxes /\ pc'[u] = pc[u] /\ job'[u] = job[u]
    BY <1>10, InParts, RpcAssumption
  <2>2. /\ pc[u] \in {"send", "pend"} => job[u].slot \in OutSlots
        /\ pc[u] \in {"take", "run", "done"} => job[u].slot \in In!Slots
    BY DEF TypeInv, JobsFit
  <2>3. CallerOK(u)'
    BY <1>10, <1>22, <2>1, <2>2, CallerKept
  <2>4. PICK a, j : a = BoxOf[u] /\ j = job[u].slot
    OBVIOUS
  <2>5. pc[u] = "take" => j \in QueuesOf(a)["todo"]
    BY <2>1, <2>4 DEF ServerOK
  <2>6. pc[u] \in {"run", "done"} => inpool[a].prev[j] = In!DEQUEUED
    BY <2>1, <2>4 DEF ServerOK
  <2>7. pc[u] \in {"take", "run", "done"} => j \in Busy(a)
    <3>1. pc[u] = "take" => inpool[a].prev[j] # In!FREE
      BY <2>5, InQueue DEF QueueNames
    <3>2. QED
      BY <2>2, <2>4, <2>6, <3>1, MarkBytes DEF Busy
  <2>8. pc[u] \in {"take", "run", "done"} => in'[BoxOf[u]][job[u].slot] = in[BoxOf[u]][job[u].slot]
    BY <1>24, <2>1, <2>4, <2>7
  <2>9. pc[u] = "take" => job[u].slot \in QueuesOf(BoxOf[u])'["todo"]
    <3>1. Q["todo"] \subseteq [Q EXCEPT !["todo"] = @ \cup {s}]["todo"]
      BY <1>13 DEF PoolHolds, QueueNames
    <3>2. CASE a = c
      BY <1>12, <1>17, <2>4, <2>5, <3>1, <3>2
    <3>3. CASE a # c
      BY <1>18, <2>1, <2>4, <2>5, <3>3
    <3>4. QED
      BY <3>2, <3>3
  <2>10. pc[u] \in {"run", "done"} => inpool'[BoxOf[u]].prev[job[u].slot] = In!DEQUEUED
    <3>1. CASE a = c
      <4>1. pc[u] \in {"run", "done"} => j \in In!Slots \ {s}
        BY <1>14, <1>4, <2>2, <2>4, <2>6, <3>1, MarkBytes
      <4>2. QED
        BY <1>4, <1>11, <1>16, <2>4, <2>6, <3>1, <4>1 DEF MarksKept
    <3>2. CASE a # c
      BY <1>11, <2>1, <2>4, <2>6, <3>2
    <3>3. QED
      BY <3>1, <3>2
  <2>11. ServerOK(u)'
    BY <2>1, <2>8, <2>9, <2>10, ServerKept
  <2>12. QED
    BY <2>3, <2>11
<1>32. QED
  BY <1>30, <1>31 DEF InInv, DataOK

\* The head of a queue is one of its slots.
LEMMA HeadIn ==
  ASSUME NEW m, NEW Q, PoolHolds(m, Q), NEW q \in QueueNames, m.head[q] \in In!Slots PROVE m.head[q] \in Q[q]
<1>1. PICK rank \in [In!Slots -> Nat] : \A p \in QueueNames : QueueOf(m, p, Q[p], rank)
  BY DEF PoolHolds
<1>2. m.head[q] \in Q[q] \cup {In!INVALID}
  BY <1>1 DEF QueueOf
<1>3. QED
  BY <1>2, MarkBytes

\* A result is the answer to the message that it came from, and its slot is free after it.
LEMMA drain_result_in ==
  ASSUME TypeInv, OutInv, InInv, drain_result PROVE InInv'
<1>1. drain.box \in Boxes /\ DoneSlot \in In!Slots
  BY DEF drain_result, TypeInv, HasResult
<1>2. PICK d, s, R, m, Q : d = drain.box /\ s = DoneSlot /\ R = Result /\ m = inpool[drain.box] /\ Q = QueuesOf(drain.box)
  OBVIOUS
<1>3. /\ d \in Boxes /\ s \in In!Slots /\ R = in[d][s] /\ m = inpool[d] /\ Q = QueuesOf(d) /\ s = m.head["done"]
      /\ "done" \in QueueNames
  BY <1>1, <1>2 DEF Result, DoneSlot, QueueNames
<1>4. PoolHolds(m, Q)
  BY <1>3, InParts
<1>5. s \in Q["done"]
  BY <1>3, <1>4, HeadIn
<1>6. m.prev[s] # In!FREE /\ m.prev[s] # In!DEQUEUED /\ R.state = "done" /\ s \in Busy(d)
  <2>1. inpool[d].prev[s] # In!FREE /\ inpool[d].prev[s] # In!DEQUEUED /\ in[d][s].state = StateOf("done")
    BY <1>3, <1>5, InQueue
  <2>2. QED
    BY <1>3, <2>1 DEF StateOf, Busy
<1>7. PICK b, k, M : b = R.peer /\ k = R.match.slot /\ M = out[b][k]
  OBVIOUS
<1>8. /\ b \in Boxes /\ k \in OutSlots /\ M.state = "sent" /\ M.peer = d /\ M.match = R.match /\ M.arg = R.arg
      /\ R.result = R.arg /\ ran[b][R.match.counter] > 0
  <2>1. CopyOK(d, s)
    BY <1>3, <1>6, InParts
  <2>2. QED
    BY <1>3, <1>6, <1>7, <2>1 DEF CopyOK, Origin
<1>9. PICK o, x, n1, n :
        /\ o = [M EXCEPT !.result = R.result, !.state = "done", !.sem = 1]
        /\ x = [R EXCEPT !.state = "idle"]
        /\ n1 = In!dequeue(m, "done", s) /\ n = In!pool_free(n1, s)
  OBVIOUS
<1>10. /\ out' = [out EXCEPT ![b][k] = o] /\ in' = [in EXCEPT ![d][s] = x] /\ inpool' = [inpool EXCEPT ![d] = n]
       /\ UNCHANGED <<counter, pc, job, ran>>
  <2>1. Expected(out[Result.peer][Result.match.slot], Result)
    BY <1>2, <1>7, <1>8 DEF Expected
  <2>2. /\ out' = [out EXCEPT ![Result.peer][Result.match.slot] =
                     [@ EXCEPT !.result = Result.result, !.state = "done", !.sem = 1]]
        /\ in' = [in EXCEPT ![drain.box][DoneSlot].state = "idle"]
        /\ inpool' = [inpool EXCEPT ![drain.box] =
                        In!pool_free(In!dequeue(inpool[drain.box], "done", DoneSlot), DoneSlot)]
        /\ UNCHANGED <<counter, pc, job, ran>>
    BY <2>1 DEF drain_result
  <2>3. QED
    BY <1>2, <1>3, <1>7, <1>9, <2>2
<1>11. /\ inpool'[d] = n /\ (\A e \in Boxes : e # d => inpool'[e] = inpool[e] /\ in'[e] = in[e])
       /\ in'[d][s] = x /\ \A e \in Boxes, r \in In!Slots : e # d \/ r # s => in'[e][r] = in[e][r]
  <2>1. d \in Boxes /\ s \in In!Slots /\ inpool' = [inpool EXCEPT ![d] = n] /\ in' = [in EXCEPT ![d][s] = x]
    BY <1>3, <1>10
  <2>2. QED
    BY <2>1, SlotSet, Zenon
<1>12. M \in OutType
  BY <1>7, <1>8 DEF TypeInv, TypeOK
<1>13. o.state = "done" /\ o.match = M.match /\ o.arg = M.arg /\ o.wait = M.wait /\ o.result = R.result
  BY <1>9, <1>12 DEF OutType
<1>14. /\ out'[b][k] = o /\ \A e \in Boxes, l \in OutSlots : e # b \/ l # k => out'[e][l] = out[e][l]
  <2>1. out \in [Boxes -> [OutSlots -> OutType]]
    BY DEF TypeInv, TypeOK
  <2>2. out'[b] = [out[b] EXCEPT ![k] = o] /\ out[b] \in [OutSlots -> OutType] /\ \A e \in Boxes : e # b => out'[e] = out[e]
    BY <1>8, <1>10, <2>1
  <2>3. out'[b][k] = o /\ \A l \in OutSlots : l # k => out'[b][l] = out[b][l]
    BY <1>8, <2>2
  <2>4. QED
    BY <2>2, <2>3
<1>15. /\ PoolHolds(n1, [Q EXCEPT !["done"] = @ \ {s}]) /\ MarksKept(m, n1, s) /\ n1.prev[s] = In!DEQUEUED
  BY <1>3, <1>4, <1>5, <1>9, DequeueIn
<1>16. /\ PoolHolds(n, [Q EXCEPT !["done"] = @ \ {s}]) /\ MarksKept(n1, n, s) /\ n.prev[s] = In!FREE
  BY <1>3, <1>9, <1>15, ReleaseIn
<1>17. MarksKept(m, n, s)
  BY <1>15, <1>16, MarksJoin
<1>18. QueuesOf(d)' = [Q EXCEPT !["done"] = @ \ {s}]
  <2>1. PICK y, z, q : y = in[d] /\ z = in'[d] /\ q = "done"
    OBVIOUS
  <2>2. QueuesOf(d)' = QueuesIn(n, z) /\ Q = QueuesIn(m, y)
    BY <1>3, <1>11, <2>1 DEF QueuesOf
  <2>3. /\ (\A r \in In!Slots \ {s} : z[r] = y[r]) /\ q \in QueueNames
        /\ n.prev[s] \in {In!FREE, In!DEQUEUED} /\ s \in QueuesIn(m, y)[q]
        /\ s \in In!Slots /\ MarksKept(m, n, s)
    BY <1>3, <1>5, <1>11, <1>16, <1>17, <2>1, <2>2
  <2>4. QueuesIn(n, z) = [QueuesIn(m, y) EXCEPT ![q] = @ \ {s}]
    BY <2>3, LeavesQueue
  <2>5. QED
    BY <2>1, <2>2, <2>4
<1>19. \A e \in Boxes : e # d => QueuesOf(e)' = QueuesOf(e) /\ Busy(e)' = Busy(e)
  BY <1>11 DEF QueuesOf, Busy
<1>20. Busy(d)' = Busy(d) \ {s}
  <2>1. Busy(d)' = {r \in In!Slots : n.prev[r] # In!FREE} /\ Busy(d) = {r \in In!Slots : m.prev[r] # In!FREE}
    BY <1>3, <1>11 DEF Busy
  <2>2. QED
    BY <1>3, <1>16, <1>17, <2>1 DEF MarksKept
<1>21. ASSUME NEW e \in Boxes PROVE PoolHolds(inpool'[e], QueuesOf(e)')
  <2>1. CASE e = d
    BY <1>11, <1>16, <1>18, <2>1
  <2>2. CASE e # d
    <3>1. PoolHolds(inpool[e], QueuesOf(e)) /\ inpool'[e] = inpool[e] /\ QueuesOf(e)' = QueuesOf(e)
      BY <1>11, <1>19, <2>2, InParts
    <3>2. QED
      BY <3>1
  <2>3. QED
    BY <2>1, <2>2
<1>22. \A e \in Boxes : CounterOK(e)'
  BY <1>10, InParts DEF CounterOK
<1>23. ASSUME NEW e \in Boxes, NEW l \in OutSlots
       PROVE  /\ out'[e][l].match = out[e][l].match /\ out'[e][l].arg = out[e][l].arg
              /\ out'[e][l].state = "invalid" <=> out[e][l].state = "invalid"
  <2>1. CASE e = b /\ l = k
    BY <1>7, <1>8, <1>13, <1>14, <2>1
  <2>2. CASE e # b \/ l # k
    BY <1>14, <2>2
  <2>3. QED
    BY <2>1, <2>2
<1>24. \A e \in Boxes : CallsDistinct(e)'
  BY <1>23, InParts DEF CallsDistinct
<1>25. ASSUME NEW e \in Boxes, NEW r \in Busy(e)'
       PROVE  r \in Busy(e) /\ (e # d \/ r # s) /\ in'[e][r] = in[e][r]
  <2>1. r \in Busy(e) /\ (e # d \/ r # s)
    BY <1>19, <1>20
  <2>2. r \in In!Slots
    BY <2>1 DEF Busy
  <2>3. QED
    BY <1>11, <2>1, <2>2
<1>26. ASSUME NEW e \in Boxes, NEW r \in Busy(e), e # d \/ r # s
       PROVE  r \in Busy(e)' /\ in'[e][r] = in[e][r]
  <2>1. r \in In!Slots
    BY DEF Busy
  <2>2. QED
    BY <1>11, <1>19, <1>20, <1>26, <2>1
<1>27. \A e \in Boxes : CopiesDistinct(e)'
  <2> SUFFICES ASSUME NEW e \in Boxes, NEW r \in Busy(e)', NEW i \in Busy(e)', in'[e][r].arg = in'[e][i].arg PROVE r = i
    BY DEF CopiesDistinct
  <2>1. r \in Busy(e) /\ i \in Busy(e) /\ in[e][r].arg = in[e][i].arg /\ CopiesDistinct(e)
    BY <1>25, InParts
  <2>2. QED
    BY <2>1 DEF CopiesDistinct
<1>28. ASSUME NEW e \in Boxes, NEW l \in OutSlots PROVE MessageOK(e, l)' /\ HasCopy(e, l)'
  <2>1. MessageOK(e, l) /\ HasCopy(e, l)
    BY InParts
  <2>2. CASE e = b /\ l = k
    <3>1. M = out[e][l] /\ out'[e][l] = o /\ counter' = counter /\ ran' = ran
      BY <1>7, <1>10, <1>14, <2>2
    <3>2. /\ M.match.slot = l /\ M.match.counter \in 1 .. counter[e] /\ M.arg = <<e, M.match.counter>>
          /\ M.wait \in {M.match, Cookie(INVALID_COUNTER, l)}
      BY <1>8, <2>1, <3>1 DEF MessageOK
    <3>3. o.result = o.arg /\ ran[e][o.match.counter] > 0
      BY <1>8, <1>13, <2>2
    <3>4. MessageOK(e, l)'
      BY <1>13, <3>1, <3>2, <3>3 DEF MessageOK
    <3>5. HasCopy(e, l)'
      BY <1>13, <3>1 DEF HasCopy
    <3>6. QED
      BY <3>4, <3>5
  <2>3. CASE e # b \/ l # k
    <3>1. out'[e][l] = out[e][l]
      BY <1>14, <2>3
    <3>2. MessageOK(e, l)'
      BY <1>10, <2>1, <3>1 DEF MessageOK
    <3>p. PICK p : p = out[e][l].peer
      OBVIOUS
    <3>3. ASSUME out[e][l].state = "sent" PROVE p \in Boxes /\ \E r \in Busy(p)' : in'[p][r].arg = out[e][l].arg
      <4>1. p \in Boxes
        BY <2>1, <3>3, <3>p DEF HasCopy
      <4>2. PICK r \in Busy(p) : in[p][r].arg = out[e][l].arg
        BY <2>1, <3>3, <3>p DEF HasCopy
      <4>3. p # d \/ r # s
        <5> SUFFICES ASSUME p = d, r = s PROVE FALSE
          OBVIOUS
        <5>1. out[e][l].state # "invalid" /\ out[e][l].arg = in[d][s].arg
          BY <3>3, <4>2
        <5>2. e = in[d][s].peer /\ l = in[d][s].match.slot
          BY <1>3, <1>6, <5>1, SameCall
        <5>3. QED
          BY <1>3, <1>7, <2>3, <5>2
      <4>4. r \in Busy(p)' /\ in'[p][r] = in[p][r]
        BY <1>26, <4>1, <4>3
      <4>5. QED
        BY <4>1, <4>2, <4>4
    <3>4. HasCopy(e, l)'
      BY <3>1, <3>3, <3>p DEF HasCopy
    <3>5. QED
      BY <3>2, <3>4
  <2>4. QED
    BY <2>2, <2>3
<1>29. ASSUME NEW e \in Boxes, NEW r \in Busy(e)' PROVE CopyOK(e, r)'
  <2>1. r \in Busy(e) /\ (e # d \/ r # s) /\ in'[e][r] = in[e][r]
    BY <1>25
  <2>2. CopyOK(e, r)
    BY <2>1, InParts
  <2>3. PICK y, p, l : y = in[e][r] /\ p = in[e][r].peer /\ l = in[e][r].match.slot
    OBVIOUS
  <2>4. p \in Boxes /\ l \in OutSlots /\ out[p][l].arg = y.arg
    BY <2>2, <2>3 DEF CopyOK, Origin
  <2>5. p # b \/ l # k
    <3> SUFFICES ASSUME p = b, l = k PROVE FALSE
      OBVIOUS
    <3>1. in[e][r].arg = in[d][s].arg
      BY <1>3, <1>7, <1>8, <2>3, <2>4
    <3>2. e = d /\ r = s
      BY <1>3, <1>6, <2>1, <3>1, OneCopy
    <3>3. QED
      BY <2>1, <3>2
  <2>6. out'[p][l] = out[p][l]
    BY <1>14, <2>4, <2>5
  <2>7. QED
    BY <1>10, <2>1, <2>2, <2>3, <2>6 DEF CopyOK, Origin
<1>30. DataOK'
  BY <1>21, <1>22, <1>24, <1>27, <1>28, <1>29 DEF DataOK
<1>31. ASSUME NEW u \in Threads PROVE CallerOK(u)' /\ ServerOK(u)'
  <2>1. CallerOK(u) /\ ServerOK(u) /\ BoxOf[u] \in Boxes /\ pc'[u] = pc[u] /\ job'[u] = job[u]
    BY <1>10, InParts, RpcAssumption
  <2>2. /\ pc[u] \in {"send", "pend"} => job[u].slot \in OutSlots
        /\ pc[u] \in {"take", "run", "done"} => job[u].slot \in In!Slots
    BY DEF TypeInv, JobsFit
  <2>3. CallerOK(u)'
    BY <1>10, <1>23, <2>1, <2>2, CallerKept
  <2>4. PICK a, j : a = BoxOf[u] /\ j = job[u].slot
    OBVIOUS
  <2>5. pc[u] = "take" => j \in QueuesOf(a)["todo"]
    BY <2>1, <2>4 DEF ServerOK
  <2>6. pc[u] \in {"run", "done"} => inpool[a].prev[j] = In!DEQUEUED
    BY <2>1, <2>4 DEF ServerOK
  <2>7. pc[u] \in {"take", "run", "done"} => a # d \/ j # s
    <3>1. pc[u] = "take" => in[a][j].state = "sent"
      <4>1. "todo" \in QueueNames
        BY DEF QueueNames
      <4>2. j \in QueuesOf(a)["todo"] => in[a][j].state = StateOf("todo")
        BY <4>1, InQueue
      <4>3. QED
        BY <2>5, <4>2 DEF StateOf
    <3>2. QED
      BY <1>3, <1>6, <2>6, <3>1
  <2>8. pc[u] \in {"take", "run", "done"} => in'[BoxOf[u]][job[u].slot] = in[BoxOf[u]][job[u].slot]
    BY <1>11, <2>1, <2>2, <2>4, <2>7
  <2>9. pc[u] = "take" => job[u].slot \in QueuesOf(BoxOf[u])'["todo"]
    <3>1. [Q EXCEPT !["done"] = @ \ {s}]["todo"] = Q["todo"]
      BY <1>4 DEF PoolHolds, QueueNames
    <3>2. CASE a = d
      BY <1>3, <1>18, <2>4, <2>5, <3>1, <3>2
    <3>3. CASE a # d
      BY <1>19, <2>1, <2>4, <2>5, <3>3
    <3>4. QED
      BY <3>2, <3>3
  <2>10. pc[u] \in {"run", "done"} => inpool'[BoxOf[u]].prev[job[u].slot] = In!DEQUEUED
    <3>1. CASE a = d
      <4>1. pc[u] \in {"run", "done"} => j \in In!Slots \ {s}
        BY <2>2, <2>4, <2>7, <3>1
      <4>2. QED
        BY <1>3, <1>11, <1>17, <2>4, <2>6, <3>1, <4>1 DEF MarksKept
    <3>2. CASE a # d
      BY <1>11, <2>1, <2>4, <2>6, <3>2
    <3>3. QED
      BY <3>1, <3>2
  <2>11. ServerOK(u)'
    BY <2>1, <2>8, <2>9, <2>10, ServerKept
  <2>12. QED
    BY <2>3, <2>11
<1>32. QED
  BY <1>30, <1>31 DEF InInv, DataOK

LEMMA InStep == ASSUME SeparateServers PROVE TypeInv /\ OutInv /\ InInv /\ [Next]_vars => InInv'
<1> SUFFICES ASSUME TypeInv, OutInv, InInv, [Next]_vars PROVE InInv'
  OBVIOUS
<1>1. ASSUME NEW t \in Threads,
             \/ rpc_fncall(t) \/ rpc_fncall_wait(t) \/ wait_timeout(t) \/ Call(t)
             \/ Serving(t) \/ pend_group(t) \/ waitfor_timeout(t)
      PROVE  InInv'
  BY <1>1, caller_in, send_in, wait_in, result_in, waitfor_in, group_in, find_in, dequeue_in, dispatch_in, done_in
     DEF Call, Serving
<1>2. ASSUME NEW b \in Boxes, thread_switch(b) PROVE InInv'
  BY <1>2, core_in
<1>3. CASE Drain
  BY <1>3, core_in, deliver_in, drain_result_in DEF Drain
<1>4. CASE UNCHANGED vars
  BY <1>4, CoreKept DEF vars
<1>5. QED
  BY <1>1, <1>2, <1>3, <1>4 DEF Next

\* The inductive invariant of the incoming side: the pools of the callees and
\* their queues, the calls in flight and what callers and servers know of them.
THEOREM IncomingInvariant == ASSUME SeparateServers PROVE Spec => [](TypeInv /\ OutInv /\ InInv)
<1>1. TypeInv /\ OutInv /\ InInv /\ [Next]_vars => InInv'
  BY InStep
<1>2. QED
  BY <1>1, InInit, OutgoingInvariant, PTL DEF Spec

\* Calls in flight and busy slots of the callees correspond one to one, over
\* copies, retries, timeouts and reuse of slots, so that drain_result_queue
\* (core/system/src/rpc.c) never finds a result that nobody expects.
THEOREM CallsInFlightCorrespond == ASSUME SeparateServers PROVE Spec => []InFlight
<1>1. ASSUME InInv PROVE InFlight
  <2>1. ASSUME NEW b \in Boxes, NEW s \in Busy(b)
        PROVE  LET m == in[b][s] IN
               /\ m.peer = m.arg[1]
               /\ Origin(m).state = "sent" /\ Origin(m).peer = b
               /\ Origin(m).match = m.match /\ Origin(m).arg = m.arg
               /\ \A r \in Busy(b) \ {s} : in[b][r].arg # m.arg
    <3>1. CopyOK(b, s) /\ CopiesDistinct(b)
      BY <1>1, InParts
    <3>2. QED
      BY <3>1 DEF CopyOK, CopiesDistinct
  <2>2. ASSUME NEW b \in Boxes, NEW k \in OutSlots, out[b][k].state = "sent"
        PROVE  \E s \in Busy(out[b][k].peer) : in[out[b][k].peer][s].arg = out[b][k].arg
    <3>1. HasCopy(b, k)
      BY <1>1, InParts
    <3>2. QED
      BY <2>2, <3>1 DEF HasCopy
  <2>3. QED
    BY <2>1, <2>2 DEF InFlight
<1>2. QED
  BY <1>1, IncomingInvariant, PTL

\* rpc_fncall_sync and rpc_fncall_wait (api/src/rpc.c) return the result of
\* their own call, which has been run, whichever thread waits and whatever
\* became of earlier calls that used the same slots.
THEOREM ResultsReachTheirCallers == ASSUME SeparateServers PROVE Spec => []ResultMatches
<1>1. ASSUME InInv PROVE ResultMatches
  <2> SUFFICES ASSUME NEW t \in Threads, pc[t] = "free"
               PROVE  job[t].ret = job[t].arg /\ ran[job[t].arg[1]][job[t].arg[2]] > 0
    BY DEF ResultMatches
  <2>1. /\ job[t].ret = job[t].arg
        /\ \E b \in Boxes, c \in Nat : job[t].arg = <<b, c>> /\ c \in 1 .. counter[b] /\ ran[b][c] > 0
    BY <1>1, InParts DEF CallerOK
  <2>2. PICK b, c : job[t].arg = <<b, c>> /\ ran[b][c] > 0
    BY <2>1
  <2>3. job[t].arg[1] = b /\ job[t].arg[2] = c
    BY <2>2
  <2>4. QED
    BY <2>1, <2>2, <2>3
<1>2. QED
  BY <1>1, IncomingInvariant, PTL

\* The target function runs at most once for each call, although a server
\* looks for a call and dequeues it in two steps (handle_incoming_rpc,
\* api/src/rpc.c), and although the core may leave a delivered message and
\* its result where they are and try again.
THEOREM FunctionsRunOnce == ASSUME SeparateServers PROVE Spec => []RunAtMostOnce
<1>1. ASSUME InInv PROVE RunAtMostOnce
  <2>1. \A b \in Boxes : CounterOK(b)
    BY <1>1, InParts
  <2>2. QED
    BY <2>1 DEF CounterOK, RunAtMostOnce
<1>2. QED
  BY <1>1, IncomingInvariant, PTL

\* A server only runs functions of the group that it waits for now: the slot
\* it found keeps its message until the server is done with it.
THEOREM ServersRunTheirGroup == ASSUME SeparateServers PROVE Spec => []RunsOwnGroup
<1>1. ASSUME InInv PROVE RunsOwnGroup
  <2>1. \A t \in Threads : ServerOK(t)
    BY <1>1, InParts
  <2>2. QED
    BY <2>1 DEF ServerOK, RunsOwnGroup
<1>2. QED
  BY <1>1, IncomingInvariant, PTL
=============================================================================
