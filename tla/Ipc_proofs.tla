----------------------------- MODULE Ipc_proofs -----------------------------
(***************************************************************************)
(* Proofs about Ipc, for any boxes, threads, requests, slots and tokens.   *)
(***************************************************************************)
EXTENDS Ipc, WellFoundedInduction, SequenceTheorems, TLAPS

\* A set of natural numbers has a least element: the lowest clear bit, the first
\* match.
LEMMA LeastElement ==
  ASSUME NEW S, S \subseteq Nat, S # {}
  PROVE  \E i \in S : \A j \in S : i <= j
<1>1. \E i \in S : \A j \in S : <<j, i>> \notin OpToRel(<, Nat)
  BY NatLessThanWellFounded, WFMin, Zenon
<1>2. ASSUME NEW i \in S, \A j \in S : <<j, i>> \notin OpToRel(<, Nat), NEW j \in S
      PROVE  i <= j
  <2>1. ~(j < i)
    BY <1>2 DEF OpToRel
  <2>2. QED
    BY <2>1
<1>3. QED
  BY <1>1, <1>2

LEMMA JobKinds ==
  ASSUME TypeOK, NEW t \in Threads
  PROVE  /\ pc[t] \in {"in_token", "want_slot", "in_slot", "want_enqueue", "in_enqueue"} => job[t].kind \in Kinds
         /\ LockOf(t) \in Kinds \cup {"tokens", "none"}
         /\ LockOf(t) = "tokens" <=> pc[t] \in {"in_token", "in_wait"}
<1>1. pc[t] \in Places /\ job[t] \in JobsAt(pc[t])
  BY DEF TypeOK
<1>2. pc[t] \in {"in_token", "want_slot", "in_slot", "want_enqueue", "in_enqueue"} => job[t].kind \in Kinds
  BY <1>1 DEF JobsAt, IoJobs
<1>3. QED
  BY <1>1, <1>2 DEF LockOf, Kinds, Places

\* The request at the head of the queue that is drained.
LEMMA SendType ==
  ASSUME TypeOK, CanDequeue
  PROVE  /\ drain.box \in Boxes
         /\ SendQueue \in Seq(Entries)
         /\ Send \in Entries
         /\ First \in Slots \cup {NONE}
         /\ Tail(SendQueue) \in Seq(Entries)
         /\ Rotated(SendQueue) \in Seq(Entries)
<1>1. drain.box \in Boxes
  BY DEF TypeOK, CanDequeue, Draining
<1>2. SendQueue \in Seq(Entries) /\ SendQueue # <<>>
  BY <1>1 DEF TypeOK, CanDequeue, SendQueue, Kinds
<1>3. Send \in Entries
  BY <1>2 DEF Send
<1>4. First \in Slots \cup {NONE}
  BY <1>3 DEF First, TypeOK, Entries
<1>5. Tail(SendQueue) \in Seq(Entries)
  BY <1>2
<1>6. Rotated(SendQueue) \in Seq(Entries)
  BY <1>3, <1>5 DEF Rotated, Send
<1>7. QED
  BY <1>1, <1>2, <1>3, <1>4, <1>5, <1>6

\* The receive request that it matches.
LEMMA RecvType ==
  ASSUME TypeOK, Matched
  PROVE  /\ To \in Boxes
         /\ queue[To]["recv"] \in Seq(Entries)
         /\ FirstMatch \in DOMAIN queue[To]["recv"]
         /\ Recv \in Entries
         /\ Without(queue[To]["recv"], FirstMatch) \in Seq(Entries)
<1>1. To \in Boxes
  BY DEF Matched, Deliverable
<1>2. queue[To]["recv"] \in Seq(Entries)
  BY <1>1 DEF TypeOK, Kinds
<1>3. Matches # {} /\ Matches \subseteq DOMAIN queue[To]["recv"]
  BY DEF Matched, Unmatched, Matches
<1>4. FirstMatch \in DOMAIN queue[To]["recv"]
  <2>1. DOMAIN queue[To]["recv"] = 1 .. Len(queue[To]["recv"]) /\ Len(queue[To]["recv"]) \in Nat
    BY <1>2
  <2>2. \E i \in Matches : \A j \in Matches : i <= j
    BY <1>3, <2>1, LeastElement
  <2>3. QED
    BY <1>3, <2>2 DEF FirstMatch
<1>5. Recv \in Entries
  BY <1>2, <1>4 DEF Recv
<1>6. QED
  BY <1>1, <1>2, <1>4, <1>5 DEF Without

\* A thread that goes to another place with a job that fits there.
LEMMA GoToType ==
  ASSUME TypeOK, NEW t \in Threads, NEW from, NEW to \in Places, GoTo(t, from, to),
         NEW j \in Jobs, j \in JobsAt(to), job' = [job EXCEPT ![t] = j]
  PROVE  /\ pc' \in [Threads -> Places]
         /\ job' \in [Threads -> Jobs] /\ \A u \in Threads : job'[u] \in JobsAt(pc'[u])
<1>1. pc' \in [Threads -> Places] /\ job' \in [Threads -> Jobs]
  BY DEF TypeOK, GoTo
<1>2. pc'[t] = to /\ job'[t] = j /\ \A u \in Threads \ {t} : pc'[u] = pc[u] /\ job'[u] = job[u]
  BY DEF TypeOK, GoTo
<1>3. QED
  BY <1>1, <1>2 DEF TypeOK

LEMMA TypeInit == Init => TypeOK
<1>1. NONE \in Slots \cup {NONE} /\ NoJob \in Jobs /\ "idle" \in Places
  BY DEF Jobs, Places
<1>2. NoJob \in JobsAt("idle")
  BY DEF JobsAt
<1>3. QED
  BY <1>1, <1>2 DEF Init, TypeOK, Idle

\* What a request in progress is, in terms of the fields of its record.
LEMMA IoJobFields ==
  ASSUME TypeOK, NEW t \in Threads, pc[t] \notin {"idle", "in_wait"}
  PROVE  /\ job[t] \in IoJobs(Tokens \cup {NONE}, Slots \cup {NONE})
         /\ job[t].kind \in Kinds /\ job[t].desc \in Descs
         /\ pc[t] \in {"want_slot", "in_slot", "want_enqueue", "in_enqueue"} => job[t].token \in Tokens
         /\ pc[t] \in {"want_enqueue", "in_enqueue"} => job[t].slot \in Slots
  BY DEF TypeOK, JobsAt, IoJobs, Places

LEMMA TypeThread ==
  ASSUME TypeOK, NEW t \in Threads,
         \/ ipc_io(t) \/ ipc_wait(t) \/ lock(t) \/ ipc_allocate_token(t)
         \/ allocate_slot(t) \/ enqueue(t) \/ ipc_waitfor(t)
  PROVE  TypeOK'
<1> DEFINE b == BoxOf[t]
<1>0. b \in Boxes /\ NoJob \in Jobs /\ NoJob \in JobsAt("idle") /\ "idle" \in Places
  BY IpcAssumption DEF Jobs, JobsAt, Places
<1>1. CASE ipc_io(t)
  <2>1. PICK c \in Requests[t] :
          job' = [job EXCEPT ![t] = [call |-> "io", kind |-> c.kind, desc |-> c.desc,
                                     token |-> NONE, slot |-> NONE]]
    BY <1>1 DEF ipc_io
  <2> DEFINE j == [call |-> "io", kind |-> c.kind, desc |-> c.desc, token |-> NONE, slot |-> NONE]
  <2>2. c.kind \in Kinds /\ c.desc \in Descs
    BY IpcAssumption DEF Descs
  <2>3. j \in IoJobs({NONE}, {NONE}) /\ j \in IoJobs(Tokens \cup {NONE}, Slots \cup {NONE})
    BY <2>2 DEF IoJobs
  <2>4. j \in Jobs /\ j \in JobsAt("in_token") /\ "in_token" \in Places
    BY <2>3 DEF Jobs, JobsAt, Places
  <2>5. GoTo(t, "idle", "in_token") /\ UNCHANGED <<free, queue, allocated, completed, drain>>
    BY <1>1 DEF ipc_io
  <2> HIDE DEF j
  <2>6. job' = [job EXCEPT ![t] = j]
    BY <2>1 DEF j
  <2>7. /\ pc' \in [Threads -> Places]
        /\ job' \in [Threads -> Jobs] /\ \A u \in Threads : job'[u] \in JobsAt(pc'[u])
    BY <2>4, <2>5, <2>6, GoToType
  <2>8. QED
    BY <2>5, <2>7 DEF TypeOK, Idle
<1>2. CASE ipc_wait(t)
  <2>1. PICK w \in Waits[t] :
          job' = [job EXCEPT ![t] = [call |-> "wait", cond |-> w.cond, wait |-> w.wait]]
    BY <1>2 DEF ipc_wait
  <2> DEFINE j == [call |-> "wait", cond |-> w.cond, wait |-> w.wait]
  <2>2. j \in WaitJobs
    BY IpcAssumption DEF WaitJobs
  <2>3. j \in Jobs /\ j \in JobsAt("in_wait") /\ "in_wait" \in Places
    BY <2>2 DEF Jobs, JobsAt, Places
  <2>4. GoTo(t, "idle", "in_wait") /\ UNCHANGED <<free, queue, allocated, completed, drain>>
    BY <1>2 DEF ipc_wait
  <2> HIDE DEF j
  <2>5. job' = [job EXCEPT ![t] = j]
    BY <2>1 DEF j
  <2>6. /\ pc' \in [Threads -> Places]
        /\ job' \in [Threads -> Jobs] /\ \A u \in Threads : job'[u] \in JobsAt(pc'[u])
    BY <2>3, <2>4, <2>5, GoToType
  <2>7. QED
    BY <2>4, <2>6 DEF TypeOK, Idle
<1>3. CASE lock(t)
  <2>1. PICK to \in {"in_slot", "in_enqueue"} :
          /\ pc' = [pc EXCEPT ![t] = to]
          /\ pc[t] = (IF to = "in_slot" THEN "want_slot" ELSE "want_enqueue")
    BY <1>3 DEF lock, GoTo
  <2>2. JobsAt(to) = JobsAt(pc[t]) /\ to \in Places
    BY <2>1 DEF JobsAt, Places
  <2>3. UNCHANGED <<free, queue, allocated, completed, job, drain>>
    BY <1>3 DEF lock
  <2>4. \A u \in Threads : JobsAt(pc'[u]) = JobsAt(pc[u])
    BY <2>1, <2>2 DEF TypeOK
  <2>5. QED
    BY <2>1, <2>2, <2>3, <2>4 DEF TypeOK, Idle
<1>4. CASE ipc_allocate_token(t)
  <2>1. CASE Unused(b) = {}
    <3>1. /\ GoTo(t, "in_token", "idle") /\ job' = [job EXCEPT ![t] = NoJob]
          /\ UNCHANGED <<free, queue, allocated, completed, drain>>
      BY <1>4, <2>1 DEF ipc_allocate_token
    <3>2. /\ pc' \in [Threads -> Places]
          /\ job' \in [Threads -> Jobs] /\ \A u \in Threads : job'[u] \in JobsAt(pc'[u])
      BY <1>0, <3>1, GoToType
    <3>3. QED
      BY <3>1, <3>2 DEF TypeOK, Idle
  <2>2. CASE Unused(b) # {}
    <3> DEFINE bit == CHOOSE i \in Unused(b) : \A k \in Unused(b) : i <= k
    <3>1. bit \in Tokens
      <4>1. Unused(b) \subseteq Tokens /\ Tokens \subseteq Nat
        BY IpcAssumption DEF Unused, Tokens
      <4>2. \E i \in Unused(b) : \A k \in Unused(b) : i <= k
        BY <2>2, <4>1, LeastElement
      <4>3. QED
        BY <4>1, <4>2
    <3>2. /\ GoTo(t, "in_token", "want_slot") /\ job' = [job EXCEPT ![t].token = bit]
          /\ allocated' = [allocated EXCEPT ![b] = @ \cup {bit}]
          /\ UNCHANGED <<free, queue, completed, drain>>
      BY <1>4, <2>2 DEF ipc_allocate_token
    <3> HIDE DEF bit
    <3> DEFINE j == [job[t] EXCEPT !.token = bit]
    <3>3. job[t] \in IoJobs({NONE}, {NONE})
      BY <3>2 DEF TypeOK, GoTo, JobsAt
    <3>4. j \in IoJobs(Tokens, {NONE}) /\ j \in IoJobs(Tokens \cup {NONE}, Slots \cup {NONE})
      BY <3>1, <3>3 DEF IoJobs
    <3>5. j \in Jobs /\ j \in JobsAt("want_slot") /\ "want_slot" \in Places
      BY <3>4 DEF Jobs, JobsAt, Places
    <3>6. job' = [job EXCEPT ![t] = j]
      BY <3>2 DEF TypeOK
    <3> HIDE DEF j
    <3>7. /\ pc' \in [Threads -> Places]
          /\ job' \in [Threads -> Jobs] /\ \A u \in Threads : job'[u] \in JobsAt(pc'[u])
      BY <3>2, <3>5, <3>6, GoToType
    <3>8. allocated' \in [Boxes -> SUBSET Tokens]
      BY <1>0, <3>1, <3>2 DEF TypeOK
    <3>9. QED
      BY <3>2, <3>7, <3>8 DEF TypeOK, Idle
  <2>3. QED
    BY <2>1, <2>2
<1>5. CASE allocate_slot(t)
  <2> DEFINE k == job[t].kind
  <2>1. UNCHANGED <<queue, allocated, completed, drain>>
    BY <1>5 DEF allocate_slot
  <2>2. CASE GoTo(t, "in_slot", "idle") /\ job' = [job EXCEPT ![t] = NoJob] /\ UNCHANGED free
    <3>1. /\ pc' \in [Threads -> Places]
          /\ job' \in [Threads -> Jobs] /\ \A u \in Threads : job'[u] \in JobsAt(pc'[u])
      BY <1>0, <2>2, GoToType
    <3>2. QED
      BY <2>1, <2>2, <3>1 DEF TypeOK, Idle
  <2>3. ASSUME GoTo(t, "in_slot", "want_enqueue"), NEW s \in free[b][k],
               job' = [job EXCEPT ![t].slot = s],
               free' = [free EXCEPT ![b][k] = @ \ {s}]
        PROVE  TypeOK'
    <3> DEFINE j == [job[t] EXCEPT !.slot = s]
    <3>1. job[t] \in IoJobs(Tokens, {NONE})
      BY <2>3 DEF TypeOK, GoTo, JobsAt
    <3>2. k \in Kinds
      BY <3>1 DEF IoJobs
    <3>3. s \in Slots /\ free' \in [Boxes -> [Kinds -> SUBSET Slots]]
      BY <1>0, <2>3, <3>2 DEF TypeOK
    <3>4. j \in IoJobs(Tokens, Slots) /\ j \in IoJobs(Tokens \cup {NONE}, Slots \cup {NONE})
      BY <3>1, <3>3 DEF IoJobs
    <3>5. j \in Jobs /\ j \in JobsAt("want_enqueue") /\ "want_enqueue" \in Places
      BY <3>4 DEF Jobs, JobsAt, Places
    <3>6. job' = [job EXCEPT ![t] = j]
      BY <2>3 DEF TypeOK
    <3> HIDE DEF j
    <3>7. /\ pc' \in [Threads -> Places]
          /\ job' \in [Threads -> Jobs] /\ \A u \in Threads : job'[u] \in JobsAt(pc'[u])
      BY <2>3, <3>5, <3>6, GoToType
    <3>8. QED
      BY <2>1, <3>3, <3>7 DEF TypeOK, Idle
  <2>4. QED
    BY <1>5, <2>2, <2>3 DEF allocate_slot
<1>6. CASE enqueue(t)
  <2> DEFINE e == [slot |-> job[t].slot, token |-> job[t].token, desc |-> job[t].desc]
             k == job[t].kind
  <2>1. /\ GoTo(t, "in_enqueue", "idle") /\ job' = [job EXCEPT ![t] = NoJob]
        /\ queue' = [queue EXCEPT ![b][k] = Append(@, e)]
        /\ UNCHANGED <<free, allocated, completed, drain>>
    BY <1>6 DEF enqueue
  <2>2. e \in Entries /\ k \in Kinds
    BY <2>1, IoJobFields DEF GoTo, Entries
  <2> HIDE DEF e, k
  <2>3. Append(queue[b][k], e) \in Seq(Entries)
    BY <1>0, <2>2 DEF TypeOK
  <2>4. queue' \in [Boxes -> [Kinds -> Seq(Entries)]]
    BY <1>0, <2>1, <2>2, <2>3 DEF TypeOK
  <2>5. /\ pc' \in [Threads -> Places]
        /\ job' \in [Threads -> Jobs] /\ \A u \in Threads : job'[u] \in JobsAt(pc'[u])
    BY <1>0, <2>1, GoToType
  <2>6. QED
    BY <2>1, <2>4, <2>5 DEF TypeOK, Idle
<1>7. CASE ipc_waitfor(t)
  <2>1. /\ GoTo(t, "in_wait", "idle") /\ job' = [job EXCEPT ![t] = NoJob]
        /\ UNCHANGED <<free, queue, drain>>
    BY <1>7 DEF ipc_waitfor
  <2>2. allocated' \in [Boxes -> SUBSET Tokens] /\ completed' \in [Boxes -> SUBSET Tokens]
    <3> DEFINE F == FreedTokens(t, completed[b] \cap job[t].wait)
    <3>1. \/ /\ allocated' = [allocated EXCEPT ![b] = @ \ F]
             /\ completed' = [completed EXCEPT ![b] = @ \ F]
          \/ UNCHANGED <<allocated, completed>>
      BY <1>7 DEF ipc_waitfor
    <3> HIDE DEF F
    <3>2. allocated[b] \ F \in SUBSET Tokens /\ completed[b] \ F \in SUBSET Tokens
      BY <1>0 DEF TypeOK
    <3> DEFINE A == allocated[b] \ F
               C == completed[b] \ F
    <3>3. CASE allocated' = [allocated EXCEPT ![b] = A] /\ completed' = [completed EXCEPT ![b] = C]
      <4> HIDE DEF A, C
      <4>1. A \in SUBSET Tokens /\ C \in SUBSET Tokens
        BY <3>2 DEF A, C
      <4>2. QED
        BY <3>3, <4>1 DEF TypeOK
    <3>4. CASE UNCHANGED <<allocated, completed>>
      BY <3>4 DEF TypeOK
    <3>5. QED
      BY <3>1, <3>3, <3>4
  <2>3. /\ pc' \in [Threads -> Places]
        /\ job' \in [Threads -> Jobs] /\ \A u \in Threads : job'[u] \in JobsAt(pc'[u])
    BY <1>0, <2>1, GoToType
  <2>4. QED
    BY <2>1, <2>2, <2>3 DEF TypeOK, Idle
<1>8. QED
  BY <1>1, <1>2, <1>3, <1>4, <1>5, <1>6, <1>7

\* A pass of the drain loop that goes on keeps the box.
LEMMA ContinueType ==
  ASSUME TypeOK, Draining, NEW first \in Slots \cup {NONE}, Continue(first)
  PROVE  /\ drain' \in [box : Boxes \cup {ANY}, first : Slots \cup {NONE}, tick : BOOLEAN]
         /\ drain'.box = drain.box /\ drain.box \in Boxes
         /\ drain'.box = ANY => drain' = Idle
<1>1. drain.box \in Boxes
  BY DEF TypeOK, Draining
<1>2. drain' \in [box : Boxes \cup {ANY}, first : Slots \cup {NONE}, tick : BOOLEAN]
  BY DEF TypeOK, Continue
<1>3. drain'.box = drain.box
  BY DEF TypeOK, Continue
<1>4. QED
  BY <1>1, <1>2, <1>3, IpcAssumption

LEMMA TypeDrain ==
  ASSUME TypeOK, Drain
  PROVE  TypeOK'
<1>0. Idle \in [box : Boxes \cup {ANY}, first : Slots \cup {NONE}, tick : BOOLEAN]
  BY DEF Idle
<1>1. CASE drain_stop
  BY <1>0, <1>1 DEF drain_stop, TypeOK, Idle
<1>2. CASE drain_seen
  <2>1. drain.box \in Boxes /\ Rotated(queue[drain.box]["send"]) \in Seq(Entries)
    BY <1>2, SendType DEF drain_seen, SendQueue
  <2>2. /\ queue' = [queue EXCEPT ![drain.box]["send"] = Rotated(@)] /\ drain' = Idle
        /\ UNCHANGED <<free, allocated, completed, pc, job>>
    BY <1>2 DEF drain_seen
  <2>3. queue' \in [Boxes -> [Kinds -> Seq(Entries)]]
    BY <2>1, <2>2 DEF TypeOK, Kinds
  <2>4. QED
    BY <1>0, <2>2, <2>3 DEF TypeOK, Idle
<1>3. CASE Visit
  <2>1. CanDequeue /\ Draining
    BY <1>3 DEF Visit, CanDequeue
  <2>2. /\ drain.box \in Boxes /\ First \in Slots \cup {NONE} /\ Send \in Entries
        /\ Tail(queue[drain.box]["send"]) \in Seq(Entries)
        /\ Rotated(queue[drain.box]["send"]) \in Seq(Entries)
    BY <2>1, SendType DEF SendQueue
  <2>3. CASE drain_drop
    <3>1. /\ queue' = [queue EXCEPT ![drain.box]["send"] = Tail(@)]
          /\ Continue(First) /\ UNCHANGED <<free, allocated, completed, pc, job>>
      BY <2>3 DEF drain_drop
    <3>2. queue' \in [Boxes -> [Kinds -> Seq(Entries)]]
      BY <2>2, <3>1 DEF TypeOK, Kinds
    <3>3. QED
      BY <2>1, <2>2, <3>1, <3>2, ContinueType DEF TypeOK, Idle
  <2>4. CASE drain_unmatched
    <3>1. /\ queue' = [queue EXCEPT ![drain.box]["send"] = Rotated(@)]
          /\ Continue(First) /\ UNCHANGED <<free, allocated, completed, pc, job>>
      BY <2>4 DEF drain_unmatched
    <3>2. queue' \in [Boxes -> [Kinds -> Seq(Entries)]]
      BY <2>2, <3>1 DEF TypeOK, Kinds
    <3>3. QED
      BY <2>1, <2>2, <3>1, <3>2, ContinueType DEF TypeOK, Idle
  <2>5. ASSUME Matched, NEW s \in Seq(Entries), NEW r \in Seq(Entries),
               queue' = [queue EXCEPT ![drain.box]["send"] = s, ![To]["recv"] = r]
        PROVE  queue' \in [Boxes -> [Kinds -> Seq(Entries)]]
    <3>1. To \in Boxes
      BY <2>5, RecvType
    <3>2. [queue EXCEPT ![drain.box]["send"] = s] \in [Boxes -> [Kinds -> Seq(Entries)]]
      BY <2>2, <2>5 DEF TypeOK, Kinds
    <3>3. QED
      BY <2>5, <3>1, <3>2 DEF Kinds
  <2>6. CASE drain_drop_recv
    <3>1. Matched
      BY <2>6 DEF drain_drop_recv
    <3>2. queue' = [queue EXCEPT ![drain.box]["send"] = Rotated(queue[drain.box]["send"]),
                                 ![To]["recv"] = Without(queue[To]["recv"], FirstMatch)]
      BY <2>2, <2>6, <3>1, RecvType DEF drain_drop_recv, TypeOK, Kinds
    <3>3. queue' \in [Boxes -> [Kinds -> Seq(Entries)]]
      BY <2>2, <2>5, <3>1, <3>2, RecvType
    <3>4. Continue(First) /\ UNCHANGED <<free, allocated, completed, pc, job>>
      BY <2>6 DEF drain_drop_recv
    <3>5. QED
      BY <2>1, <2>2, <3>3, <3>4, ContinueType DEF TypeOK, Idle
  <2>7. CASE drain_busy
    <3>1. Matched
      BY <2>7 DEF drain_busy
    <3> DEFINE r == Append(Without(queue[To]["recv"], FirstMatch), Recv)
    <3>2. queue' = [queue EXCEPT ![drain.box]["send"] = Rotated(queue[drain.box]["send"]),
                                 ![To]["recv"] = r]
      BY <2>2, <2>7, <3>1, RecvType DEF drain_busy, TypeOK, Kinds
    <3>3. r \in Seq(Entries)
      BY <3>1, RecvType
    <3> HIDE DEF r
    <3>4. queue' \in [Boxes -> [Kinds -> Seq(Entries)]]
      BY <2>2, <2>5, <3>1, <3>2, <3>3
    <3>5. Continue(First) /\ UNCHANGED <<free, allocated, completed, pc, job>>
      BY <2>7 DEF drain_busy
    <3>6. QED
      BY <2>1, <2>2, <3>4, <3>5, ContinueType DEF TypeOK, Idle
  <2>8. CASE ipc_deliver
    <3>1. Matched
      BY <2>8 DEF ipc_deliver
    <3>2. To \in Boxes /\ Recv \in Entries
      BY <3>1, RecvType
    <3>3. queue' = [queue EXCEPT ![drain.box]["send"] = Tail(queue[drain.box]["send"]),
                                 ![To]["recv"] = Without(queue[To]["recv"], FirstMatch)]
      BY <2>2, <2>8, <3>2 DEF ipc_deliver, Left, TypeOK, Kinds
    <3>4. queue' \in [Boxes -> [Kinds -> Seq(Entries)]]
      BY <2>2, <2>5, <3>1, <3>3, RecvType
    <3>5. free' \in [Boxes -> [Kinds -> SUBSET Slots]]
      <4> DEFINE f == [free EXCEPT ![drain.box]["send"] = @ \cup {Send.slot}]
      <4>1. Send.slot \in Slots /\ Recv.slot \in Slots
        BY <2>2, <3>2 DEF Entries
      <4>2. f \in [Boxes -> [Kinds -> SUBSET Slots]]
        BY <2>2, <4>1 DEF TypeOK, Kinds
      <4>3. free' = [f EXCEPT ![To]["recv"] = @ \cup {Recv.slot}]
        BY <2>8 DEF ipc_deliver, Freed
      <4> HIDE DEF f
      <4>4. QED
        BY <3>2, <4>1, <4>2, <4>3 DEF Kinds
    <3>6. completed' \in [Boxes -> SUBSET Tokens]
      BY <2>2, <2>8, <3>2 DEF ipc_deliver, TypeOK, Entries
    <3>7. NextFirst \in Slots \cup {NONE}
      BY <2>2 DEF NextFirst
    <3>8. Continue(NextFirst) /\ UNCHANGED <<allocated, pc, job>>
      BY <2>8 DEF ipc_deliver
    <3>9. QED
      BY <2>1, <3>4, <3>5, <3>6, <3>7, <3>8, ContinueType DEF TypeOK, Idle
  <2>9. drain_drop \/ drain_unmatched \/ drain_drop_recv \/ drain_busy \/ ipc_deliver
    BY <1>3 DEF Drain, drain_stop, drain_seen, Visit, CanDequeue
  <2>10. QED
    BY <2>3, <2>4, <2>6, <2>7, <2>8, <2>9
<1>4. QED
  BY <1>1, <1>2, <1>3 DEF Drain, drain_drop, drain_unmatched, drain_drop_recv, drain_busy, ipc_deliver, Matched

LEMMA TypeNext == TypeOK /\ [Next]_vars => TypeOK'
<1> SUFFICES ASSUME TypeOK, [Next]_vars PROVE TypeOK'
  OBVIOUS
<1>1. CASE \E b \in Boxes : ipc_drain_queue(b)
  BY <1>1, IpcAssumption DEF ipc_drain_queue, TypeOK, Idle
<1>2. CASE UNCHANGED vars
  BY <1>2 DEF vars, TypeOK, Idle
<1>3. QED
  BY <1>1, <1>2, TypeThread, TypeDrain DEF Next

\* Every step keeps the types, whatever the threads ask for and wherever they are
\* preempted: what the core takes out of a queue is a request.
THEOREM IpcTypes == Spec => []TypeOK
<1>1. QED
  BY TypeInit, TypeNext, PTL DEF Spec

\* A step of thread t that is not a step of the core.
ThreadStep(t) ==
  \/ ipc_io(t) \/ ipc_wait(t) \/ lock(t) \/ ipc_allocate_token(t)
  \/ allocate_slot(t) \/ enqueue(t) \/ ipc_waitfor(t)

LEMMA LocksNext == TypeOK /\ LocksExclusive /\ [Next]_vars => LocksExclusive'
<1> SUFFICES ASSUME TypeOK, LocksExclusive, [Next]_vars PROVE LocksExclusive'
  OBVIOUS
<1>1. ASSUME UNCHANGED <<pc, job>> PROVE LocksExclusive'
  BY <1>1 DEF LocksExclusive, LockOf
<1>2. ASSUME NEW t \in Threads, ThreadStep(t) PROVE LocksExclusive'
  <2>1. \A u \in Threads \ {t} : pc'[u] = pc[u] /\ job'[u] = job[u]
    <3>1. CASE ipc_io(t) \/ ipc_wait(t)
      BY <3>1 DEF ipc_io, ipc_wait, GoTo, TypeOK
    <3>2. CASE lock(t)
      BY <3>2 DEF lock, GoTo, TypeOK
    <3>3. CASE ipc_allocate_token(t)
      BY <3>3 DEF ipc_allocate_token, GoTo, TypeOK
    <3>4. CASE allocate_slot(t)
      BY <3>4 DEF allocate_slot, GoTo, TypeOK
    <3>5. CASE enqueue(t) \/ ipc_waitfor(t)
      BY <3>5 DEF enqueue, ipc_waitfor, GoTo, TypeOK
    <3>6. QED
      BY <1>2, <3>1, <3>2, <3>3, <3>4, <3>5 DEF ThreadStep
  <2>2. \A u \in Threads \ {t} : LockOf(u)' = LockOf(u)
    BY <2>1 DEF LockOf, TypeOK
  <2>3. LockOf(t)' = "none" \/ ~Taken(BoxOf[t], LockOf(t)')
    <3>1. CASE ipc_io(t) \/ ipc_wait(t)
      BY <3>1 DEF ipc_io, ipc_wait, GoTo, LockOf, TypeOK
    <3>2. CASE lock(t)
      BY <3>2 DEF lock, GoTo, LockOf, TypeOK
    <3>3. CASE ipc_allocate_token(t) \/ allocate_slot(t) \/ enqueue(t) \/ ipc_waitfor(t)
      <4>1. \E to \in {"idle", "want_slot", "want_enqueue"} : pc' = [pc EXCEPT ![t] = to]
        BY <3>3 DEF ipc_allocate_token, allocate_slot, enqueue, ipc_waitfor, GoTo
      <4>2. QED
        BY <4>1 DEF LockOf, TypeOK
    <3>4. QED
      BY <1>2, <3>1, <3>2, <3>3 DEF ThreadStep
  <2>4. QED
    BY <2>2, <2>3 DEF LocksExclusive, Taken
<1>3. CASE Drain \/ (\E b \in Boxes : ipc_drain_queue(b)) \/ UNCHANGED vars
  BY <1>1, <1>3 DEF Drain, drain_stop, drain_seen, drain_drop, drain_unmatched, drain_drop_recv,
                    drain_busy, ipc_deliver, ipc_drain_queue, vars
<1>4. QED
  BY <1>2, <1>3 DEF Next, ThreadStep

\* Two threads of a box never hold the same lock, for any number of threads.
THEOREM IpcLocks == Spec => []LocksExclusive
<1>1. Init => LocksExclusive
  BY DEF Init, LocksExclusive, LockOf
<1>2. QED
  BY <1>1, LocksNext, IpcTypes, PTL DEF Spec

\* One step, for TokensStable.
LEMMA StableStep ==
  ASSUME TypeOK, LocksExclusive, Next, NEW t \in Threads, LockOf(t) = "tokens", pc'[t] = pc[t]
  PROVE  /\ allocated'[BoxOf[t]] = allocated[BoxOf[t]]
         /\ completed'[BoxOf[t]] = completed[BoxOf[t]]
<1>1. ASSUME NEW u \in Threads, ipc_allocate_token(u) \/ ipc_waitfor(u)
      PROVE  /\ allocated'[BoxOf[t]] = allocated[BoxOf[t]]
             /\ completed'[BoxOf[t]] = completed[BoxOf[t]]
  <2>1. pc[u] \in {"in_token", "in_wait"} /\ pc'[u] # pc[u]
    BY <1>1 DEF ipc_allocate_token, ipc_waitfor, GoTo, TypeOK
  <2>2. LockOf(u) = "tokens"
    BY <2>1 DEF LockOf
  <2>3. BoxOf[u] # BoxOf[t]
    BY <2>1, <2>2 DEF LocksExclusive
  <2>4. /\ (\E x : allocated' = [allocated EXCEPT ![BoxOf[u]] = x]) \/ UNCHANGED allocated
        /\ (\E x : completed' = [completed EXCEPT ![BoxOf[u]] = x]) \/ UNCHANGED completed
    BY <1>1 DEF ipc_allocate_token, ipc_waitfor
  <2>5. QED
    BY <2>3, <2>4, IpcAssumption DEF TypeOK
<1>2. CASE ipc_deliver
  <2>1. BoxOf[t] # drain.box /\ BoxOf[t] # To
    BY <1>2 DEF ipc_deliver, TokensBusy, Taken
  <2>2. QED
    BY <1>2, <2>1, IpcAssumption DEF ipc_deliver, TypeOK
<1>3. CASE UNCHANGED <<allocated, completed>>
  BY <1>3
<1>4. QED
  BY <1>1, <1>2, <1>3 DEF Next, ipc_io, ipc_wait, lock, allocate_slot, enqueue, Drain, drain_stop, drain_seen,
       drain_drop, drain_unmatched, drain_drop_recv, drain_busy, ipc_drain_queue

\* For any boxes and threads: while a thread is inside a section of tokens_lock,
\* no other thread and no delivery of the core changes the tokens of its box.
THEOREM TokensAreStable == Spec => TokensStable
<1> DEFINE Stable == \A t \in Threads :
             LockOf(t) = "tokens" /\ pc'[t] = pc[t] =>
               /\ allocated'[BoxOf[t]] = allocated[BoxOf[t]]
               /\ completed'[BoxOf[t]] = completed[BoxOf[t]]
<1>1. TypeOK /\ LocksExclusive /\ [Next]_vars => [Stable]_vars
  BY StableStep
<1>2. QED
  BY <1>1, IpcTypes, IpcLocks, PTL DEF Spec, TokensStable

----------------------------------------------------------------------------
(***************************************************************************)
(* The inductive invariant.                                                *)
(***************************************************************************)

\* The threads of box b that make a request of kind k.
Makers(b, k) == {t \in Threads : BoxOf[t] = b /\ job[t].call = "io" /\ job[t].kind = k}

\* The slots of a pool: those of the queue are different and not free, and so
\* are those that threads are about to enqueue.
SlotsApart(b, k) ==
  /\ \A i, j \in DOMAIN queue[b][k] : queue[b][k][i].slot = queue[b][k][j].slot => i = j
  /\ \A i \in DOMAIN queue[b][k] : queue[b][k][i].slot \notin free[b][k]
  /\ \A t \in Makers(b, k) : job[t].slot # NONE =>
       /\ job[t].slot \notin free[b][k]
       /\ \A i \in DOMAIN queue[b][k] : queue[b][k][i].slot # job[t].slot
       /\ \A u \in Makers(b, k) : job[u].slot = job[t].slot => u = t

SlotInv == \A b \in Boxes, k \in Kinds : SlotsApart(b, k)

\* The tokens of a box, over both kinds: those in use are different, allocated
\* and not completed.  A completed token is allocated, so that a clear bit of
\* allocated_tokens is a token that no one waits for.
TokensApart(b) ==
  /\ completed[b] \subseteq allocated[b]
  /\ \A k, l \in Kinds : \A i \in DOMAIN queue[b][k], j \in DOMAIN queue[b][l] :
       queue[b][k][i].token = queue[b][l][j].token => k = l /\ i = j
  /\ \A k \in Kinds : \A i \in DOMAIN queue[b][k] :
       queue[b][k][i].token \in allocated[b] \ completed[b]
  /\ \A k \in Kinds : \A t \in Makers(b, k) : job[t].token # NONE =>
       /\ job[t].token \in allocated[b] \ completed[b]
       /\ \A l \in Kinds : \A i \in DOMAIN queue[b][l] : queue[b][l][i].token # job[t].token
       /\ \A l \in Kinds : \A u \in Makers(b, l) : job[u].token = job[t].token => u = t

TokenInv == \A b \in Boxes : TokensApart(b)

\* first_slot is never a slot that the loop has given back.
FirstInv == Draining => drain.first \notin free[drain.box]["send"]

----------------------------------------------------------------------------
(***************************************************************************)
(* Queues.                                                                 *)
(***************************************************************************)

\* Sequence r has the elements of q in some order, except the one at place x:
\* f tells where each of them was.  With x = 0 nothing is left out.
Picks(q, r, x, f) ==
  /\ f \in [DOMAIN r -> DOMAIN q \ {x}]
  /\ \A i, j \in DOMAIN r : f[i] = f[j] => i = j
  /\ \A i \in DOMAIN r : r[i] = q[f[i]]
  /\ \A j \in DOMAIN q \ {x} : \E i \in DOMAIN r : f[i] = j

LEMMA PicksAll ==
  ASSUME NEW S, NEW q \in Seq(S)
  PROVE  \E f : Picks(q, q, 0, f)
<1>1. Picks(q, q, 0, [i \in DOMAIN q |-> i])
  BY DEF Picks
<1>2. QED
  BY <1>1

\* A slot that is dequeued for good.
LEMMA PicksTail ==
  ASSUME NEW S, NEW q \in Seq(S), q # <<>>
  PROVE  \E f : Picks(q, Tail(q), 1, f)
<1>1. DOMAIN q = 1 .. Len(q) /\ DOMAIN Tail(q) = 1 .. Len(q) - 1 /\ Len(q) \in Nat \ {0}
  BY EmptySeq
<1>2. \A i \in DOMAIN Tail(q) : Tail(q)[i] = q[i + 1]
  BY <1>1
<1> DEFINE f == [i \in DOMAIN Tail(q) |-> i + 1]
<1>3. \A j \in DOMAIN q \ {1} : \E i \in DOMAIN Tail(q) : f[i] = j
  <2> SUFFICES ASSUME NEW j \in DOMAIN q \ {1} PROVE \E i \in DOMAIN Tail(q) : f[i] = j
    OBVIOUS
  <2>1. j - 1 \in DOMAIN Tail(q) /\ f[j - 1] = j
    BY <1>1
  <2>2. QED
    BY <2>1
<1>4. Picks(q, Tail(q), 1, f)
  BY <1>1, <1>2, <1>3 DEF Picks
<1>5. QED
  BY <1>4

\* A slot that is put back at the end.
LEMMA PicksRotated ==
  ASSUME NEW S, NEW q \in Seq(S), q # <<>>
  PROVE  /\ \E f : Picks(q, Rotated(q), 0, f)
         /\ Len(Rotated(q)) = Len(q)
         /\ \A i \in DOMAIN Rotated(q) : Rotated(q)[i] = IF i = Len(q) THEN q[1] ELSE q[i + 1]
<1> DEFINE r == Rotated(q)
<1>1. DOMAIN q = 1 .. Len(q) /\ Len(q) \in Nat \ {0}
  BY EmptySeq
<1>2. Tail(q) \in Seq(S) /\ Len(Tail(q)) = Len(q) - 1 /\ Head(q) \in S /\ Head(q) = q[1]
  BY <1>1
<1>3. Len(r) = Len(q) /\ DOMAIN r = 1 .. Len(q)
  BY <1>1, <1>2 DEF Rotated
<1>4. \A i \in DOMAIN r : r[i] = IF i = Len(q) THEN q[1] ELSE q[i + 1]
  BY <1>1, <1>2, <1>3 DEF Rotated
<1> HIDE DEF r
<1> DEFINE f == [i \in DOMAIN r |-> IF i = Len(q) THEN 1 ELSE i + 1]
<1>5. \A j \in DOMAIN q \ {0} : \E i \in DOMAIN r : f[i] = j
  <2> SUFFICES ASSUME NEW j \in DOMAIN q \ {0} PROVE \E i \in DOMAIN r : f[i] = j
    OBVIOUS
  <2>1. CASE j = 1
    BY <1>1, <1>3, <2>1
  <2>2. CASE j # 1
    <3>1. j - 1 \in DOMAIN r /\ f[j - 1] = j
      BY <1>1, <1>3, <2>2
    <3>2. QED
      BY <3>1
  <2>3. QED
    BY <2>1, <2>2
<1>6. Picks(q, r, 0, f)
  BY <1>1, <1>3, <1>4, <1>5 DEF Picks
<1>7. QED
  BY <1>3, <1>4, <1>6 DEF r

\* What Without leaves.
LEMMA WithoutElements ==
  ASSUME NEW S, NEW q \in Seq(S), NEW x \in DOMAIN q
  PROVE  /\ Without(q, x) \in Seq(S)
         /\ Len(Without(q, x)) = Len(q) - 1
         /\ \A i \in 1 .. Len(q) - 1 : Without(q, x)[i] = q[IF i < x THEN i ELSE i + 1]
<1>1. x \in 1 .. Len(q) /\ Len(q) \in Nat
  OBVIOUS
<1> DEFINE a == SubSeq(q, 1, x - 1)
           c == SubSeq(q, x + 1, Len(q))
<1>2. a \in Seq(S) /\ Len(a) = x - 1 /\ \A i \in 1 .. x - 1 : a[i] = q[i]
  BY <1>1
<1>3. c \in Seq(S) /\ Len(c) = Len(q) - x /\ \A i \in 1 .. Len(q) - x : c[i] = q[x + i]
  BY <1>1
<1>4. Without(q, x) = a \o c
  BY DEF Without
<1> HIDE DEF a, c
<1>5. a \o c \in Seq(S) /\ Len(a \o c) = Len(q) - 1
  BY <1>1, <1>2, <1>3
<1>6. ASSUME NEW i \in 1 .. Len(q) - 1 PROVE (a \o c)[i] = q[IF i < x THEN i ELSE i + 1]
  <2>1. CASE i < x
    BY <1>1, <1>2, <1>3, <2>1
  <2>2. CASE ~(i < x)
    <3>1. (a \o c)[i] = c[i - (x - 1)]
      BY <1>1, <1>2, <1>3, <2>2
    <3>2. i - (x - 1) \in 1 .. Len(q) - x /\ x + (i - (x - 1)) = i + 1
      BY <1>1, <2>2
    <3>3. QED
      BY <1>3, <2>2, <3>1, <3>2
  <2>3. QED
    BY <2>1, <2>2
<1>7. QED
  BY <1>4, <1>5, <1>6

\* A request in the middle of a queue that is dequeued for good.
LEMMA PicksWithout ==
  ASSUME NEW S, NEW q \in Seq(S), NEW x \in DOMAIN q
  PROVE  \E f : Picks(q, Without(q, x), x, f)
<1> DEFINE r == Without(q, x)
<1>0. /\ r \in Seq(S) /\ Len(r) = Len(q) - 1
      /\ \A i \in 1 .. Len(q) - 1 : r[i] = q[IF i < x THEN i ELSE i + 1]
  BY WithoutElements
<1> HIDE DEF r
<1>1. /\ DOMAIN q = 1 .. Len(q) /\ Len(q) \in Nat /\ x \in 1 .. Len(q)
      /\ DOMAIN r = 1 .. Len(q) - 1
      /\ \A i \in DOMAIN r : r[i] = q[IF i < x THEN i ELSE i + 1]
  BY <1>0
<1> DEFINE f == [i \in DOMAIN r |-> IF i < x THEN i ELSE i + 1]
<1>2. \A j \in DOMAIN q \ {x} : \E i \in DOMAIN r : f[i] = j
  <2> SUFFICES ASSUME NEW j \in DOMAIN q \ {x} PROVE \E i \in DOMAIN r : f[i] = j
    OBVIOUS
  <2> DEFINE i == IF j < x THEN j ELSE j - 1
  <2>1. i \in DOMAIN r /\ f[i] = j
    BY <1>1
  <2>2. QED
    BY <2>1
<1>3. Picks(q, r, x, f)
  BY <1>1, <1>2 DEF Picks
<1>4. QED
  BY <1>3 DEF r

\* One that is dequeued and put back at the end.
LEMMA PicksMoved ==
  ASSUME NEW S, NEW q \in Seq(S), NEW x \in DOMAIN q
  PROVE  \E f : Picks(q, Append(Without(q, x), q[x]), 0, f)
<1> DEFINE w == Without(q, x)
           e == q[x]
           r == Append(w, e)
<1>1. /\ DOMAIN q = 1 .. Len(q) /\ Len(q) \in Nat \ {0} /\ x \in 1 .. Len(q)
      /\ q[x] \in S
  OBVIOUS
<1>2. /\ w \in Seq(S) /\ Len(w) = Len(q) - 1
      /\ \A i \in 1 .. Len(q) - 1 : w[i] = q[IF i < x THEN i ELSE i + 1]
  BY WithoutElements
<1> HIDE DEF w, e
<1>3. /\ r \in Seq(S) /\ Len(r) = Len(q) /\ r[Len(q)] = e
      /\ \A i \in 1 .. Len(q) - 1 : r[i] = w[i]
  <2>1. e \in S
    BY <1>1 DEF e
  <2>2. w \in Seq(S)
    BY <1>2
  <2>3. /\ r \in Seq(S) /\ Len(r) = Len(w) + 1 /\ r[Len(w) + 1] = e
        /\ \A i \in 1 .. Len(w) : r[i] = w[i]
    BY <2>1, <2>2, AppendProperties
  <2>4. Len(q) - 1 + 1 = Len(q)
    BY <1>1
  <2> HIDE DEF r
  <2>5. QED
    BY <1>2, <2>3, <2>4
<1> HIDE DEF r
<1>4. /\ DOMAIN r = 1 .. Len(q)
      /\ \A i \in DOMAIN r : r[i] = q[IF i = Len(q) THEN x ELSE IF i < x THEN i ELSE i + 1]
  BY <1>1, <1>2, <1>3 DEF e
<1> DEFINE f == [i \in DOMAIN r |-> IF i = Len(q) THEN x ELSE IF i < x THEN i ELSE i + 1]
<1>5. \A j \in DOMAIN q \ {0} : \E i \in DOMAIN r : f[i] = j
  <2> SUFFICES ASSUME NEW j \in DOMAIN q \ {0} PROVE \E i \in DOMAIN r : f[i] = j
    OBVIOUS
  <2> DEFINE i == IF j = x THEN Len(q) ELSE IF j < x THEN j ELSE j - 1
  <2>1. i \in DOMAIN r /\ f[i] = j
    BY <1>1, <1>4
  <2>2. QED
    BY <2>1
<1>6. f \in [DOMAIN r -> DOMAIN q \ {0}] /\ \A i, j \in DOMAIN r : f[i] = f[j] => i = j
  BY <1>1, <1>4
<1>7. Picks(q, r, 0, f)
  BY <1>4, <1>5, <1>6 DEF Picks
<1>8. QED
  BY <1>7 DEF r, w, e

\* A request that is enqueued.
LEMMA AppendElements ==
  ASSUME NEW S, NEW q \in Seq(S), NEW e \in S
  PROVE  \A i \in DOMAIN Append(q, e) :
           \/ i \in DOMAIN q /\ Append(q, e)[i] = q[i]
           \/ i = Len(q) + 1 /\ Append(q, e)[i] = e /\ i \notin DOMAIN q
<1> DEFINE r == Append(q, e)
<1>1. /\ r \in Seq(S) /\ Len(r) = Len(q) + 1 /\ r[Len(q) + 1] = e
      /\ \A i \in 1 .. Len(q) : r[i] = q[i]
  BY AppendProperties
<1> HIDE DEF r
<1>2. DOMAIN r = 1 .. Len(q) + 1 /\ DOMAIN q = 1 .. Len(q) /\ Len(q) \in Nat
  BY <1>1
<1>3. \A i \in DOMAIN r : \/ i \in DOMAIN q /\ r[i] = q[i]
                          \/ i = Len(q) + 1 /\ r[i] = e /\ i \notin DOMAIN q
  BY <1>1, <1>2
<1>4. QED
  BY <1>3 DEF r

\* The place of the request that a delivery takes out of a queue.
DeliveredAt(b, k) ==
  IF k = "send" /\ b = drain.box THEN 1 ELSE IF k = "recv" /\ b = To THEN FirstMatch ELSE 0

\* A delivery takes the two requests out and leaves the others.
LEMMA DeliverTakes ==
  ASSUME TypeOK, ipc_deliver, NEW b \in Boxes, NEW k \in Kinds
  PROVE  \E f : Picks(queue[b][k], queue'[b][k], DeliveredAt(b, k), f)
<1>1. CanDequeue /\ Matched
  BY DEF ipc_deliver, Matched, Visit
<1>2. drain.box \in Boxes /\ SendQueue \in Seq(Entries) /\ SendQueue # <<>>
  BY <1>1, SendType DEF CanDequeue
<1>3. To \in Boxes /\ queue[To]["recv"] \in Seq(Entries) /\ FirstMatch \in DOMAIN queue[To]["recv"]
  BY <1>1, RecvType
<1>4. queue[b][k] \in Seq(Entries)
  BY DEF TypeOK
<1>5. queue'[b][k] = IF k = "send" /\ b = drain.box THEN Tail(queue[b][k])
                     ELSE IF k = "recv" /\ b = To THEN Without(queue[b][k], FirstMatch)
                     ELSE queue[b][k]
  BY <1>2, <1>3 DEF ipc_deliver, Left, TypeOK, Kinds
<1>6. CASE k = "send" /\ b = drain.box
  BY <1>2, <1>5, <1>6, PicksTail DEF DeliveredAt, SendQueue
<1>7. CASE k = "recv" /\ b = To
  BY <1>3, <1>5, <1>7, PicksWithout DEF DeliveredAt
<1>8. CASE ~(k = "send" /\ b = drain.box) /\ ~(k = "recv" /\ b = To)
  BY <1>4, <1>5, <1>8, PicksAll DEF DeliveredAt
<1>9. QED
  BY <1>6, <1>7, <1>8

\* Any other pass of the loop leaves out only a request that is not well formed.
LEMMA DrainKeeps ==
  ASSUME TypeOK, Drain, ~ipc_deliver, NEW b \in Boxes, NEW k \in Kinds
  PROVE  \E x, f : /\ Picks(queue[b][k], queue'[b][k], x, f)
                   /\ x \in DOMAIN queue[b][k] => ~WellFormed(k, queue[b][k][x])
<1>1. queue[b][k] \in Seq(Entries) /\ queue \in [Boxes -> [Kinds -> Seq(Entries)]]
  BY DEF TypeOK
<1>2. CASE queue'[b][k] = queue[b][k]
  <2>1. PICK f : Picks(queue[b][k], queue'[b][k], 0, f)
    BY <1>1, <1>2, PicksAll
  <2>2. 0 \notin DOMAIN queue[b][k]
    BY <1>1
  <2>3. QED
    BY <2>1, <2>2
<1>3. ASSUME CanDequeue
      PROVE  /\ drain.box \in Boxes /\ queue[drain.box]["send"] \in Seq(Entries)
             /\ queue[drain.box]["send"] # <<>>
  BY <1>3, SendType DEF CanDequeue, SendQueue
<1>4. CASE CanDequeue /\ b = drain.box /\ k = "send" /\ queue'[b][k] = Rotated(queue[b][k])
  <2>1. PICK f : Picks(queue[b][k], queue'[b][k], 0, f)
    BY <1>3, <1>4, PicksRotated
  <2>2. 0 \notin DOMAIN queue[b][k]
    BY <1>1
  <2>3. QED
    BY <2>1, <2>2
<1>5. CASE drain_drop
  <2>1. /\ CanDequeue /\ ~Deliverable
        /\ queue' = [queue EXCEPT ![drain.box]["send"] = Tail(@)]
    BY <1>5 DEF drain_drop, Visit
  <2>2. CASE b = drain.box /\ k = "send"
    <3>1. queue'[b][k] = Tail(queue[b][k])
      BY <1>1, <2>1, <2>2
    <3>2. PICK f : Picks(queue[b][k], queue'[b][k], 1, f)
      BY <1>3, <2>1, <2>2, <3>1, PicksTail
    <3>3. queue[b][k][1] = Send
      BY <1>3, <2>1, <2>2 DEF Send, SendQueue
    <3>4. QED
      BY <2>1, <2>2, <3>2, <3>3 DEF WellFormed, Deliverable, To
  <2>3. CASE ~(b = drain.box /\ k = "send")
    BY <1>1, <1>2, <2>1, <2>3
  <2>4. QED
    BY <2>2, <2>3
<1>6. CASE drain_unmatched \/ drain_seen
  <2>1. CanDequeue /\ queue' = [queue EXCEPT ![drain.box]["send"] = Rotated(@)]
    BY <1>6 DEF drain_unmatched, drain_seen, Visit
  <2>2. CASE b = drain.box /\ k = "send"
    BY <1>1, <1>4, <2>1, <2>2
  <2>3. CASE ~(b = drain.box /\ k = "send")
    BY <1>1, <1>2, <2>1, <2>3
  <2>4. QED
    BY <2>2, <2>3
<1>7. CASE drain_drop_recv \/ drain_busy
  <2>1. CanDequeue /\ Matched
    BY <1>7 DEF drain_drop_recv, drain_busy, Matched, Visit
  <2>2. To \in Boxes /\ queue[To]["recv"] \in Seq(Entries) /\ FirstMatch \in DOMAIN queue[To]["recv"]
    BY <2>1, RecvType
  <2> DEFINE w == Without(queue[To]["recv"], FirstMatch)
  <2>3. PICK r : /\ queue' = [queue EXCEPT ![drain.box]["send"] = Rotated(@), ![To]["recv"] = r]
                 /\ \/ r = w /\ ~Recv.desc.accessible
                    \/ r = Append(w, Recv)
    <3>1. CASE drain_drop_recv
      <4>1. queue' = [queue EXCEPT ![drain.box]["send"] = Rotated(@), ![To]["recv"] = w]
        BY <1>1, <1>3, <2>1, <2>2, <3>1 DEF drain_drop_recv, Kinds
      <4>2. QED
        BY <3>1, <4>1 DEF drain_drop_recv
    <3>2. CASE drain_busy
      <4>1. queue' = [queue EXCEPT ![drain.box]["send"] = Rotated(@), ![To]["recv"] = Append(w, Recv)]
        BY <1>1, <1>3, <2>1, <2>2, <3>2 DEF drain_busy, Kinds
      <4>2. QED
        BY <4>1
    <3>3. QED
      BY <1>7, <3>1, <3>2
  <2>4. CASE b = drain.box /\ k = "send"
    BY <1>1, <1>3, <1>4, <2>1, <2>2, <2>3, <2>4 DEF Kinds
  <2>5. CASE b = To /\ k = "recv"
    <3>1. queue'[b][k] = r
      BY <1>1, <1>3, <2>1, <2>2, <2>3, <2>5 DEF Kinds
    <3>2. CASE r = w /\ ~Recv.desc.accessible
      <4>1. PICK f : Picks(queue[b][k], r, FirstMatch, f)
        BY <2>2, <2>5, <3>2, PicksWithout
      <4>2. QED
        BY <2>5, <3>1, <3>2, <4>1 DEF WellFormed, Recv
    <3>3. CASE r = Append(w, Recv)
      <4>1. PICK f : Picks(queue[b][k], r, 0, f)
        BY <2>2, <2>5, <3>3, PicksMoved DEF Recv
      <4>2. 0 \notin DOMAIN queue[b][k]
        BY <1>1
      <4>3. QED
        BY <3>1, <4>1, <4>2
    <3>4. QED
      BY <2>3, <3>2, <3>3
  <2>6. CASE ~(b = drain.box /\ k = "send") /\ ~(b = To /\ k = "recv")
    BY <1>1, <1>2, <1>3, <2>1, <2>2, <2>3, <2>6 DEF Kinds
  <2>7. QED
    BY <2>4, <2>5, <2>6
<1>8. CASE drain_stop
  BY <1>2, <1>8 DEF drain_stop
<1>9. QED
  BY <1>5, <1>6, <1>7, <1>8 DEF Drain

\* What the core leaves alone.
LEMMA DrainFrame ==
  ASSUME Drain
  PROVE  UNCHANGED <<allocated, pc, job>> /\ (~ipc_deliver => UNCHANGED <<free, completed>>)
  BY DEF Drain, drain_stop, drain_seen, drain_drop, drain_unmatched, drain_drop_recv, drain_busy, ipc_deliver

----------------------------------------------------------------------------
(***************************************************************************)
(* Slots.                                                                  *)
(***************************************************************************)

\* A step of thread t changes no other thread's job.
LEMMA OthersKeepJob ==
  ASSUME TypeOK, NEW t \in Threads, ThreadStep(t), NEW u \in Threads, u # t
  PROVE  job'[u] = job[u]
<1>1. CASE ipc_io(t) \/ ipc_wait(t)
  BY <1>1 DEF ipc_io, ipc_wait, TypeOK
<1>2. CASE lock(t) \/ ipc_allocate_token(t)
  BY <1>2 DEF lock, ipc_allocate_token, TypeOK
<1>3. CASE allocate_slot(t) \/ enqueue(t) \/ ipc_waitfor(t)
  BY <1>3 DEF allocate_slot, enqueue, ipc_waitfor, TypeOK
<1>4. QED
  BY <1>1, <1>2, <1>3 DEF ThreadStep

\* Steps after which no request in progress has another slot than before.
LEMMA SlotFrame ==
  ASSUME SlotInv, UNCHANGED <<free, queue>>,
         \A b \in Boxes, k \in Kinds : \A u \in Makers(b, k)' :
           job'[u].slot # NONE => u \in Makers(b, k) /\ job'[u].slot = job[u].slot
  PROVE  SlotInv'
<1> SUFFICES ASSUME NEW b \in Boxes, NEW k \in Kinds PROVE SlotsApart(b, k)'
  BY DEF SlotInv
<1>1. SlotsApart(b, k)
  BY DEF SlotInv
<1>2. \A u \in Makers(b, k)' : job'[u].slot # NONE => u \in Makers(b, k) /\ job'[u].slot = job[u].slot
  OBVIOUS
<1> DEFINE M == Makers(b, k)
           N == Makers(b, k)'
<1> HIDE DEF M, N
<1>3. QED
  BY <1>1, <1>2 DEF SlotsApart

LEMMA SlotThread ==
  ASSUME TypeOK, SlotInv, NEW t \in Threads, ThreadStep(t)
  PROVE  SlotInv'
<1>0. BoxOf[t] \in Boxes
  BY IpcAssumption
<1>1. ASSUME UNCHANGED <<free, queue>>,
             job'[t].call = "io" /\ job'[t].slot # NONE =>
               job[t].call = "io" /\ job'[t].kind = job[t].kind /\ job'[t].slot = job[t].slot
      PROVE  SlotInv'
  <2>1. \A b \in Boxes, k \in Kinds : \A u \in Makers(b, k)' :
           job'[u].slot # NONE => u \in Makers(b, k) /\ job'[u].slot = job[u].slot
    BY <1>1, OthersKeepJob DEF Makers
  <2>2. QED
    BY <1>1, <2>1, SlotFrame
<1>2. CASE ipc_io(t)
  BY <1>1, <1>2 DEF ipc_io, TypeOK
<1>3. CASE ipc_wait(t) \/ ipc_waitfor(t)
  <2>1. UNCHANGED <<free, queue>> /\ job'[t].call # "io"
    BY <1>3 DEF ipc_wait, ipc_waitfor, TypeOK, NoJob
  <2>2. QED
    BY <1>1, <2>1
<1>4. CASE lock(t)
  BY <1>1, <1>4 DEF lock
<1>5. CASE ipc_allocate_token(t)
  <2>1. UNCHANGED <<free, queue>>
    BY <1>5 DEF ipc_allocate_token
  <2>2. CASE job' = [job EXCEPT ![t] = NoJob]
    BY <1>1, <2>1, <2>2 DEF TypeOK, NoJob
  <2>3. CASE pc[t] = "in_token" /\ \E x : job' = [job EXCEPT ![t].token = x]
    <3>1. job[t] \in IoJobs({NONE}, {NONE})
      BY <2>3 DEF TypeOK, JobsAt
    <3>2. job'[t].slot = NONE
      BY <2>3, <3>1 DEF TypeOK, IoJobs
    <3>3. QED
      BY <1>1, <2>1, <3>2
  <2>4. QED
    BY <1>5, <2>2, <2>3 DEF ipc_allocate_token, GoTo
<1>6. CASE allocate_slot(t)
  <2>1. queue' = queue
    BY <1>6 DEF allocate_slot
  <2>2. CASE job' = [job EXCEPT ![t] = NoJob] /\ UNCHANGED free
    BY <1>1, <2>1, <2>2 DEF TypeOK, NoJob
  <2> DEFINE c == BoxOf[t]
             l == job[t].kind
  <2>3. ASSUME pc[t] = "in_slot", NEW s \in free[c][l],
               job' = [job EXCEPT ![t].slot = s], free' = [free EXCEPT ![c][l] = @ \ {s}]
        PROVE  SlotInv'
    <3>1. job[t] \in IoJobs(Tokens, {NONE})
      BY <2>3 DEF TypeOK, JobsAt
    <3>2. /\ l \in Kinds /\ job[t].call = "io" /\ job'[t].call = "io"
          /\ job'[t].slot = s /\ job'[t].kind = l
      BY <2>3, <3>1 DEF TypeOK, IoJobs
    <3>3. \A b \in Boxes, k \in Kinds :
            free'[b][k] = IF b = c /\ k = l THEN free[c][l] \ {s} ELSE free[b][k]
      BY <1>0, <2>3, <3>2 DEF TypeOK
    <3>4. \A b \in Boxes, k \in Kinds : Makers(b, k)' = Makers(b, k)
      BY <3>2, OthersKeepJob DEF Makers
    <3> SUFFICES ASSUME NEW b \in Boxes, NEW k \in Kinds PROVE SlotsApart(b, k)'
      BY DEF SlotInv
    <3>5. SlotsApart(b, k)
      BY DEF SlotInv
    <3>6. \A u \in Makers(b, k) : u # t => job'[u] = job[u]
      BY OthersKeepJob DEF Makers
    <3>7. CASE b = c /\ k = l
      <4>1. free'[b][k] = free[b][k] \ {s} /\ s \in free[b][k]
        BY <2>3, <3>3, <3>7
      <4>2. \A i \in DOMAIN queue[b][k] : queue[b][k][i].slot # s
        BY <3>5, <4>1 DEF SlotsApart
      <4>3. \A u \in Makers(b, k) : u # t => job[u].slot # s \/ s = NONE
        BY <3>5, <4>1 DEF SlotsApart
      <4>4. s # NONE
        BY <2>3, <1>0, <3>2, IpcAssumption DEF TypeOK, Slots, NONE
      <4> DEFINE M == Makers(b, k)
      <4> HIDE DEF M
      <4>5. M' = M /\ \A u \in M : u # t => job'[u] = job[u] /\ job[u].slot # s
        BY <3>4, <3>6, <4>3, <4>4 DEF M
      <4>6. QED
        BY <2>1, <3>2, <3>5, <4>1, <4>2, <4>4, <4>5 DEF SlotsApart, M
    <3>8. CASE ~(b = c /\ k = l)
      <4>1. free'[b][k] = free[b][k] /\ t \notin Makers(b, k)
        BY <3>2, <3>3, <3>8 DEF Makers
      <4>2. \A u \in Makers(b, k) : job'[u] = job[u]
        BY <3>6, <4>1
      <4>3. QED
        BY <2>1, <3>4, <3>5, <4>1, <4>2 DEF SlotsApart
    <3>9. QED
      BY <3>7, <3>8
  <2>4. QED
    BY <1>6, <2>2, <2>3 DEF allocate_slot, GoTo
<1>7. CASE enqueue(t)
  <2> DEFINE c == BoxOf[t]
             l == job[t].kind
             e == [slot |-> job[t].slot, token |-> job[t].token, desc |-> job[t].desc]
  <2>1. /\ pc[t] = "in_enqueue" /\ job' = [job EXCEPT ![t] = NoJob] /\ free' = free
        /\ queue' = [queue EXCEPT ![c][l] = Append(@, e)]
    BY <1>7 DEF enqueue, GoTo
  <2>2. job[t] \in IoJobs(Tokens, Slots)
    BY <2>1 DEF TypeOK, JobsAt
  <2>3. l \in Kinds /\ job[t].slot \in Slots /\ t \in Makers(c, l) /\ job[t].slot # NONE /\ e \in Entries
    BY <2>2, IpcAssumption DEF IoJobs, Makers, Slots, NONE, Entries
  <2>4. job'[t].call # "io"
    BY <2>1 DEF TypeOK, NoJob
  <2>5. \A b \in Boxes, k \in Kinds : Makers(b, k)' = Makers(b, k) \ {t}
    BY <2>4, OthersKeepJob DEF Makers
  <2>6. \A u \in Threads \ {t} : job'[u] = job[u]
    BY OthersKeepJob
  <2> HIDE DEF e
  <2>7. \A b \in Boxes, k \in Kinds :
          queue'[b][k] = IF b = c /\ k = l THEN Append(queue[b][k], e) ELSE queue[b][k]
    BY <1>0, <2>1, <2>3 DEF TypeOK
  <2> SUFFICES ASSUME NEW b \in Boxes, NEW k \in Kinds PROVE SlotsApart(b, k)'
    BY DEF SlotInv
  <2>8. SlotsApart(b, k) /\ queue[b][k] \in Seq(Entries)
    BY DEF SlotInv, TypeOK
  <2> DEFINE q == queue[b][k]
             M == Makers(b, k)
  <2>9. M' = M \ {t} /\ \A u \in M \ {t} : job'[u] = job[u]
    BY <2>5, <2>6 DEF Makers
  <2>10. CASE b = c /\ k = l
    <3>1. queue'[b][k] = Append(q, e) /\ t \in M
      BY <2>3, <2>7, <2>10
    <3>2. e.slot = job[t].slot /\ e.slot # NONE
      BY <2>3 DEF e
    <3> DEFINE r == Append(q, e)
    <3> HIDE DEF q, r, M
    <3>4. \A i \in DOMAIN r : \/ i \in DOMAIN q /\ r[i] = q[i]
                              \/ i = Len(q) + 1 /\ r[i] = e /\ i \notin DOMAIN q
      BY <2>3, <2>8, AppendElements DEF r, q
    <3>5. /\ \A i, j \in DOMAIN q : q[i].slot = q[j].slot => i = j
          /\ \A i \in DOMAIN q : q[i].slot \notin free[b][k] /\ q[i].slot # e.slot
          /\ e.slot \notin free[b][k]
          /\ \A u \in M \ {t} : job[u].slot # NONE =>
               /\ job[u].slot \notin free[b][k] /\ job[u].slot # e.slot
               /\ \A i \in DOMAIN q : q[i].slot # job[u].slot
               /\ \A v \in M : job[v].slot = job[u].slot => v = u
      BY <2>8, <3>1, <3>2 DEF SlotsApart, q, M
    <3>6. \A i, j \in DOMAIN r : r[i].slot = r[j].slot => i = j
      BY <3>4, <3>5
    <3>7. \A i \in DOMAIN r : r[i].slot \notin free[b][k]
      BY <3>4, <3>5
    <3>8. \A u \in M \ {t} : job'[u].slot # NONE =>
               /\ job'[u].slot \notin free[b][k]
               /\ \A i \in DOMAIN r : r[i].slot # job'[u].slot
               /\ \A v \in M \ {t} : job'[v].slot = job'[u].slot => v = u
      BY <2>9, <3>4, <3>5
    <3>9. queue'[b][k] = r /\ free'[b][k] = free[b][k] /\ Makers(b, k)' = M \ {t}
      BY <2>1, <2>9, <3>1 DEF r, M
    <3>10. QED
      BY <3>6, <3>7, <3>8, <3>9 DEF SlotsApart
  <2>11. CASE ~(b = c /\ k = l)
    <3>1. queue'[b][k] = queue[b][k] /\ free'[b][k] = free[b][k]
      BY <2>1, <2>7, <2>11
    <3>2. Makers(b, k)' = Makers(b, k) \ {t} /\ \A u \in Makers(b, k) \ {t} : job'[u] = job[u]
      BY <2>9
    <3>3. QED
      BY <2>8, <3>1, <3>2 DEF SlotsApart
  <2>12. QED
    BY <2>10, <2>11
<1>8. QED
  BY <1>2, <1>3, <1>4, <1>5, <1>6, <1>7 DEF ThreadStep

LEMMA SlotDrain ==
  ASSUME TypeOK, SlotInv, Drain
  PROVE  SlotInv'
<1> SUFFICES ASSUME NEW b \in Boxes, NEW k \in Kinds PROVE SlotsApart(b, k)'
  BY DEF SlotInv
<1> DEFINE q == queue[b][k]
           r == queue'[b][k]
<1>1. SlotsApart(b, k) /\ job' = job /\ Makers(b, k)' = Makers(b, k)
  BY DrainFrame DEF SlotInv, Makers
<1>2. ASSUME NEW x, NEW f, Picks(q, r, x, f),
             \A s \in free'[b][k] : s \in free[b][k] \/ (x \in DOMAIN q /\ s = q[x].slot)
      PROVE  SlotsApart(b, k)'
  <2> HIDE DEF q, r
  <2>1. /\ \A i, j \in DOMAIN r : r[i].slot = r[j].slot => i = j
        /\ \A i \in DOMAIN r : r[i].slot \notin free[b][k] /\ (x \in DOMAIN q => r[i].slot # q[x].slot)
    BY <1>1, <1>2 DEF SlotsApart, Picks, q
  <2>2. \A i \in DOMAIN r : \E j \in DOMAIN q : r[i] = q[j]
    BY <1>2 DEF Picks
  <2>3. \A t \in Makers(b, k) : job[t].slot # NONE =>
          /\ job[t].slot \notin free[b][k] /\ (x \in DOMAIN q => job[t].slot # q[x].slot)
          /\ \A i \in DOMAIN r : r[i].slot # job[t].slot
          /\ \A u \in Makers(b, k) : job[u].slot = job[t].slot => u = t
    BY <1>1, <2>2 DEF SlotsApart, q
  <2>4. QED
    BY <1>1, <1>2, <2>1, <2>3 DEF SlotsApart, r
<1>3. CASE ~ipc_deliver
  <2>1. PICK x, f : Picks(q, r, x, f)
    BY <1>3, DrainKeeps
  <2>2. free'[b][k] = free[b][k]
    BY <1>3, DrainFrame
  <2>3. QED
    BY <1>2, <2>1, <2>2
<1>4. CASE ipc_deliver
  <2>1. PICK f : Picks(q, r, DeliveredAt(b, k), f)
    BY <1>4, DeliverTakes
  <2>2. /\ drain.box \in Boxes /\ To \in Boxes
        /\ FirstMatch \in DOMAIN queue[To]["recv"] /\ 1 \in DOMAIN SendQueue /\ Send = SendQueue[1]
    <3>1. CanDequeue /\ Matched
      BY <1>4 DEF ipc_deliver, Matched, Visit
    <3>2. SendQueue \in Seq(Entries) /\ SendQueue # <<>>
      BY <3>1, SendType DEF CanDequeue
    <3>3. QED
      BY <3>1, <3>2, SendType, RecvType DEF Send
  <2>3. free'[b][k] = IF k = "send" /\ b = drain.box THEN free[b][k] \cup {Send.slot}
                      ELSE IF k = "recv" /\ b = To THEN free[b][k] \cup {Recv.slot}
                      ELSE free[b][k]
    BY <1>4, <2>2 DEF ipc_deliver, Freed, TypeOK, Kinds
  <2>4. \A s \in free'[b][k] : s \in free[b][k]
          \/ (DeliveredAt(b, k) \in DOMAIN q /\ s = q[DeliveredAt(b, k)].slot)
    BY <2>2, <2>3 DEF DeliveredAt, SendQueue, Recv
  <2>5. QED
    BY <1>2, <2>1, <2>4
<1>5. QED
  BY <1>3, <1>4

LEMMA SlotNext == TypeOK /\ SlotInv /\ [Next]_vars => SlotInv'
<1> SUFFICES ASSUME TypeOK, SlotInv, [Next]_vars PROVE SlotInv'
  OBVIOUS
<1>1. CASE UNCHANGED <<free, queue, job>>
  BY <1>1 DEF SlotInv, SlotsApart, Makers
<1>2. CASE (\E b \in Boxes : ipc_drain_queue(b)) \/ UNCHANGED vars
  BY <1>1, <1>2 DEF ipc_drain_queue, vars
<1>3. QED
  BY <1>2, SlotThread, SlotDrain DEF Next, ThreadStep

LEMMA SlotInvIsSlotOnce == TypeOK /\ SlotInv => SlotOnce
<1> SUFFICES ASSUME TypeOK, SlotInv, NEW b \in Boxes, NEW k \in Kinds, NEW s \in Slots
             PROVE  /\ \A x, y \in InUse(b, k, "slot", s) : x = y
                    /\ s \in free[b][k] => InUse(b, k, "slot", s) = {}
  BY DEF SlotOnce
<1>1. SlotsApart(b, k) /\ s # NONE
  BY DEF SlotInv, Slots, NONE
<1>2. \A x \in InUse(b, k, "slot", s) :
        \/ \E i \in DOMAIN queue[b][k] : x = <<k, i>> /\ queue[b][k][i].slot = s
        \/ \E t \in Makers(b, k) : x = <<"thread", t>> /\ job[t].slot = s
  BY DEF InUse, Makers
<1>3. QED
  BY <1>1, <1>2 DEF SlotsApart

\* For any number of boxes, threads and slots, and wherever threads are
\* preempted: a slot is in one place only, on the free list, in the queue or
\* with one thread.
THEOREM SlotsAreUsedOnce == Spec => []SlotOnce
<1>1. Init => SlotInv
  BY DEF Init, SlotInv, SlotsApart, Makers, NoJob
<1>2. Spec => []SlotInv
  BY <1>1, SlotNext, IpcTypes, PTL DEF Spec
<1>3. QED
  BY <1>2, IpcTypes, SlotInvIsSlotOnce, PTL

----------------------------------------------------------------------------
(***************************************************************************)
(* Tokens.                                                                 *)
(***************************************************************************)

\* Steps that leave the queues alone, after which no request in progress has
\* another token than before, and no token of a request is given back or
\* completed.
LEMMA TokenFrame ==
  ASSUME TokenInv, NEW b \in Boxes, UNCHANGED queue,
         completed'[b] \subseteq allocated'[b],
         \A n \in allocated[b] \ completed[b] : n \in allocated'[b] \ completed'[b],
         \A k \in Kinds : \A u \in Makers(b, k)' :
           job'[u].token # NONE => u \in Makers(b, k) /\ job'[u].token = job[u].token
  PROVE  TokensApart(b)'
<1>1. TokensApart(b)
  BY DEF TokenInv
<1> DEFINE A == allocated[b] \ completed[b]
           B == allocated'[b] \ completed'[b]
<1> HIDE DEF A, B
<1>2. \A n \in A : n \in B
  BY DEF A, B
<1>3. /\ \A k, l \in Kinds : \A i \in DOMAIN queue[b][k], j \in DOMAIN queue[b][l] :
           queue[b][k][i].token = queue[b][l][j].token => k = l /\ i = j
      /\ \A k \in Kinds : \A i \in DOMAIN queue[b][k] : queue[b][k][i].token \in A
      /\ \A k \in Kinds : \A t \in Makers(b, k) : job[t].token # NONE =>
           /\ job[t].token \in A
           /\ \A l \in Kinds : \A i \in DOMAIN queue[b][l] : queue[b][l][i].token # job[t].token
           /\ \A l \in Kinds : \A u \in Makers(b, l) : job[u].token = job[t].token => u = t
  BY <1>1 DEF TokensApart, A
<1>4. \A k \in Kinds : \A t \in Makers(b, k)' : job'[t].token # NONE =>
        /\ job'[t].token \in B
        /\ \A l \in Kinds : \A i \in DOMAIN queue[b][l] : queue[b][l][i].token # job'[t].token
        /\ \A l \in Kinds : \A u \in Makers(b, l)' : job'[u].token = job'[t].token => u = t
  BY <1>2, <1>3
<1>5. \A k \in Kinds : \A i \in DOMAIN queue[b][k] : queue[b][k][i].token \in B
  BY <1>2, <1>3
<1>6. QED
  BY <1>3, <1>4, <1>5 DEF TokensApart, B

LEMMA TokenThread ==
  ASSUME TypeOK, TokenInv, NEW t \in Threads, ThreadStep(t)
  PROVE  TokenInv'
<1> DEFINE c == BoxOf[t]
<1>0. c \in Boxes
  BY IpcAssumption
<1> SUFFICES ASSUME NEW b \in Boxes PROVE TokensApart(b)'
  BY DEF TokenInv
<1>1. TokensApart(b) /\ completed[b] \subseteq allocated[b]
  BY DEF TokenInv, TokensApart
<1>2. ASSUME job'[t].call = "io" /\ job'[t].token # NONE =>
               job[t].call = "io" /\ job'[t].kind = job[t].kind /\ job'[t].token = job[t].token
      PROVE  \A k \in Kinds : \A u \in Makers(b, k)' :
               job'[u].token # NONE => u \in Makers(b, k) /\ job'[u].token = job[u].token
  BY <1>2, OthersKeepJob DEF Makers
<1>3. ASSUME UNCHANGED <<queue, allocated, completed>>,
             job'[t].call = "io" /\ job'[t].token # NONE =>
               job[t].call = "io" /\ job'[t].kind = job[t].kind /\ job'[t].token = job[t].token
      PROVE  TokensApart(b)'
  BY <1>1, <1>2, <1>3, TokenFrame
<1>4. CASE ipc_io(t) \/ ipc_wait(t)
  <2>1. UNCHANGED <<queue, allocated, completed>> /\ (job'[t].call = "io" => job'[t].token = NONE)
    BY <1>4 DEF ipc_io, ipc_wait, TypeOK
  <2>2. QED
    BY <1>3, <2>1
<1>5. CASE lock(t)
  BY <1>3, <1>5 DEF lock
<1>6. CASE allocate_slot(t)
  <2>1. UNCHANGED <<queue, allocated, completed>>
    BY <1>6 DEF allocate_slot
  <2>2. CASE job' = [job EXCEPT ![t] = NoJob]
    BY <1>3, <2>1, <2>2 DEF TypeOK, NoJob
  <2>3. CASE pc[t] = "in_slot" /\ \E s : job' = [job EXCEPT ![t].slot = s]
    <3>1. job[t] \in IoJobs(Tokens, {NONE})
      BY <2>3 DEF TypeOK, JobsAt
    <3>2. job[t].call = "io" /\ job'[t].kind = job[t].kind /\ job'[t].token = job[t].token
      BY <2>3, <3>1 DEF TypeOK, IoJobs
    <3>3. QED
      BY <1>3, <2>1, <3>2
  <2>4. QED
    BY <1>6, <2>2, <2>3 DEF allocate_slot, GoTo
<1>7. CASE ipc_waitfor(t)
  <2>1. UNCHANGED queue /\ job'[t].call # "io"
    BY <1>7 DEF ipc_waitfor, TypeOK, NoJob
  <2> DEFINE done == completed[c] \cap job[t].wait
  <2>2. CASE UNCHANGED <<allocated, completed>>
    BY <1>3, <2>1, <2>2
  <2>3. CASE /\ allocated' = [allocated EXCEPT ![c] = @ \ done]
             /\ completed' = [completed EXCEPT ![c] = @ \ done]
    <3>1. \/ allocated'[b] = allocated[b] /\ completed'[b] = completed[b]
          \/ allocated'[b] = allocated[b] \ done /\ completed'[b] = completed[b] \ done /\ b = c
      BY <2>3 DEF TypeOK
    <3>2. /\ completed'[b] \subseteq allocated'[b]
          /\ \A n \in allocated[b] \ completed[b] : n \in allocated'[b] \ completed'[b]
      BY <1>1, <3>1
    <3>3. QED
      BY <1>2, <2>1, <3>2, TokenFrame
  <2>4. QED
    BY <1>7, <2>2, <2>3 DEF ipc_waitfor, FreedTokens
<1>8. CASE ipc_allocate_token(t)
  <2>1. UNCHANGED <<queue, completed>> /\ pc[t] = "in_token"
    BY <1>8 DEF ipc_allocate_token, GoTo
  <2>2. job[t] \in IoJobs({NONE}, {NONE})
    BY <2>1 DEF TypeOK, JobsAt
  <2>3. CASE Unused(c) = {}
    <3>1. job' = [job EXCEPT ![t] = NoJob] /\ UNCHANGED allocated
      BY <1>8, <2>3 DEF ipc_allocate_token
    <3>2. QED
      BY <1>3, <2>1, <3>1 DEF TypeOK, NoJob
  <2>4. CASE Unused(c) # {}
    <3>1. PICK bit \in Unused(c) :
            /\ job' = [job EXCEPT ![t].token = bit]
            /\ allocated' = [allocated EXCEPT ![c] = @ \cup {bit}]
      <4>1. Unused(c) \subseteq Nat
        BY IpcAssumption DEF Unused, Tokens
      <4>2. \E i \in Unused(c) : \A j \in Unused(c) : i <= j
        BY <2>4, <4>1, LeastElement
      <4>3. QED
        BY <1>8, <2>4, <4>2 DEF ipc_allocate_token
    <3>2. bit \notin allocated[c] /\ bit # NONE
      BY IpcAssumption DEF Unused, Tokens, NONE
    <3>3. /\ job'[t].call = "io" /\ job'[t].token = bit /\ job'[t].kind = job[t].kind
          /\ job[t].call = "io" /\ job[t].token = NONE
      BY <2>2, <3>1 DEF TypeOK, IoJobs
    <3>4. CASE b # c
      <4>1. allocated'[b] = allocated[b] /\ completed'[b] = completed[b]
        BY <2>1, <3>1, <3>4 DEF TypeOK
      <4>2. \A k \in Kinds : \A u \in Makers(b, k)' :
              job'[u].token # NONE => u \in Makers(b, k) /\ job'[u].token = job[u].token
        BY <3>4, OthersKeepJob DEF Makers
      <4>3. QED
        BY <1>1, <2>1, <4>1, <4>2, TokenFrame
    <3>5. CASE b = c
      <4>1. allocated'[b] = allocated[b] \cup {bit} /\ completed'[b] = completed[b]
        BY <2>1, <3>1, <3>5, <1>0 DEF TypeOK
      <4>2. \A k \in Kinds : Makers(b, k)' = Makers(b, k)
        BY <3>3, OthersKeepJob DEF Makers
      <4>3. \A k \in Kinds : \A u \in Makers(b, k) : u # t => job'[u] = job[u]
        BY OthersKeepJob DEF Makers
      <4> DEFINE A == allocated[b] \ completed[b]
                 B == allocated'[b] \ completed'[b]
      <4>4. /\ bit \notin A /\ bit \in B /\ \A n \in A : n \in B
            /\ completed'[b] \subseteq allocated'[b]
        BY <1>1, <3>2, <3>5, <4>1
      <4> HIDE DEF A, B
      <4>5. /\ \A k, l \in Kinds : \A i \in DOMAIN queue[b][k], j \in DOMAIN queue[b][l] :
                 queue[b][k][i].token = queue[b][l][j].token => k = l /\ i = j
            /\ \A k \in Kinds : \A i \in DOMAIN queue[b][k] : queue[b][k][i].token \in A
            /\ \A k \in Kinds : \A u \in Makers(b, k) : job[u].token # NONE =>
                 /\ job[u].token \in A
                 /\ \A l \in Kinds : \A i \in DOMAIN queue[b][l] : queue[b][l][i].token # job[u].token
                 /\ \A l \in Kinds : \A v \in Makers(b, l) : job[v].token = job[u].token => v = u
        BY <1>1 DEF TokensApart, A
      <4>6. ASSUME NEW k \in Kinds, NEW u \in Makers(b, k), job'[u].token # NONE
            PROVE  /\ job'[u].token \in B
                   /\ \A l \in Kinds : \A i \in DOMAIN queue[b][l] : queue[b][l][i].token # job'[u].token
                   /\ \A l \in Kinds : \A v \in Makers(b, l) : job'[v].token = job'[u].token => v = u
        <5>1. CASE u = t
          BY <3>2, <3>3, <4>3, <4>4, <4>5, <5>1
        <5>2. CASE u # t
          BY <3>2, <3>3, <4>3, <4>4, <4>5, <4>6, <5>2
        <5>3. QED
          BY <5>1, <5>2
      <4>7. \A k \in Kinds : \A i \in DOMAIN queue[b][k] : queue[b][k][i].token \in B
        BY <4>4, <4>5
      <4>8. QED
        BY <2>1, <4>2, <4>4, <4>5, <4>6, <4>7 DEF TokensApart, B
    <3>6. QED
      BY <3>4, <3>5
  <2>5. QED
    BY <2>3, <2>4
<1>9. CASE enqueue(t)
  <2> DEFINE l == job[t].kind
             e == [slot |-> job[t].slot, token |-> job[t].token, desc |-> job[t].desc]
  <2>1. /\ pc[t] = "in_enqueue" /\ job' = [job EXCEPT ![t] = NoJob]
        /\ UNCHANGED <<allocated, completed>>
        /\ queue' = [queue EXCEPT ![c][l] = Append(@, e)]
    BY <1>9 DEF enqueue, GoTo
  <2>2. job[t] \in IoJobs(Tokens, Slots)
    BY <2>1 DEF TypeOK, JobsAt
  <2>3. l \in Kinds /\ t \in Makers(c, l) /\ e \in Entries /\ e.token = job[t].token /\ e.token # NONE
    BY <2>2, IpcAssumption DEF IoJobs, Makers, Tokens, NONE, Entries
  <2>4. job'[t].call # "io"
    BY <2>1 DEF TypeOK, NoJob
  <2>5. \A k \in Kinds : Makers(b, k)' = Makers(b, k) \ {t}
    BY <2>4, OthersKeepJob DEF Makers
  <2>6. \A k \in Kinds : \A u \in Makers(b, k) \ {t} : job'[u] = job[u]
    BY OthersKeepJob DEF Makers
  <2> HIDE DEF e
  <2>7. CASE b # c
    <3>1. queue'[b] = queue[b]
      BY <2>1, <2>7 DEF TypeOK
    <3>2. QED
      BY <1>1, <2>1, <2>5, <2>6, <3>1 DEF TokensApart
  <2>8. CASE b = c
    <3> DEFINE q == queue[b][l]
               r == queue'[b][l]
    <3>1. r = Append(q, e) /\ \A k \in Kinds : k # l => queue'[b][k] = queue[b][k]
      BY <1>0, <2>1, <2>3, <2>8 DEF TypeOK
    <3>2. q \in Seq(Entries)
      BY <2>3 DEF TypeOK
    <3>3. \A i \in DOMAIN r : \/ i \in DOMAIN q /\ r[i] = q[i]
                              \/ i = Len(q) + 1 /\ r[i] = e /\ i \notin DOMAIN q
      <4> HIDE DEF q, r
      <4>1. QED
        BY <2>3, <3>1, <3>2, AppendElements
    <3>4. \A k \in Kinds : \A i \in DOMAIN queue'[b][k] :
            \/ i \in DOMAIN queue[b][k] /\ queue'[b][k][i] = queue[b][k][i]
            \/ k = l /\ i = Len(q) + 1 /\ queue'[b][k][i] = e
      BY <3>1, <3>3
    <3> HIDE DEF q, r
    <3>5. /\ \A k \in Kinds : \A i \in DOMAIN queue[b][k] : queue[b][k][i].token # e.token
          /\ e.token \in allocated[b] \ completed[b]
          /\ \A k \in Kinds : \A u \in Makers(b, k) \ {t} : job[u].token # e.token
      BY <1>1, <2>3, <2>8 DEF TokensApart
    <3>6. \A k, m \in Kinds : \A i \in DOMAIN queue'[b][k], j \in DOMAIN queue'[b][m] :
            queue'[b][k][i].token = queue'[b][m][j].token => k = m /\ i = j
      BY <1>1, <3>4, <3>5 DEF TokensApart
    <3>7. \A k \in Kinds : \A i \in DOMAIN queue'[b][k] :
            queue'[b][k][i].token \in allocated[b] \ completed[b]
      BY <1>1, <3>4, <3>5 DEF TokensApart
    <3>8. \A k \in Kinds : \A u \in Makers(b, k) \ {t} : job[u].token # NONE =>
            /\ job[u].token \in allocated[b] \ completed[b]
            /\ \A m \in Kinds : \A i \in DOMAIN queue'[b][m] : queue'[b][m][i].token # job[u].token
            /\ \A m \in Kinds : \A v \in Makers(b, m) : job[v].token = job[u].token => v = u
      BY <1>1, <3>4, <3>5 DEF TokensApart
    <3>9. \A k \in Kinds : \A u \in Makers(b, k)' : job'[u].token # NONE =>
            /\ job'[u].token \in allocated[b] \ completed[b]
            /\ \A m \in Kinds : \A i \in DOMAIN queue'[b][m] : queue'[b][m][i].token # job'[u].token
            /\ \A m \in Kinds : \A v \in Makers(b, m)' : job'[v].token = job'[u].token => v = u
      BY <2>5, <2>6, <3>8
    <3>10. completed'[b] \subseteq allocated'[b] /\ allocated'[b] = allocated[b] /\ completed'[b] = completed[b]
      BY <1>1, <2>1
    <3>11. QED
      BY <3>6, <3>7, <3>9, <3>10 DEF TokensApart
  <2>9. QED
    BY <2>7, <2>8
<1>10. QED
  BY <1>4, <1>5, <1>6, <1>7, <1>8, <1>9 DEF ThreadStep

LEMMA TokenDrain ==
  ASSUME TypeOK, TokenInv, Drain
  PROVE  TokenInv'
<1> SUFFICES ASSUME NEW b \in Boxes PROVE TokensApart(b)'
  BY DEF TokenInv
<1>1. TokensApart(b) /\ job' = job /\ allocated' = allocated /\ \A k \in Kinds : Makers(b, k)' = Makers(b, k)
  BY DrainFrame DEF TokenInv, Makers
\* x gives the place that is left out of each queue, and f the origin of the others.
<1>2. ASSUME NEW x, NEW f,
             \A k \in Kinds : Picks(queue[b][k], queue'[b][k], x[k], f[k]),
             \A n \in completed'[b] : n \in completed[b] \/
               \E k \in Kinds : x[k] \in DOMAIN queue[b][k] /\ n = queue[b][k][x[k]].token
      PROVE  TokensApart(b)'
  <2>1. \A k \in Kinds : \A i \in DOMAIN queue'[b][k] :
          /\ f[k][i] \in DOMAIN queue[b][k] /\ f[k][i] # x[k]
          /\ queue'[b][k][i] = queue[b][k][f[k][i]]
          /\ \A j \in DOMAIN queue'[b][k] : f[k][i] = f[k][j] => i = j
    BY <1>2 DEF Picks
  <2>2. /\ completed[b] \subseteq allocated[b]
        /\ \A k, l \in Kinds : \A i \in DOMAIN queue[b][k], j \in DOMAIN queue[b][l] :
             queue[b][k][i].token = queue[b][l][j].token => k = l /\ i = j
        /\ \A k \in Kinds : \A i \in DOMAIN queue[b][k] :
             queue[b][k][i].token \in allocated[b] /\ queue[b][k][i].token \notin completed[b]
    BY <1>1 DEF TokensApart
  <2>3. \A k \in Kinds : \A t \in Makers(b, k) : job[t].token # NONE =>
          /\ job[t].token \in allocated[b] /\ job[t].token \notin completed[b]
          /\ \A l \in Kinds : \A i \in DOMAIN queue[b][l] : queue[b][l][i].token # job[t].token
          /\ \A l \in Kinds : \A u \in Makers(b, l) : job[u].token = job[t].token => u = t
    BY <1>1 DEF TokensApart
  <2>4. completed'[b] \subseteq allocated'[b]
    BY <1>1, <1>2, <2>2
  <2>5. \A k, l \in Kinds : \A i \in DOMAIN queue'[b][k], j \in DOMAIN queue'[b][l] :
          queue'[b][k][i].token = queue'[b][l][j].token => k = l /\ i = j
    BY <2>1, <2>2
  <2>6. \A k \in Kinds : \A i \in DOMAIN queue'[b][k] :
          queue'[b][k][i].token \in allocated'[b] /\ queue'[b][k][i].token \notin completed'[b]
    BY <1>1, <1>2, <2>1, <2>2
  <2>7. \A k \in Kinds : \A t \in Makers(b, k) : job[t].token # NONE =>
          /\ job[t].token \in allocated'[b] /\ job[t].token \notin completed'[b]
          /\ \A l \in Kinds : \A i \in DOMAIN queue'[b][l] : queue'[b][l][i].token # job[t].token
          /\ \A l \in Kinds : \A u \in Makers(b, l) : job[u].token = job[t].token => u = t
    BY <1>1, <1>2, <2>1, <2>3
  <2>8. QED
    BY <1>1, <2>4, <2>5, <2>6, <2>7 DEF TokensApart
<1>3. CASE ~ipc_deliver
  <2>1. \A k \in Kinds : \E x, f : Picks(queue[b][k], queue'[b][k], x, f)
    BY <1>3, DrainKeeps
  <2>2. PICK x : \A k \in Kinds : \E f : Picks(queue[b][k], queue'[b][k], x[k], f)
    <3> DEFINE X == [k \in Kinds |-> CHOOSE x : \E f : Picks(queue[b][k], queue'[b][k], x, f)]
    <3>1. \A k \in Kinds : \E f : Picks(queue[b][k], queue'[b][k], X[k], f)
      BY <2>1
    <3>2. QED
      BY <3>1
  <2> DEFINE F == [k \in Kinds |-> CHOOSE f : Picks(queue[b][k], queue'[b][k], x[k], f)]
  <2>3. \A k \in Kinds : Picks(queue[b][k], queue'[b][k], x[k], F[k])
    BY <2>2
  <2>4. completed'[b] = completed[b]
    BY <1>3, DrainFrame
  <2> HIDE DEF F
  <2>5. QED
    BY <1>2, <2>3, <2>4
<1>4. CASE ipc_deliver
  <2> DEFINE x == [k \in Kinds |-> DeliveredAt(b, k)]
             F == [k \in Kinds |-> CHOOSE f : Picks(queue[b][k], queue'[b][k], DeliveredAt(b, k), f)]
  <2>1. \A k \in Kinds : Picks(queue[b][k], queue'[b][k], x[k], F[k])
    BY <1>4, DeliverTakes
  <2>2. /\ drain.box \in Boxes /\ To \in Boxes
        /\ FirstMatch \in DOMAIN queue[To]["recv"] /\ 1 \in DOMAIN SendQueue /\ Send = SendQueue[1]
    <3>1. CanDequeue /\ Matched
      BY <1>4 DEF ipc_deliver, Matched, Visit
    <3>2. SendQueue \in Seq(Entries) /\ SendQueue # <<>>
      BY <3>1, SendType DEF CanDequeue
    <3>3. QED
      BY <3>1, <3>2, SendType, RecvType DEF Send
  <2>3. \A n \in completed'[b] : \/ n \in completed[b]
                                 \/ b = drain.box /\ n = Send.token
                                 \/ b = To /\ n = Recv.token
    BY <1>4, <2>2 DEF ipc_deliver, TypeOK
  <2>4. /\ b = drain.box => x["send"] \in DOMAIN queue[b]["send"] /\ queue[b]["send"][x["send"]] = Send
        /\ b = To => x["recv"] \in DOMAIN queue[b]["recv"] /\ queue[b]["recv"][x["recv"]] = Recv
    BY <2>2 DEF DeliveredAt, SendQueue, Recv, Kinds
  <2> HIDE DEF x, F
  <2>5. \A n \in completed'[b] : n \in completed[b] \/
          \E k \in Kinds : x[k] \in DOMAIN queue[b][k] /\ n = queue[b][k][x[k]].token
    BY <2>3, <2>4 DEF Kinds
  <2>6. QED
    BY <1>2, <2>1, <2>5
<1>5. QED
  BY <1>3, <1>4

LEMMA TokenNext == TypeOK /\ TokenInv /\ [Next]_vars => TokenInv'
<1> SUFFICES ASSUME TypeOK, TokenInv, [Next]_vars PROVE TokenInv'
  OBVIOUS
<1>1. CASE UNCHANGED <<queue, allocated, completed, job>>
  BY <1>1 DEF TokenInv, TokensApart, Makers
<1>2. CASE (\E b \in Boxes : ipc_drain_queue(b)) \/ UNCHANGED vars
  BY <1>1, <1>2 DEF ipc_drain_queue, vars
<1>3. QED
  BY <1>2, TokenThread, TokenDrain DEF Next, ThreadStep

LEMMA TokenInvIsDistinct == TypeOK /\ TokenInv => PendingTokensDistinct
<1> SUFFICES ASSUME TypeOK, TokenInv, NEW b \in Boxes, NEW n \in Tokens
             PROVE  LET users == InUse(b, "send", "token", n) \cup InUse(b, "recv", "token", n) IN
                    /\ \A x, y \in users : x = y
                    /\ users # {} => n \in allocated[b] \ completed[b]
  BY DEF PendingTokensDistinct
<1> DEFINE users == InUse(b, "send", "token", n) \cup InUse(b, "recv", "token", n)
<1>1. TokensApart(b) /\ n # NONE
  BY DEF TokenInv, Tokens, NONE
<1>2. \A x \in users :
        \/ \E k \in Kinds : \E i \in DOMAIN queue[b][k] : x = <<k, i>> /\ queue[b][k][i].token = n
        \/ \E k \in Kinds : \E t \in Makers(b, k) : x = <<"thread", t>> /\ job[t].token = n
  BY DEF InUse, Makers, Kinds
<1> HIDE DEF users
<1>3. /\ \A x, y \in users : x = y
      /\ users # {} => n \in allocated[b] \ completed[b]
  BY <1>1, <1>2 DEF TokensApart
<1>4. QED
  BY <1>3 DEF users

\* For any number of boxes, threads and tokens, and any sets of tokens that
\* threads wait for: the requests of a box have different tokens, allocated and
\* not completed.
THEOREM TokensStandForOneRequest == Spec => []PendingTokensDistinct
<1>1. Init => TokenInv
  <2> SUFFICES ASSUME Init, NEW b \in Boxes PROVE TokensApart(b)
    BY DEF TokenInv
  <2>1. completed[b] = {} /\ \A k \in Kinds : queue[b][k] = <<>> /\ Makers(b, k) = {}
    BY DEF Init, Makers, NoJob
  <2>2. QED
    BY <2>1 DEF TokensApart
<1>2. Spec => []TokenInv
  BY <1>1, TokenNext, IpcTypes, PTL DEF Spec
<1>3. QED
  BY <1>2, IpcTypes, TokenInvIsDistinct, PTL

----------------------------------------------------------------------------
(***************************************************************************)
(* The drain loop.                                                         *)
(***************************************************************************)

\* A thread only adds to a queue.
LEMMA ThreadsKeepRequests ==
  ASSUME TypeOK, NEW t \in Threads, ThreadStep(t), NEW b \in Boxes, NEW k \in Kinds
  PROVE  Queued(b, k) \subseteq Queued(b, k)'
<1>1. CASE enqueue(t)
  <2> DEFINE l == job[t].kind
             e == [slot |-> job[t].slot, token |-> job[t].token, desc |-> job[t].desc]
  <2>1. pc[t] = "in_enqueue" /\ queue' = [queue EXCEPT ![BoxOf[t]][l] = Append(@, e)]
    BY <1>1 DEF enqueue, GoTo
  <2>2. l \in Kinds /\ e \in Entries /\ BoxOf[t] \in Boxes
    BY <2>1, IoJobFields, IpcAssumption DEF Entries
  <2> HIDE DEF e
  <2>3. queue'[b][k] = queue[b][k] \/ queue'[b][k] = Append(queue[b][k], e)
    BY <2>1, <2>2 DEF TypeOK
  <2>4. queue[b][k] \in Seq(Entries)
    BY DEF TypeOK
  <2>5. \A i \in DOMAIN queue[b][k] : i \in DOMAIN queue'[b][k] /\ queue'[b][k][i] = queue[b][k][i]
    BY <2>2, <2>3, <2>4
  <2>6. QED
    BY <2>5 DEF Queued
<1>2. CASE ~enqueue(t)
  BY <1>2 DEF ThreadStep, ipc_io, ipc_wait, lock, ipc_allocate_token, allocate_slot, ipc_waitfor, Queued
<1>3. QED
  BY <1>1, <1>2

\* The two requests of a delivery, where they are in their queues.
LEMMA DeliveredRequests ==
  ASSUME TypeOK, ipc_deliver
  PROVE  /\ drain.box \in Boxes /\ To \in Boxes
         /\ FirstMatch \in DOMAIN queue[To]["recv"] /\ Recv = queue[To]["recv"][FirstMatch]
         /\ 1 \in DOMAIN queue[drain.box]["send"] /\ Send = queue[drain.box]["send"][1]
<1>1. CanDequeue /\ Matched
  BY DEF ipc_deliver, Matched, Visit
<1>2. SendQueue \in Seq(Entries) /\ SendQueue # <<>>
  BY <1>1, SendType DEF CanDequeue
<1>3. QED
  BY <1>1, <1>2, SendType, RecvType DEF Send, SendQueue, Recv

\* One step, for RequestsNotLost.
LEMMA NotLostStep ==
  ASSUME TypeOK, Next, NEW b \in Boxes, NEW k \in Kinds, NEW r \in Queued(b, k), WellFormed(k, r)
  PROVE  r \in Queued(b, k)' \/ (r.token \in completed'[b] /\ r.slot \in free'[b][k])
<1>1. PICK n \in DOMAIN queue[b][k] : r = queue[b][k][n]
  BY DEF Queued
<1>2. ASSUME NEW x, NEW f, Picks(queue[b][k], queue'[b][k], x, f), x # n
      PROVE  r \in Queued(b, k)'
  BY <1>1, <1>2 DEF Picks, Queued
<1>3. CASE Drain /\ ~ipc_deliver
  <2>1. PICK x, f : /\ Picks(queue[b][k], queue'[b][k], x, f)
                    /\ x \in DOMAIN queue[b][k] => ~WellFormed(k, queue[b][k][x])
    BY <1>3, DrainKeeps
  <2>2. QED
    BY <1>1, <1>2, <2>1
<1>4. CASE ipc_deliver
  <2>1. PICK f : Picks(queue[b][k], queue'[b][k], DeliveredAt(b, k), f)
    BY <1>4, DeliverTakes
  <2>2. CASE n = DeliveredAt(b, k)
    <3>1. n # 0
      BY <1>1 DEF TypeOK
    <3>2. (k = "send" /\ b = drain.box /\ r = Send) \/ (k = "recv" /\ b = To /\ r = Recv)
      BY <1>1, <1>4, <2>2, <3>1, DeliveredRequests DEF DeliveredAt
    <3>3. QED
      BY <1>4, <3>2, DeliveredRequests DEF ipc_deliver, Freed, TypeOK, Kinds
  <2>3. QED
    BY <1>2, <2>1, <2>2
<1>5. CASE \E t \in Threads : ThreadStep(t)
  BY <1>5, ThreadsKeepRequests
<1>6. CASE \E c \in Boxes : ipc_drain_queue(c)
  BY <1>6 DEF ipc_drain_queue, Queued
<1>7. QED
  BY <1>3, <1>4, <1>5, <1>6 DEF Next, ThreadStep

\* For any number of boxes and requests, whatever the core finds in the queues
\* and whichever locks are taken: a well-formed request leaves its queue only
\* when it is answered.
THEOREM RequestsAreAnswered == Spec => RequestsNotLost
<1> DEFINE Kept == \A b \in Boxes, k \in Kinds : \A r \in Queued(b, k) :
             WellFormed(k, r) =>
               \/ r \in Queued(b, k)'
               \/ r.token \in completed'[b] /\ r.slot \in free'[b][k]
<1>1. TypeOK /\ [Next]_vars => [Kept]_vars
  BY NotLostStep
<1>2. QED
  BY <1>1, IpcTypes, PTL DEF Spec, RequestsNotLost

LEMMA NoneIsNoSlot == NONE \notin Slots /\ \A e \in Entries : e.slot \in Slots /\ e.slot # NONE
<1>1. NONE \notin Slots
  BY IpcAssumption DEF Slots, NONE
<1>2. QED
  BY <1>1 DEF Entries

\* While the core drains, no thread runs.
LEMMA DrainAlone ==
  ASSUME Next, Draining
  PROVE  Drain
  BY DEF Next, ipc_io, ipc_wait, lock, ipc_allocate_token, allocate_slot, enqueue, ipc_waitfor, GoTo,
         ipc_drain_queue

\* A pass of the loop, as far as first_slot and the send queue are concerned.
LEMMA PassCases ==
  ASSUME TypeOK, Drain, Draining'
  PROVE  /\ Visit /\ drain'.box = drain.box /\ drain.box \in Boxes
         /\ \/ drain_drop /\ drain'.first = First /\ free' = free
               /\ SendQueue' = Tail(SendQueue)
            \/ drain'.first = First /\ free' = free /\ SendQueue' = Rotated(SendQueue)
            \/ ipc_deliver /\ drain'.first = NextFirst /\ SendQueue' = Tail(SendQueue)
<1>1. drain_drop \/ drain_unmatched \/ drain_drop_recv \/ drain_busy \/ ipc_deliver
  BY DEF Drain, drain_stop, drain_seen, Draining
<1>2. Visit /\ CanDequeue
  BY <1>1 DEF drain_drop, drain_unmatched, drain_drop_recv, drain_busy, ipc_deliver, Matched, Visit
<1>3. drain.box \in Boxes
  BY <1>2, SendType
<1>4. ASSUME NEW first, Continue(first) PROVE drain'.box = drain.box /\ drain'.first = first
  BY <1>4 DEF Continue, TypeOK
<1>5. CASE drain_drop
  <2>1. drain'.box = drain.box /\ drain'.first = First
    BY <1>4, <1>5 DEF drain_drop
  <2>2. SendQueue' = Tail(SendQueue)
    BY <1>3, <1>5, <2>1 DEF drain_drop, SendQueue, TypeOK, Kinds
  <2>3. QED
    BY <1>2, <1>3, <1>5, <2>1, <2>2 DEF drain_drop
<1>6. CASE drain_unmatched
  <2>1. drain'.box = drain.box /\ drain'.first = First
    BY <1>4, <1>6 DEF drain_unmatched
  <2>2. SendQueue' = Rotated(SendQueue)
    BY <1>3, <1>6, <2>1 DEF drain_unmatched, SendQueue, TypeOK, Kinds
  <2>3. QED
    BY <1>2, <1>3, <1>6, <2>1, <2>2 DEF drain_unmatched
<1>7. CASE drain_drop_recv \/ drain_busy
  <2>1. drain'.box = drain.box /\ drain'.first = First /\ free' = free
    BY <1>4, <1>7 DEF drain_drop_recv, drain_busy
  <2>2. To \in Boxes
    BY <1>7, RecvType DEF drain_drop_recv, drain_busy
  <2>3. SendQueue' = Rotated(SendQueue)
    BY <1>3, <1>7, <2>1, <2>2 DEF drain_drop_recv, drain_busy, SendQueue, TypeOK, Kinds
  <2>4. QED
    BY <1>2, <1>3, <2>1, <2>3
<1>8. CASE ipc_deliver
  <2>1. drain'.box = drain.box /\ drain'.first = NextFirst
    BY <1>4, <1>8 DEF ipc_deliver
  <2>2. SendQueue' = Tail(SendQueue)
    BY <1>3, <1>8, <2>1, DeliveredRequests DEF ipc_deliver, Left, SendQueue, TypeOK, Kinds
  <2>3. QED
    BY <1>2, <1>3, <1>8, <2>1, <2>2
<1>9. QED
  BY <1>1, <1>5, <1>6, <1>7, <1>8

LEMMA FirstNext == TypeOK /\ SlotInv /\ FirstInv /\ [Next]_vars => FirstInv'
<1> SUFFICES ASSUME TypeOK, SlotInv, FirstInv, [Next]_vars, Draining'
             PROVE  drain'.first \notin free'[drain'.box]["send"]
  BY DEF FirstInv
<1>1. CASE UNCHANGED vars
  BY <1>1 DEF vars, FirstInv, Draining
<1>2. CASE \E b \in Boxes : ipc_drain_queue(b)
  BY <1>2, IpcAssumption DEF ipc_drain_queue, TypeOK, Kinds, Slots, NONE
<1>3. CASE \E t \in Threads : ThreadStep(t)
  BY <1>3 DEF ThreadStep, ipc_io, ipc_wait, lock, ipc_allocate_token, allocate_slot, enqueue, ipc_waitfor,
              GoTo, Draining
<1>4. CASE Drain
  <2>1. /\ Visit /\ CanDequeue /\ Draining /\ drain'.box = drain.box /\ drain.box \in Boxes
    BY <1>4, PassCases DEF Visit, CanDequeue
  <2>2. drain.first \notin free[drain.box]["send"]
    BY <2>1 DEF FirstInv
  <2>3. Send.slot \notin free[drain.box]["send"]
    <3>1. SendQueue \in Seq(Entries) /\ SendQueue # <<>>
      BY <2>1, SendType DEF CanDequeue
    <3>2. 1 \in DOMAIN queue[drain.box]["send"] /\ Send = queue[drain.box]["send"][1]
      BY <3>1 DEF Send, SendQueue
    <3>3. QED
      BY <2>1, <3>2 DEF SlotInv, SlotsApart, Kinds
  <2>4. CASE drain'.first = First /\ free' = free
    BY <2>1, <2>2, <2>3, <2>4 DEF First
  <2>5. CASE ipc_deliver /\ drain'.first = NextFirst
    <3>1. free'[drain.box]["send"] = free[drain.box]["send"] \cup {Send.slot}
      BY <2>5, DeliveredRequests DEF ipc_deliver, Freed, TypeOK, Kinds
    <3>2. NONE \notin free[drain.box]["send"] /\ NONE # Send.slot
      BY <2>1, SendType, NoneIsNoSlot DEF TypeOK, Kinds
    <3>3. QED
      BY <2>1, <2>2, <2>5, <3>1, <3>2 DEF NextFirst, First
  <2>6. QED
    BY <1>4, <2>4, <2>5, PassCases
<1>5. QED
  BY <1>1, <1>2, <1>3, <1>4 DEF Next, ThreadStep

\* One step, for DrainProgress.
LEMMA ProgressStep ==
  ASSUME TypeOK, SlotInv, FirstInv, Next, Draining, Draining', ~FirstDropped'
  PROVE  \/ Len(SendQueue)' < Len(SendQueue)
         \/ Len(SendQueue)' = Len(SendQueue) /\ FirstAt' < FirstAt
<1>1. Drain
  BY DrainAlone
<1>2. Visit /\ CanDequeue /\ drain'.box = drain.box /\ drain.box \in Boxes
  BY <1>1, PassCases DEF Visit
<1> DEFINE q == SendQueue
<1>3. q \in Seq(Entries) /\ q # <<>> /\ q = queue[drain.box]["send"]
  BY <1>2, SendType DEF CanDequeue, SendQueue
<1>4. DOMAIN q = 1 .. Len(q) /\ Len(q) \in Nat \ {0} /\ Send = q[1]
  BY <1>3, EmptySeq DEF Send
<1>5. CASE SendQueue' = Tail(SendQueue)
  <2>1. Len(Tail(SendQueue)) = Len(SendQueue) - 1 /\ Len(SendQueue) \in Nat
    BY <1>3, HeadTailProperties
  <2>2. Len(SendQueue)' = Len(SendQueue) - 1
    BY <1>5, <2>1, Zenon
  <2>3. QED
    BY <2>1, <2>2
<1>6. CASE drain'.first = First /\ free' = free /\ SendQueue' = Rotated(SendQueue)
  <2> DEFINE r == SendQueue'
  <2>1. /\ Len(r) = Len(q) /\ DOMAIN r = 1 .. Len(q)
        /\ \A i \in DOMAIN r : r[i] = IF i = Len(q) THEN q[1] ELSE q[i + 1]
    <3>1. Rotated(q) \in Seq(Entries)
      BY <1>2, SendType
    <3>2. QED
      BY <1>3, <1>6, <3>1, PicksRotated
  <2> DEFINE at == {i \in DOMAIN q : q[i].slot = drain.first}
             new == {i \in DOMAIN r : r[i].slot = First}
  <2>2. /\ FirstAt = IF at = {} THEN Len(q) + 1 ELSE CHOOSE i \in at : TRUE
        /\ FirstAt' = IF new = {} THEN Len(r) + 1 ELSE CHOOSE i \in new : TRUE
    BY <1>6 DEF FirstAt
  <2> HIDE DEF q, r
  <2>3. Send \in Entries /\ Send.slot # NONE
    BY <1>2, SendType, NoneIsNoSlot
  <2>4. CASE drain.first = NONE
    <3>1. at = {}
      <4>1. \A i \in DOMAIN q : q[i] \in Entries
        BY <1>3
      <4>2. QED
        BY <2>4, <4>1, NoneIsNoSlot
    <3>2. First = Send.slot /\ Len(q) \in new
      BY <1>4, <2>1, <2>4 DEF First
    <3>3. FirstAt = Len(q) + 1 /\ FirstAt' \in 1 .. Len(q)
      BY <2>1, <2>2, <3>1, <3>2
    <3>4. QED
      BY <1>4, <2>1, <3>3 DEF q, r
  <2>5. CASE drain.first # NONE
    <3>1. First = drain.first /\ First # Send.slot
      BY <1>2, <2>5 DEF First, Visit
    <3>2. First \notin free[drain.box]["send"]
      BY <3>1 DEF FirstInv
    <3>3. \E i \in DOMAIN r : r[i].slot = First
      BY <1>2, <1>6, <2>5, <3>1, <3>2 DEF FirstDropped, Queued, SendQueue, r
    <3>4. PICK j \in new : FirstAt' = j
      BY <2>2, <3>3
    <3>5. j \in 1 .. Len(q) - 1 /\ q[j + 1].slot = drain.first
      BY <1>4, <2>1, <3>1
    <3>6. j + 1 \in at
      BY <1>4, <3>5
    <3>7. \A i \in at : i = j + 1
      BY <1>2, <1>3, <3>6 DEF SlotInv, SlotsApart, Kinds
    <3>8. FirstAt = j + 1
      BY <2>2, <3>6, <3>7
    <3>9. QED
      BY <1>4, <2>1, <3>4, <3>5, <3>8 DEF q, r
  <2>6. QED
    BY <2>4, <2>5
<1>7. QED
  BY <1>1, <1>5, <1>6, PassCases

\* For any number of boxes, threads, slots and requests: every pass of the loop
\* of ipc_drain_queue that does not end it comes closer to its end, unless the
\* loop dropped the request that it started from.
THEOREM DrainComesToAnEnd == Spec => DrainProgress
<1> DEFINE Closer == Draining /\ Draining' /\ ~FirstDropped' =>
             \/ Len(SendQueue)' < Len(SendQueue)
             \/ Len(SendQueue)' = Len(SendQueue) /\ FirstAt' < FirstAt
<1>1. Init => SlotInv /\ FirstInv
  <2>1. Init => SlotInv
    BY DEF Init, SlotInv, SlotsApart, Makers, NoJob
  <2>2. Init => FirstInv
    BY DEF Init, FirstInv, Draining
  <2>3. QED
    BY <2>1, <2>2
<1>2. Spec => [](SlotInv /\ FirstInv)
  BY <1>1, SlotNext, FirstNext, IpcTypes, PTL DEF Spec
<1>3. TypeOK /\ SlotInv /\ FirstInv /\ [Next]_vars => [Closer]_vars
  BY ProgressStep
<1>4. QED
  BY <1>2, <1>3, IpcTypes, PTL DEF Spec, DrainProgress
=============================================================================
