-------------------------- MODULE RevMemOrderProofs --------------------------
(***************************************************************************)
(* The order of requests in the memory controller, whatever the requests,  *)
(* the limits and the order of answers: the counters are exact, a fence    *)
(* orders the loads and stores on its sides, and a load returns the last   *)
(* store.  The first two hold when no READLOCK is sent: its answer is      *)
(* counted as that of a READ (handleReadResp).                             *)
(***************************************************************************)
EXTENDS RevMemCtrlProofs

\* The provers a leaf that names none is given to, in this order.
USE SMTT(10), ZenonT(10), SMTT(60), Z3T(60)

-----------------------------------------------------------------------------
(* The fence.                                                              *)

First(n) == [rqst |-> n, kind |-> OpKind(sent[n])]

\* clockTick runs its loop only when no fence waits, and within its limits.
ITick ==
  /\ num_fence <= 1
  /\ ticking => /\ num_fence = 0
                /\ t_max_ops < max_ops
                /\ \A k \in Kinds : t_max[k] <= t_max_ops

\* The first operations of the requests wait in the order they were sent.
IQueue ==
  \A i, j \in DOMAIN rqstQ :
    /\ i < j
    /\ rqstQ[i] = First(rqstQ[i].rqst)
    /\ rqstQ[j] = First(rqstQ[j].rqst)
    => rqstQ[i].rqst < rqstQ[j].rqst

\* Nothing overtakes a load, a store, an AMO or a fence in the queue.
IStarted ==
  InOrder => \A m, n \in Sent :
    /\ m < n /\ sent[m].kind \in {"READ", "WRITE", "AMO", "FENCE"}
    /\ Started(n)
    => Started(m)

\* When a fence has been waited for, the loads and stores before it are done.
IFenced ==
  InOrder /\ num_fence = 0 => \A m, f \in Sent :
    /\ m < f /\ sent[m].kind \in {"READ", "WRITE"} /\ sent[f].kind = "FENCE"
    /\ Started(f)
    => Done(m)

\* The fence waits until no load and no store is in flight.
ICounted ==
  TotalRqsts = 0 => \A o \in InFlight : o.op.kind \notin {"READ", "WRITE"}

IOrder == ITick /\ IQueue /\ IStarted
IFence == IFenced /\ FenceOrders

\* The operations in the queue, typed.
LEMMA QueueFacts ==
  ASSUME Inv
  PROVE  /\ rqstQ \in Seq(Ops) /\ Sent \subseteq Nat
         /\ \A i \in DOMAIN rqstQ : rqstQ[i] \in Ops /\ rqstQ[i].rqst \in Sent
<1>1. rqstQ \in Seq(Ops) /\ Sent \subseteq Nat
  BY DEF Inv, Types, Sent
<1>2. \A i \in DOMAIN rqstQ : rqstQ[i] \in Ops /\ rqstQ[i] \in Queued
  BY <1>1 DEF Queued, Range
<1> QED
  BY <1>1, <1>2 DEF Inv, IOps

\* A new request is last in the queue and not started.
LEMMA SendFence ==
  ASSUME Inv, IOrder, NEW r \in Requests, Send(r)
  PROVE  IOrder' /\ (IFence => IFence')
<1> USE DEF Inv
<1>1. PICK n : n = Len(sent) + 1
  OBVIOUS
<1>2. PICK op : op = [rqst |-> n, kind |-> OpKind(r)]
  BY Zenon
<1>3. sent \in Seq(Requests) /\ Len(sent) \in Nat /\ Sent = 1 .. Len(sent)
  BY DEF Types, Sent
<1>4. /\ sent' = Append(sent, r) /\ rqstQ' = Append(rqstQ, op) /\ live' = live \cup {op}
      /\ UNCHANGED <<max, num_fence, ticking, t_max, t_max_ops>>
  BY <1>1, <1>2 DEF Send, config, tickVars
<1>5. /\ Sent' = Sent \cup {n} /\ sent'[n] = r /\ \A m \in Sent : m < n /\ sent'[m] = sent[m]
      /\ n \in Nat
  BY <1>1, <1>3, <1>4 DEF Sent
<1>6. /\ First(n)' = op /\ \A m \in Sent : First(m)' = First(m) /\ First(m) # op
  BY <1>2, <1>5 DEF First
<1>7. rqstQ \in Seq(Ops) /\ \A i \in DOMAIN rqstQ : rqstQ[i].rqst \in Sent
  BY QueueFacts
<1>8. /\ DOMAIN rqstQ' = 1 .. Len(rqstQ) + 1 /\ DOMAIN rqstQ = 1 .. Len(rqstQ)
      /\ Len(rqstQ) \in Nat /\ rqstQ'[Len(rqstQ) + 1] = op
      /\ \A i \in DOMAIN rqstQ : rqstQ'[i] = rqstQ[i]
  BY <1>4, <1>7
<1>9. Queued' = Queued \cup {op}
  BY <1>8 DEF Queued, Range
<1>10. ~Started(n)' /\ \A m \in Sent : (Started(m)' <=> Started(m)) /\ (Done(m)' <=> Done(m))
  <2>1. \A m : (Started(m) <=> First(m) \notin Queued) /\ (Started(m)' <=> First(m)' \notin Queued')
    BY DEF Started, First
  <2>2. \A m \in Sent : m # n
    BY <1>5, <1>3
  <2>3. \A m \in Sent : Done(m)' <=> Done(m)
    BY <1>2, <1>4, <2>2 DEF Done
  <2> QED
    BY <1>6, <1>9, <2>1, <2>3
<1>11. ITick'
  BY <1>4 DEF IOrder, ITick
<1>12. IQueue'
  <2> SUFFICES ASSUME NEW i \in DOMAIN rqstQ', NEW j \in DOMAIN rqstQ', i < j,
                      (rqstQ[i] = First(rqstQ[i].rqst))', (rqstQ[j] = First(rqstQ[j].rqst))'
               PROVE  rqstQ'[i].rqst < rqstQ'[j].rqst
    BY DEF IQueue
  <2>1. i \in DOMAIN rqstQ /\ rqstQ'[i] = rqstQ[i] /\ rqstQ[i].rqst \in Sent
    BY <1>7, <1>8
  <2>2. CASE j \in DOMAIN rqstQ
    <3>1. rqstQ'[j] = rqstQ[j] /\ rqstQ[j].rqst \in Sent
      BY <1>7, <1>8, <2>2
    <3>2. rqstQ[i] = First(rqstQ[i].rqst) /\ rqstQ[j] = First(rqstQ[j].rqst)
      BY <1>5, <2>1, <3>1 DEF First
    <3> QED
      BY <2>1, <2>2, <3>1, <3>2 DEF IOrder, IQueue
  <2>3. CASE j \notin DOMAIN rqstQ
    <3>1. rqstQ'[j] = op
      BY <1>8, <2>3
    <3> QED
      BY <1>2, <1>5, <2>1, <3>1
  <2> QED
    BY <2>2, <2>3
<1>13. InOrder' <=> InOrder
  BY <1>4 DEF InOrder
<1>14. \A m, k \in Sent' : m < k => m \in Sent
  BY <1>3, <1>5
<1>15. IStarted'
  BY <1>5, <1>10, <1>13, <1>14 DEF IOrder, IStarted
<1>16. IFenced => IFenced'
  BY ZenonT(40), <1>4, <1>5, <1>10, <1>13, <1>14 DEF IFenced
<1>17. FenceOrders => FenceOrders'
  BY <1>5, <1>10, <1>13, <1>14 DEF FenceOrders
<1> QED
  BY <1>11, <1>12, <1>15, <1>16, <1>17 DEF IOrder, IFence

\* The order of the queue survives an erase.
LEMMA TakenQueue ==
  ASSUME Inv, IQueue, NEW i \in DOMAIN rqstQ, rqstQ' = Erase(rqstQ, i), sent' = sent
  PROVE  IQueue'
<1>1. rqstQ \in Seq(Ops) /\ i \in 1 .. Len(rqstQ)
  BY DEF Inv, Types
<1>2. \A n : First(n)' = First(n)
  BY DEF First
<1> SUFFICES ASSUME NEW a \in DOMAIN rqstQ', NEW b \in DOMAIN rqstQ', a < b,
                    rqstQ'[a] = First(rqstQ'[a].rqst), rqstQ'[b] = First(rqstQ'[b].rqst)
             PROVE  rqstQ'[a].rqst < rqstQ'[b].rqst
  BY <1>2 DEF IQueue
<1>3. PICK u, v \in DOMAIN rqstQ : u < v /\ rqstQ'[a] = rqstQ[u] /\ rqstQ'[b] = rqstQ[v]
  BY <1>1, EraseOrder
<1> QED
  BY <1>3 DEF IQueue

\* What clockTick takes from the queue overtakes no load, store, AMO or fence.
LEMMA NoneOvertaken ==
  ASSUME Inv, IOrder, InOrder, NEW i \in DOMAIN rqstQ, Candidate(i),
         NEW m \in Sent, NEW n \in Sent, m < n, rqstQ[i] = First(n),
         sent[m].kind \in {"READ", "WRITE", "AMO", "FENCE"}
  PROVE  Started(m)
<1> SUFFICES ASSUME First(m) \in Queued PROVE FALSE
  BY DEF Started, First
<1>1. PICK j \in DOMAIN rqstQ : rqstQ[j] = First(m)
  BY DEF Queued, Range
<1>2. rqstQ[j].rqst = m /\ rqstQ[i].rqst = n /\ rqstQ[j].kind \in {"READ", "WRITE", "FENCE"}
  BY <1>1 DEF First, OpKind
<1>3. isMemOpAvail(rqstQ[j])
  <2>1. ASSUME NEW k \in {"READ", "WRITE"} PROVE t_max[k] < max[k]
    <3>1. /\ ticking /\ t_max[k] \in Nat /\ t_max_ops \in Nat /\ max[k] \in Nat
          /\ max_ops \in Nat
      BY Zenon, LimitAssumption DEF Inv, Types, Candidate, Kinds
    <3>2. t_max_ops < max_ops /\ t_max[k] <= t_max_ops /\ max_ops <= max[k]
      BY <3>1 DEF IOrder, ITick, InOrder, Kinds
    <3> QED
      BY ONLY <3>1, <3>2
  <2> QED
    BY <1>2, <2>1 DEF isMemOpAvail, Kinds
<1>4. i \in Nat /\ j \in Nat /\ j >= 1 /\ m \in Nat /\ n \in Nat
  BY QueueFacts
<1>5. ~(j < i)
  BY <1>3, <1>4 DEF Candidate
<1>6. i < j
  BY <1>2, <1>4, <1>5
<1>7. n < m
  BY <1>1, <1>2, <1>6 DEF IOrder, IQueue
<1> QED
  BY <1>4, <1>7

\* Taking the candidate of processNextRqst keeps the orders.
LEMMA TakenFence ==
  ASSUME Inv, IOrder, NEW i \in DOMAIN rqstQ, Candidate(i), rqstQ' = Erase(rqstQ, i),
         UNCHANGED <<sent, max>>, \A m : Done(m) => Done(m)'
  PROVE  /\ IQueue' /\ IStarted'
         /\ IFence => FenceOrders'
         /\ IFence /\ rqstQ[i].kind # "FENCE" /\ num_fence' = num_fence => IFenced'
<1>1. Queued' = Queued \ {rqstQ[i]}
  BY TakenFacts DEF Inv
<1>2. Sent' = Sent /\ (InOrder' <=> InOrder) /\ \A n : First(n)' = First(n)
  BY DEF Sent, InOrder, First
<1>3. \A n : Started(n) <=> First(n) \notin Queued
  BY DEF Started, First
<1>4. \A n : Started(n)' <=> First(n) \notin Queued'
  BY <1>2 DEF Started, First
<1>5. \A n : Started(n)' <=> (Started(n) \/ rqstQ[i] = First(n))
  BY <1>1, <1>3, <1>4
<1>6. IQueue'
  BY TakenQueue DEF IOrder
<1>7. IStarted'
  <2> SUFFICES ASSUME InOrder, NEW m \in Sent, NEW n \in Sent, m < n,
                      sent[m].kind \in {"READ", "WRITE", "AMO", "FENCE"}, Started(n)'
               PROVE  Started(m)'
    BY <1>2 DEF IStarted
  <2>1. CASE Started(n)
    BY <1>5, <2>1 DEF IOrder, IStarted
  <2>2. CASE rqstQ[i] = First(n)
    BY <1>5, <2>2, NoneOvertaken
  <2> QED
    BY <1>5, <2>1, <2>2
<1>8. num_fence = 0
  BY DEF Candidate, IOrder, ITick
<1>9. ASSUME IFence PROVE FenceOrders'
  <2> SUFFICES ASSUME InOrder, NEW m \in Sent, NEW f \in Sent, NEW n \in Sent, m < f, f < n,
                      sent[m].kind \in {"READ", "WRITE"}, sent[f].kind = "FENCE", Started(n)'
               PROVE  Done(m)
    BY <1>2 DEF FenceOrders
  <2>1. CASE Started(n)
    BY <1>9, <2>1 DEF IFence, FenceOrders
  <2>2. CASE rqstQ[i] = First(n)
    <3>1. Started(f)
      BY <2>2, NoneOvertaken
    <3> QED
      BY <1>8, <1>9, <3>1 DEF IFence, IFenced
  <2> QED
    BY <1>5, <2>1, <2>2
<1>10. ASSUME IFence, rqstQ[i].kind # "FENCE", num_fence' = num_fence PROVE IFenced'
  <2>1. \A f \in Sent : sent[f].kind = "FENCE" => rqstQ[i] # First(f)
    BY <1>10 DEF First, OpKind
  <2> QED
    BY <1>2, <1>5, <1>10, <2>1 DEF IFence, IFenced
<1> QED
  BY <1>6, <1>7, <1>9, <1>10

\* Dispatch starts no fence and stays within the limits of the cycle.
LEMMA DispatchFence ==
  ASSUME Inv, IOrder, NEW i \in DOMAIN rqstQ, Dispatch(i)
  PROVE  IOrder' /\ (IFence => IFence')
<1>1. PICK op : op = rqstQ[i]
  OBVIOUS
<1>2. /\ Candidate(i) /\ op.kind # "FENCE" /\ rqstQ' = Erase(rqstQ, i)
      /\ UNCHANGED <<sent, max, live, num_fence>>
      /\ t_max' = [t_max EXCEPT ![op.kind] = @ + 1]
      /\ t_max_ops' = t_max_ops + 1
      /\ ticking' = (t_max_ops + 1 # max_ops)
  BY <1>1 DEF Dispatch, config
<1>3. \A m : Done(m) => Done(m)'
  BY <1>2 DEF Done
<1>4. IQueue' /\ IStarted' /\ (IFence => FenceOrders' /\ IFenced')
  BY <1>1, <1>2, <1>3, TakenFence
<1>5. ITick'
  <2>1. /\ ticking /\ t_max \in [Kinds -> Nat] /\ t_max_ops \in Nat /\ max_ops \in Nat
    BY <1>2, LimitAssumption DEF Candidate, Inv, Types
  <2>2. num_fence = 0 /\ t_max_ops < max_ops /\ \A k \in Kinds : t_max[k] <= t_max_ops
    BY <2>1 DEF IOrder, ITick
  <2>3. \A k \in Kinds : t_max'[k] <= t_max[k] + 1 /\ t_max[k] \in Nat /\ t_max'[k] \in Nat
    BY <1>2, <2>1
  <2>4. \A k \in Kinds : t_max'[k] <= t_max_ops'
    BY <1>2, <2>1, <2>2, <2>3
  <2>5. ticking' => t_max_ops' < max_ops
    <3>1. ticking' => t_max_ops + 1 # max_ops
      BY Zenon, <1>2
    <3>2. t_max_ops + 1 # max_ops => t_max_ops' < max_ops
      BY <1>2, <2>1, <2>2
    <3> QED
      BY Zenon, <3>1, <3>2
  <2>6. num_fence' = 0 /\ num_fence' <= 1
    BY <1>2, <2>2
  <2> QED
    BY <2>4, <2>5, <2>6 DEF ITick
<1> QED
  BY <1>4, <1>5 DEF IOrder, IFence

\* A fence ends the cycle, and the next one waits.
LEMMA FenceFence ==
  ASSUME Inv, IOrder, NEW i \in DOMAIN rqstQ, Fence(i)
  PROVE  IOrder' /\ (IFence => IFence')
<1>1. /\ Candidate(i) /\ rqstQ' = Erase(rqstQ, i) /\ UNCHANGED <<sent, max>>
      /\ live' = live \ {rqstQ[i]} /\ num_fence' = num_fence + 1 /\ ~ticking'
  BY DEF Fence, config
<1>2. \A m : Done(m) => Done(m)'
  BY <1>1 DEF Done
<1>3. IQueue' /\ IStarted' /\ (IFence => FenceOrders')
  BY <1>1, <1>2, TakenFence
<1>4. num_fence = 0
  BY <1>1 DEF Candidate, IOrder, ITick
<1>5. num_fence' = 1
  BY <1>1, <1>4
<1>6. ITick' /\ IFenced'
  BY <1>1, <1>5 DEF ITick, IFenced
<1> QED
  BY <1>3, <1>6 DEF IOrder, IFence

\* The responses end operations; the WRITE of an AMO is none of the first operations.
LEMMA ResponseFence ==
  ASSUME Inv, IOrder, NEW i \in DOMAIN outstanding, NEW p \in outstanding[i].parts,
         Response(i, p)
  PROVE  IOrder' /\ (IFence => IFence')
<1>1. PICK op : op = outstanding[i].op
  OBVIOUS
<1>2. PICK write : write = [op EXCEPT !.kind = "WRITE"]
  BY Zenon
<1>3. UNCHANGED <<sent, max, num_fence, ticking, t_max, t_max_ops>>
  BY Zenon DEF Response, handleReadResp, handleWriteResp, handleFlushResp, config, tickVars, queueVars
<1>4. op \in Ops /\ op \in live /\ op.rqst \in Sent /\ write.rqst = op.rqst /\ write.kind = "WRITE"
      /\ write \in Ops
  BY <1>1, <1>2, EntryFacts DEF Inv, Ops, Kinds
<1>5. \/ rqstQ' = rqstQ /\ live' \subseteq live
      \/ rqstQ' = Append(rqstQ, write) /\ live' \subseteq live \cup {write} /\ op \in AMOTable
  BY ZenonT(40), <1>1, <1>2 DEF Response, handleReadResp, handleWriteResp, handleFlushResp, handleAMO, queueVars
<1>6. \A m : Done(m) => Done(m)'
  BY <1>4, <1>5 DEF Done
<1>7. Sent' = Sent /\ (InOrder' <=> InOrder) /\ \A n : First(n)' = First(n)
  BY <1>3 DEF Sent, InOrder, First
<1>8. \A n : (Started(n) <=> First(n) \notin Queued) /\ (Started(n)' <=> First(n) \notin Queued')
  BY <1>7 DEF Started, First
<1>9. (\A n : Started(n)' <=> Started(n)) /\ IQueue'
  <2>1. CASE rqstQ' = rqstQ
    BY <1>7, <1>8, <2>1 DEF Queued, IOrder, IQueue
  <2>2. CASE rqstQ' = Append(rqstQ, write) /\ op \in AMOTable
    <3>1. \A n : write # First(n)
      <4>1. sent[op.rqst].kind = "AMO"
        BY <2>2 DEF Inv, IOps, Atomic, Rqst
      <4> QED
        BY <1>4, <4>1 DEF First, OpKind
    <3>2. rqstQ \in Seq(Ops)
      BY QueueFacts
    <3>3. /\ DOMAIN rqstQ' = 1 .. Len(rqstQ) + 1 /\ DOMAIN rqstQ = 1 .. Len(rqstQ)
          /\ Len(rqstQ) \in Nat /\ rqstQ'[Len(rqstQ) + 1] = write
          /\ \A j \in DOMAIN rqstQ : rqstQ'[j] = rqstQ[j]
      BY <2>2, <3>2
    <3>4. Queued' = Queued \cup {write}
      BY <3>3 DEF Queued, Range
    <3>5. \A j \in DOMAIN rqstQ' : rqstQ'[j] = First(rqstQ'[j].rqst) => j \in DOMAIN rqstQ
      BY <3>1, <3>3
    <3>6. IQueue'
      BY <1>7, <3>3, <3>5 DEF IOrder, IQueue
    <3> QED
      BY <1>8, <3>1, <3>4, <3>6
  <2> QED
    BY <1>5, <2>1, <2>2
<1>10. ITick'
  BY <1>3 DEF IOrder, ITick
<1>11. IStarted'
  BY <1>3, <1>7, <1>9 DEF IOrder, IStarted
<1>12. IFenced => IFenced'
  BY <1>3, <1>6, <1>7, <1>9 DEF IFenced
<1>13. FenceOrders => FenceOrders'
  BY <1>3, <1>6, <1>7, <1>9 DEF FenceOrders
<1> QED
  BY <1>9, <1>10, <1>11, <1>12, <1>13 DEF IOrder, IFence

\* The fence has been waited for when the next cycle starts.
LEMMA StartTickFence ==
  ASSUME Inv, IOrder, StartTick
  PROVE  IOrder' /\ (ICounted /\ IFence => IFence')
<1>1. /\ num_fence > 0 => TotalRqsts = 0
      /\ num_fence' = IF num_fence > 0 THEN num_fence - 1 ELSE num_fence
      /\ ticking' /\ t_max' = [k \in Kinds |-> 0] /\ t_max_ops' = 0
      /\ UNCHANGED <<sent, rqstQ, max, live>>
  BY DEF StartTick, config, queueVars
<1>2. Sent' = Sent /\ (InOrder' <=> InOrder) /\ \A n : First(n)' = First(n)
  BY <1>1 DEF Sent, InOrder, First
<1>3. \A n : (Started(n)' <=> Started(n)) /\ (Done(n)' <=> Done(n))
  BY <1>1 DEF Started, Done, Queued
<1>4. ITick'
  <2>1. num_fence \in Nat /\ num_fence <= 1 /\ max_ops \in Nat \ {0}
    BY LimitAssumption DEF Inv, Types, IOrder, ITick
  <2>2. num_fence' = 0
    BY <1>1, <2>1
  <2> QED
    BY <1>1, <2>1, <2>2 DEF ITick
<1>5. IQueue'
  BY <1>1, <1>2 DEF IOrder, IQueue
<1>6. IStarted'
  BY <1>1, <1>2, <1>3 DEF IOrder, IStarted
<1>7. FenceOrders => FenceOrders'
  BY <1>1, <1>2, <1>3 DEF FenceOrders
<1>8. ASSUME ICounted, IFenced PROVE IFenced'
  <2> SUFFICES ASSUME InOrder, NEW m \in Sent, NEW f \in Sent, m < f,
                      sent[m].kind \in {"READ", "WRITE"}, sent[f].kind = "FENCE", Started(f)
               PROVE  Done(m)
    BY <1>1, <1>2, <1>3 DEF IFenced
  <2>1. CASE num_fence = 0
    BY <1>8, <2>1 DEF IFenced
  <2>2. CASE num_fence # 0
    <3>1. TotalRqsts = 0
      <4>1. num_fence \in Nat
        BY DEF Inv, Types
      <4> QED
        BY <1>1, <2>2, <4>1
    <3>2. Started(m)
      BY DEF IOrder, IStarted
    <3> SUFFICES ASSUME NEW op \in live, op.rqst = m PROVE FALSE
      BY DEF Done
    <3>3. op.kind = sent[m].kind /\ op.kind = OpKind(sent[m]) /\ op \in Ops
      <4>1. op.kind = OpKind(Rqst(op)) \/ Atomic(op)
        BY Zenon DEF Inv, IOps
      <4>2. Rqst(op) = sent[m]
        BY Zenon DEF Rqst
      <4>3. ~Atomic(op) /\ OpKind(sent[m]) = sent[m].kind
        BY <4>2 DEF Atomic, OpKind
      <4>4. op \in Ops
        BY Zenon DEF Inv, Types
      <4> QED
        BY Zenon, <4>1, <4>2, <4>3, <4>4
    <3>4. op \notin Queued
      BY <3>2, <3>3 DEF Started, Ops
    <3>5. PICK o \in InFlight : o.op = op
      BY <3>4 DEF Inv, IOps
    <3> QED
      BY <3>1, <3>3, <3>5, <1>8 DEF ICounted
  <2> QED
    BY <2>1, <2>2
<1> QED
  BY <1>4, <1>5, <1>6, <1>7, <1>8 DEF IOrder, IFence

\* The end of a cycle starts nothing.
LEMMA QuietFence ==
  ASSUME Inv, IOrder, EndTick \/ UNCHANGED vars
  PROVE  IOrder' /\ (IFence => IFence')
<1>1. /\ UNCHANGED <<sent, rqstQ, max, live, num_fence, t_max, t_max_ops>>
      /\ ticking' = ticking \/ ticking' = FALSE
  BY DEF EndTick, vars, config, queueVars, tickVars
<1>2. Sent' = Sent /\ (InOrder' <=> InOrder) /\ \A n : First(n)' = First(n)
  BY <1>1 DEF Sent, InOrder, First
<1>3. \A n : (Started(n)' <=> Started(n)) /\ (Done(n)' <=> Done(n))
  BY <1>1 DEF Started, Done, Queued
<1>4. ITick'
  BY <1>1 DEF IOrder, ITick
<1>5. IQueue'
  BY <1>1, <1>2 DEF IOrder, IQueue
<1>6. IStarted'
  BY <1>1, <1>2, <1>3 DEF IOrder, IStarted
<1>7. FenceOrders => FenceOrders'
  BY <1>1, <1>2, <1>3 DEF FenceOrders
<1>8. IFenced => IFenced'
  BY <1>1, <1>2, <1>3 DEF IFenced
<1> QED
  BY <1>4, <1>5, <1>6, <1>7, <1>8 DEF IOrder, IFence

\* No request has been sent at first.
LEMMA InitFence == Init => IOrder /\ IFence
<1> SUFFICES ASSUME Init PROVE IOrder /\ IFence
  OBVIOUS
<1>1. Sent = {} /\ DOMAIN rqstQ = {} /\ num_fence = 0 /\ ~ticking
  BY DEF Init, Sent
<1> QED
  BY <1>1 DEF IOrder, IFence, ITick, IQueue, IStarted, IFenced, FenceOrders

LEMMA OrderInductive ==
  ASSUME Inv, IOrder, [Next]_vars
  PROVE  IOrder' /\ (ICounted /\ IFence => IFence')
BY ZenonT(40), SendFence, DispatchFence, FenceFence, ResponseFence, StartTickFence, QuietFence
   DEF Next, Tick, Respond

-----------------------------------------------------------------------------
(* Loads see the last store.                                               *)

\* The loads, stores and AMOs on a line
On(l) == {n \in Sent : sent[n].kind \in {"READ", "WRITE", "AMO"} /\ l \in sent[n].at}

\* The first operation of request n has not been answered for line l.
Pending(n, l) ==
  \/ First(n) \in Queued
  \/ \E o \in InFlight : o.op = First(n) /\ \E p \in o.parts : l \in p

NoAMO(n, l) == \A k \in On(l) : k < n => sent[k].kind # "AMO"

IsFirst(op) == op = First(op.rqst) /\ op.kind \in {"READ", "WRITE"}

\* First operations are in flight in the order they were sent.
IFlight ==
  InOrder => \A i, j \in DOMAIN outstanding :
    /\ i < j /\ IsFirst(outstanding[i].op) /\ IsFirst(outstanding[j].op)
    => outstanding[i].op.rqst < outstanding[j].op.rqst

\* The parts of an operation do not overlap.
IParts ==
  \A o \in InFlight :
    /\ \A p \in o.parts : p \subseteq Rqst(o.op).at
    /\ \A p, q \in o.parts : p # q => p \cap q = {}

\* A line is served in the order of the requests.
IServed ==
  InOrder => \A l \in Lines : \A m, n \in On(l) :
    m < n /\ Pending(m, l) => Pending(n, l)

\* A line holds the version of a request that has been served.
IWriter ==
  \A l \in Lines : mem[l] # 0 =>
    mem[l] \in On(l) /\ sent[mem[l]].kind # "READ" /\ ~Pending(mem[l], l)

\* It is not older than any store that has been served, if no AMO came before.
IVersion ==
  InOrder => \A l \in Lines : \A m \in On(l) :
    sent[m].kind = "WRITE" /\ NoAMO(m, l) /\ ~Pending(m, l) => m <= mem[l]

Latest(v, n, l) ==
  LET before == {m \in On(l) : m < n /\ sent[m].kind = "WRITE"}
  IN  \/ v = 0 /\ before = {}
      \/ v \in before /\ \A m \in before : m <= v

IRead ==
  InOrder => \A l \in Lines : \A n \in On(l) :
    sent[n].kind = "READ" /\ NoAMO(n, l) /\ ~Pending(n, l) => Latest(seen[n][l], n, l)

IFifo == IFlight /\ IParts
ILines == IServed /\ IWriter /\ IVersion /\ IRead

\* The requests on a line, typed.
LEMMA OnFacts ==
  ASSUME Inv, NEW l
  PROVE  /\ On(l) \subseteq Sent /\ Sent \subseteq Nat \ {0} /\ Sent \subseteq Ids
         /\ \A n \in On(l) : /\ First(n).rqst = n /\ First(n).kind = OpKind(sent[n])
                             /\ First(n).kind \in {"READ", "WRITE"}
                             /\ sent[n].kind = "WRITE" <=> First(n).kind = "WRITE"
                             /\ IsFirst(First(n)) /\ l \in sent[n].at
<1>1. Sent \subseteq Nat \ {0} /\ Sent \subseteq Ids
  BY MaxRqstsAssumption DEF Inv, Types, Sent, Ids
<1>2. \A n : First(n).rqst = n /\ First(n).kind = OpKind(sent[n])
  BY DEF First
<1>3. \A n \in On(l) : n \in Sent /\ sent[n].kind \in {"READ", "WRITE", "AMO"} /\ l \in sent[n].at
  BY DEF On
<1>4. \A n \in On(l) : /\ First(n).kind \in {"READ", "WRITE"}
                       /\ sent[n].kind = "WRITE" <=> First(n).kind = "WRITE"
  BY <1>2, <1>3 DEF OpKind
<1> QED
  BY <1>1, <1>2, <1>3, <1>4 DEF IsFirst

\* What is said of the requests that were sent depends on "sent" and the limits.
LEMMA SameRqsts ==
  ASSUME UNCHANGED <<sent, max>>
  PROVE  /\ (InOrder' <=> InOrder) /\ \A l : On(l)' = On(l)
         /\ \A n, l : NoAMO(n, l)' <=> NoAMO(n, l)
         /\ \A v, n, l : Latest(v, n, l)' <=> Latest(v, n, l)
<1>1. InOrder' <=> InOrder
  BY DEF InOrder
<1>2. \A l : On(l)' = On(l)
  BY DEF On, Sent
<1>3. \A n, l : NoAMO(n, l)' <=> NoAMO(n, l)
  BY <1>2 DEF NoAMO
<1>4. \A v, n, l : Latest(v, n, l)' <=> Latest(v, n, l)
  BY <1>2 DEF Latest
<1> QED
  BY <1>1, <1>2, <1>3, <1>4

\* Steps after which every line waits for the same requests.
LEMMA SameLines ==
  ASSUME ILines, UNCHANGED <<sent, mem, seen, max>>,
         \A l \in Lines : \A n \in On(l) : Pending(n, l)' <=> Pending(n, l)
  PROVE  ILines'
<1>1. /\ InOrder' <=> InOrder
      /\ \A l : On(l)' = On(l)
      /\ \A n, l : NoAMO(n, l)' <=> NoAMO(n, l)
      /\ \A v, n, l : Latest(v, n, l)' <=> Latest(v, n, l)
  BY SameRqsts
<1>2. IServed'
  BY <1>1 DEF ILines, IServed
<1>3. IWriter'
  BY <1>1 DEF ILines, IWriter
<1>4. IVersion'
  BY <1>1 DEF ILines, IVersion
<1>5. IRead'
  BY <1>1 DEF ILines, IRead
<1> QED
  BY <1>2, <1>3, <1>4, <1>5 DEF ILines

\* A new request waits behind the others.
LEMMA SendLines ==
  ASSUME Inv, IFifo, ILines, NEW r \in Requests, Send(r)
  PROVE  IFifo' /\ ILines'
<1> SUFFICES ASSUME NEW n, n = Len(sent) + 1, NEW op, op = [rqst |-> n, kind |-> OpKind(r)]
             PROVE  IFifo' /\ ILines'
  BY ZenonT(40)
<1>1. /\ sent' = Append(sent, r) /\ rqstQ' = Append(rqstQ, op)
      /\ UNCHANGED <<max, outstanding, mem, seen>>
  BY DEF Send, config, memVars
<1>2. sent \in Seq(Requests) /\ Len(sent) \in Nat /\ Sent = 1 .. Len(sent)
      /\ mem \in [Lines -> Versions] /\ rqstQ \in Seq(Ops)
  BY DEF Inv, Types, Sent
<1>3. /\ Sent' = Sent \cup {n} /\ sent'[n] = r /\ n \in Nat
      /\ \A m \in Sent : m < n /\ m # n /\ sent'[m] = sent[m]
  BY <1>1, <1>2 DEF Sent
<1>4. First(n)' = op /\ op.rqst = n /\ \A m \in Sent : First(m)' = First(m) /\ First(m).rqst = m
  BY <1>3 DEF First
<1>5. Queued' = Queued \cup {op}
  <2>1. /\ DOMAIN rqstQ' = DOMAIN rqstQ \cup {Len(rqstQ) + 1} /\ rqstQ'[Len(rqstQ) + 1] = op
        /\ \A i \in DOMAIN rqstQ : rqstQ'[i] = rqstQ[i]
    BY <1>1, <1>2
  <2> QED
    BY <2>1 DEF Queued, Range
<1>6. InFlight' = InFlight /\ (InOrder' <=> InOrder)
  BY <1>1 DEF InFlight, InOrder
<1>7. \A o \in InFlight : o.op.rqst \in Sent /\ Rqst(o.op)' = Rqst(o.op)
  <2>1. \A o \in InFlight : o.op.rqst \in Sent
    BY DEF Inv, IOps
  <2> QED
    BY <1>3, <2>1 DEF Rqst
<1>8. \A l \in Lines : \A m \in Sent : Pending(m, l)' <=> Pending(m, l)
  BY <1>3, <1>4, <1>5, <1>6 DEF Pending
<1>9. \A l \in Lines : Pending(n, l)'
  BY <1>4, <1>5 DEF Pending
<1>10. \A l \in Lines : /\ On(l) \subseteq On(l)' /\ On(l)' \subseteq On(l) \cup {n}
                        /\ On(l) \subseteq Sent
                        /\ \A m \in On(l) : sent'[m] = sent[m]
  BY <1>3 DEF On
<1>11. \A l \in Lines : \A m \in Sent : NoAMO(m, l)' => NoAMO(m, l)
  BY <1>10 DEF NoAMO
<1>12. \A l \in Lines : \A m \in Sent : \A v : Latest(v, m, l) => Latest(v, m, l)'
  <2> SUFFICES ASSUME NEW l \in Lines, NEW m \in Sent PROVE
         {k \in On(l) : k < m /\ sent[k].kind = "WRITE"}'
           = {k \in On(l) : k < m /\ sent[k].kind = "WRITE"}
    BY DEF Latest
  <2>1. m \in Nat /\ n \in Nat /\ ~(n < m)
    BY <1>2, <1>3
  <2> QED
    BY <1>10, <2>1
<1>13. IFifo'
  <2>1. \A i \in DOMAIN outstanding : outstanding[i].op.rqst \in Sent
    BY <1>7 DEF InFlight, Range
  <2>2. \A i \in DOMAIN outstanding : IsFirst(outstanding[i].op)' <=> IsFirst(outstanding[i].op)
    BY <1>1, <1>4, <2>1 DEF IsFirst
  <2>3. IFlight'
    BY <1>1, <1>6, <2>2 DEF IFifo, IFlight
  <2>4. IParts'
    BY <1>6, <1>7 DEF IFifo, IParts
  <2> QED
    BY <2>3, <2>4 DEF IFifo
<1>14. IServed'
  <2> SUFFICES ASSUME InOrder, NEW l \in Lines, NEW m \in On(l)', NEW k \in On(l)', m < k,
                      Pending(m, l)'
               PROVE  Pending(k, l)'
    BY <1>6 DEF IServed
  <2>1. CASE k = n
    BY <1>9, <2>1
  <2>2. CASE k # n
    <3>1. k \in On(l) /\ k \in Sent /\ k < n /\ k \in Nat /\ (m \in On(l) \/ m = n)
      BY <1>2, <1>3, <1>10, <2>2
    <3>2. m \in On(l) /\ m \in Sent
      BY <1>3, <1>10, <3>1
    <3> QED
      BY <1>8, <3>1, <3>2 DEF ILines, IServed
  <2> QED
    BY <2>1, <2>2
<1>15. IWriter'
  BY ZenonT(40), <1>1, <1>8, <1>10 DEF ILines, IWriter
<1>16. IVersion'
  BY ZenonT(40), <1>1, <1>6, <1>8, <1>9, <1>10, <1>11 DEF ILines, IVersion
<1>17. IRead'
  BY ZenonT(40), <1>1, <1>6, <1>8, <1>9, <1>10, <1>11, <1>12 DEF ILines, IRead
<1> QED
  BY <1>13, <1>14, <1>15, <1>16, <1>17 DEF ILines

\* Dispatch sends the first operations in order, and all lines of each.
LEMMA DispatchLines ==
  ASSUME Inv, IOrder, IFifo, ILines, NEW i \in DOMAIN rqstQ, Dispatch(i)
  PROVE  IFifo' /\ ILines'
<1> DEFINE op == rqstQ[i]
           e == [op |-> op, parts |-> Parts(op)]
<1>1. /\ outstanding' = Append(outstanding, e) /\ rqstQ' = Erase(rqstQ, i)
      /\ UNCHANGED <<hasCache, max, sent, mem, seen>>
  BY ZenonT(40) DEF Dispatch, config, memVars
<1>2. Queued' = Queued \ {op} /\ op \in Queued /\ op.rqst \in Sent
  BY <1>1, TakenFacts DEF Inv
<1>3. outstanding \in Seq(Entries) /\ Len(outstanding) \in Nat
  BY DEF Inv, Types, Entries
<1>4. e.op = op /\ e.parts = Parts(op)
  OBVIOUS
<1> HIDE DEF op, e
<1>5. /\ DOMAIN outstanding' = 1 .. Len(outstanding) + 1
      /\ DOMAIN outstanding = 1 .. Len(outstanding)
      /\ outstanding'[Len(outstanding) + 1] = e
      /\ \A j \in DOMAIN outstanding : outstanding'[j] = outstanding[j]
  BY <1>1, <1>3
<1>6. InFlight' = InFlight \cup {e}
  BY <1>3, <1>5 DEF InFlight, Range
<1>7. /\ (InOrder' <=> InOrder) /\ \A n : First(n)' = First(n)
      /\ \A x : (IsFirst(x)' <=> IsFirst(x)) /\ Rqst(x)' = Rqst(x)
  BY <1>1 DEF InOrder, First, IsFirst, Rqst
<1>8. \A o \in InFlight : o.op # op /\ o.op \notin Queued
  BY ZenonT(40), <1>2 DEF Inv, IOps
<1>9. /\ \A q \in Parts(op) : q \subseteq Rqst(op).at
      /\ \A q, u \in Parts(op) : q # u => q \cap u = {}
      /\ \A l \in Rqst(op).at : \E q \in Parts(op) : l \in q
  BY ZenonT(40) DEF Parts
<1>10. IParts'
  BY <1>4, <1>6, <1>7, <1>9 DEF IFifo, IParts
<1>11. ASSUME InOrder, NEW j \in DOMAIN outstanding, IsFirst(op), IsFirst(outstanding[j].op)
       PROVE  outstanding[j].op.rqst < op.rqst
  <2> DEFINE m == outstanding[j].op.rqst
             n == op.rqst
  <2>1. m \in Sent /\ outstanding[j] \in InFlight
    BY EntryFacts DEF Inv
  <2>2. outstanding[j].op = First(m) /\ op = First(n) /\ m \in Nat /\ n \in Nat
    BY <1>2, <1>11, <2>1 DEF IsFirst, Inv, Types, Sent
  <2>3. m # n /\ Started(m) /\ ~Started(n)
    BY <1>2, <1>8, <2>1, <2>2 DEF Started, First
  <2>4. sent[n].kind \in {"READ", "WRITE", "AMO", "FENCE"}
    BY <1>11, <2>2 DEF IsFirst, First, OpKind
  <2>5. ~(n < m)
    BY <1>2, <1>11, <2>1, <2>3, <2>4 DEF IOrder, IStarted
  <2> QED
    BY <2>2, <2>3, <2>5
<1>12. IFlight'
  <2> SUFFICES ASSUME InOrder, NEW a \in DOMAIN outstanding', NEW b \in DOMAIN outstanding',
                      a < b, IsFirst(outstanding'[a].op), IsFirst(outstanding'[b].op)
               PROVE  outstanding'[a].op.rqst < outstanding'[b].op.rqst
    BY <1>7 DEF IFlight
  <2>1. a \in DOMAIN outstanding /\ outstanding'[a] = outstanding[a]
    BY <1>3, <1>5
  <2>2. CASE b \in DOMAIN outstanding
    BY <1>5, <2>1, <2>2 DEF IFifo, IFlight
  <2>3. CASE b = Len(outstanding) + 1
    BY <1>4, <1>5, <1>11, <2>1, <2>3
  <2> QED
    BY <1>5, <2>2, <2>3
<1>13. ASSUME NEW l \in Lines, NEW n \in On(l) PROVE Pending(n, l)' <=> Pending(n, l)
  <2>1. CASE First(n) # op
    BY <1>2, <1>4, <1>6, <1>7, <2>1 DEF Pending
  <2>2. CASE First(n) = op
    <3>1. l \in Rqst(op).at
      BY <2>2 DEF On, Rqst, First
    <3>2. Pending(n, l) /\ Pending(n, l)'
      BY <1>2, <1>4, <1>6, <1>7, <1>9, <2>2, <3>1 DEF Pending
    <3> QED
      BY <3>2
  <2> QED
    BY <2>1, <2>2
<1>14. ILines'
  BY <1>1, <1>13, SameLines
<1> QED
  BY <1>10, <1>12, <1>14 DEF IFifo

\* Steps that leave the requests in flight and the queue of first operations alone.
LEMMA QuietLines ==
  ASSUME Inv, IFifo, ILines,
         \/ StartTick \/ EndTick \/ UNCHANGED vars
         \/ \E i \in DOMAIN rqstQ : Fence(i)
  PROVE  IFifo' /\ ILines'
<1>1. UNCHANGED <<max, sent, outstanding, mem, seen>>
  BY DEF StartTick, EndTick, Fence, vars, config, queueVars, memVars
<1>2. InFlight' = InFlight /\ (InOrder' <=> InOrder) /\ \A n : First(n)' = First(n)
  BY <1>1 DEF InFlight, InOrder, First
<1>3. IFlight' /\ IParts'
  BY <1>1, <1>2 DEF IFifo, IFlight, IParts, IsFirst, Rqst
<1>4. \/ Queued' = Queued
      \/ \E op : op.kind = "FENCE" /\ Queued' = Queued \ {op}
  <2>1. CASE rqstQ' = rqstQ
    BY <2>1 DEF Queued
  <2>2. ASSUME NEW i \in DOMAIN rqstQ, Fence(i)
        PROVE  \E op : op.kind = "FENCE" /\ Queued' = Queued \ {op}
    BY <2>2, TakenFacts DEF Inv, Fence
  <2> QED
    BY <2>1, <2>2 DEF StartTick, EndTick, vars, queueVars
<1>5. \A l : \A n \in On(l) : First(n).kind # "FENCE"
  BY OnFacts
<1>6. \A l \in Lines : \A n \in On(l) : Pending(n, l)' <=> Pending(n, l)
  BY <1>2, <1>4, <1>5 DEF Pending
<1> QED
  BY <1>1, <1>3, <1>6, SameLines DEF IFifo

\* A request on a line is served after the ones sent before it.
LEMMA FirstServed ==
  ASSUME Inv, IOrder, IFifo, InOrder, NEW i \in DOMAIN outstanding,
         NEW p \in outstanding[i].parts, Served(i, p), NEW l \in p,
         NEW k \in On(l), outstanding[i].op = First(k), NEW m \in On(l), m < k
  PROVE  ~Pending(m, l)
<1> SUFFICES ASSUME Pending(m, l) PROVE FALSE
  OBVIOUS
<1>1. m \in Sent /\ k \in Sent /\ m \in Nat /\ k \in Nat
  BY OnFacts
<1>2. outstanding[i] \in InFlight /\ Started(k)
  <2>1. outstanding[i] \in InFlight
    BY EntryFacts DEF Inv
  <2> QED
    BY <2>1 DEF Inv, IOps, Started, First
<1>3. Started(m)
  BY Zenon, <1>1, <1>2 DEF IOrder, IStarted, On
<1>4. PICK o \in InFlight : o.op = First(m) /\ \E q \in o.parts : l \in q
  BY <1>3 DEF Pending, Started, First
<1>5. PICK j \in DOMAIN outstanding : outstanding[j] = o
  BY DEF InFlight, Range
<1>6. PICK q \in outstanding[j].parts : l \in q
  BY <1>4, <1>5
<1>7. First(m).rqst = m /\ First(k).rqst = k /\ IsFirst(First(m)) /\ IsFirst(First(k))
  BY OnFacts
<1>8. i \in Nat /\ j \in Nat /\ j >= 1
  BY DEF Inv, Types
<1>9. j # i
  BY <1>1, <1>4, <1>5, <1>7
<1>10. ~(j < i)
  BY <1>6, <1>8 DEF Served
<1>11. ~(i < j)
  BY <1>1, <1>4, <1>5, <1>7 DEF IFifo, IFlight
<1> QED
  BY <1>8, <1>9, <1>10, <1>11

\* An answer ends the wait of one request for the lines of the part.
LEMMA AnswerPending ==
  ASSUME Inv, IFifo, NEW i \in DOMAIN outstanding, NEW p \in outstanding[i].parts,
         Response(i, p)
  PROVE  /\ UNCHANGED <<sent, max>> /\ Served(i, p) /\ IFifo'
         /\ \A l : \A n \in On(l) :
              Pending(n, l)' <=> Pending(n, l) /\ ~(outstanding[i].op = First(n) /\ l \in p)
<1> DEFINE o == outstanding[i]
           e == [o EXCEPT !.parts = o.parts \ {p}]
           write == [o.op EXCEPT !.kind = "WRITE"]
<1>1. Served(i, p) /\ Answered(i, p) /\ UNCHANGED <<sent, max>>
  BY ZenonT(40) DEF Response, handleReadResp, handleWriteResp, handleFlushResp, config, queueVars
<1>2. /\ o \in InFlight /\ o \in Entries /\ o.op.rqst \in Sent /\ o.op \notin Queued
      /\ \A x \in InFlight : x.op = o.op => x = o
  BY ZenonT(40), EntryFacts DEF Inv, IOps
<1>3. e.op = o.op /\ e.parts = o.parts \ {p} /\ write.kind = "WRITE" /\ write.rqst = o.op.rqst
  BY <1>2 DEF Entries, Ops
<1>4. /\ outstanding' \in Seq(Entries)
      /\ Last(i, p) => InFlight' = InFlight \ {o}
      /\ ~Last(i, p) => InFlight' = (InFlight \ {o}) \cup {e}
  BY <1>1, AnsweredFacts DEF Inv
<1>5. Last(i, p) => o.parts = {p}
  BY DEF Last
<1>6. /\ (InOrder' <=> InOrder) /\ \A n : First(n)' = First(n)
      /\ \A x : (IsFirst(x)' <=> IsFirst(x)) /\ Rqst(x)' = Rqst(x)
  BY <1>1 DEF InOrder, First, IsFirst, Rqst
<1>7. \/ Queued' = Queued
      \/ Queued' = Queued \cup {write} /\ sent[o.op.rqst].kind = "AMO"
  <2>1. \/ rqstQ' = rqstQ
        \/ rqstQ' = Append(rqstQ, write) /\ o.op \in AMOTable
    BY ZenonT(40) DEF Response, handleReadResp, handleWriteResp, handleFlushResp, handleAMO, queueVars
  <2> HIDE DEF write, o
  <2>2. ASSUME rqstQ' = Append(rqstQ, write) PROVE Queued' = Queued \cup {write}
    <3>1. rqstQ \in Seq(Ops)
      BY DEF Inv, Types
    <3>2. /\ DOMAIN rqstQ' = DOMAIN rqstQ \cup {Len(rqstQ) + 1}
          /\ rqstQ'[Len(rqstQ) + 1] = write
          /\ \A j \in DOMAIN rqstQ : rqstQ'[j] = rqstQ[j]
      BY <2>2, <3>1
    <3> QED
      BY <3>2 DEF Queued, Range
  <2>3. o.op \in AMOTable => sent[o.op.rqst].kind = "AMO"
    BY DEF Inv, IOps, Atomic, Rqst
  <2>4. rqstQ' = rqstQ => Queued' = Queued
    BY DEF Queued
  <2> QED
    BY <2>1, <2>2, <2>3, <2>4
<1>8. \A n : First(n) \in Queued' <=> First(n) \in Queued
  <2>1. sent[o.op.rqst].kind = "AMO" => \A n : write # First(n)
    BY <1>3 DEF First, OpKind
  <2> QED
    BY <1>7, <2>1
<1> HIDE DEF e, o, write
<1>9. IParts'
  <2>1. \A x \in InFlight' : x \in InFlight \/ (x = e /\ o \in InFlight)
    BY <1>2, <1>4
  <2> QED
    BY <1>3, <1>6, <2>1 DEF IFifo, IParts
<1>10. \A a, b \in DOMAIN outstanding' : a < b =>
         \E u, v \in DOMAIN outstanding : /\ u < v
                                          /\ outstanding'[a].op = outstanding[u].op
                                          /\ outstanding'[b].op = outstanding[v].op
  <2>1. outstanding \in Seq(Entries) /\ i \in 1 .. Len(outstanding)
    BY DEF Inv, Types, Entries
  <2>2. CASE outstanding' = Erase(outstanding, i)
    BY <2>1, <2>2, EraseOrder
  <2>3. CASE outstanding' = [outstanding EXCEPT ![i] = e]
    <3>1. /\ DOMAIN outstanding' = DOMAIN outstanding
          /\ \A j \in DOMAIN outstanding : outstanding'[j].op = outstanding[j].op
      BY <1>3, <2>1, <2>3 DEF o
    <3> QED
      BY <3>1
  <2>4. outstanding' = Erase(outstanding, i) \/ outstanding' = [outstanding EXCEPT ![i] = e]
    BY <1>1 DEF Answered, e, o
  <2> QED
    BY <2>2, <2>3, <2>4
<1>11. IFlight'
  <2> SUFFICES ASSUME InOrder, NEW a \in DOMAIN outstanding', NEW b \in DOMAIN outstanding',
                      a < b, IsFirst(outstanding'[a].op), IsFirst(outstanding'[b].op)
               PROVE  outstanding'[a].op.rqst < outstanding'[b].op.rqst
    BY <1>6 DEF IFlight
  <2>1. PICK u, v \in DOMAIN outstanding : /\ u < v
                                           /\ outstanding'[a].op = outstanding[u].op
                                           /\ outstanding'[b].op = outstanding[v].op
    BY <1>10
  <2> QED
    BY <2>1 DEF IFifo, IFlight
<1>12. ASSUME NEW l, NEW n \in On(l)
       PROVE  Pending(n, l)' <=> Pending(n, l) /\ ~(o.op = First(n) /\ l \in p)
  <2> DEFINE Waits(F) == \E x \in F : x.op = First(n) /\ \E q \in x.parts : l \in q
  <2>1. /\ Pending(n, l) <=> First(n) \in Queued \/ Waits(InFlight)
        /\ Pending(n, l)' <=> First(n) \in Queued \/ Waits(InFlight')
    BY <1>6, <1>8 DEF Pending
  <2>2. CASE o.op # First(n)
    <3>1. Waits(InFlight') <=> Waits(InFlight)
      BY <1>3, <1>4, <2>2
    <3> QED
      BY ZenonT(40), <2>1, <2>2, <3>1
  <2>3. CASE o.op = First(n)
    <3>1. First(n) \notin Queued
      BY <1>2, <2>3
    <3>2. Waits(InFlight) <=> \E q \in o.parts : l \in q
      BY <1>2, <2>3
    <3>3. Waits(InFlight') <=> \E q \in o.parts \ {p} : l \in q
      BY <1>2, <1>3, <1>4, <1>5, <2>3
    <3>4. \A q \in o.parts : q # p => q \cap p = {}
      BY <1>2 DEF IFifo, IParts, o
    <3>5. (\E q \in o.parts \ {p} : l \in q) <=> (\E q \in o.parts : l \in q) /\ l \notin p
      BY <3>4 DEF o
    <3> QED
      BY <2>1, <2>3, <3>1, <3>2, <3>3, <3>5
  <2> QED
    BY <2>2, <2>3
<1> QED
  BY <1>1, <1>9, <1>11, <1>12 DEF IFifo, o

\* After an answer the lines still serve the requests in order.
LEMMA AnswerServed ==
  ASSUME Inv, IOrder, IFifo, ILines, NEW i \in DOMAIN outstanding,
         NEW p \in outstanding[i].parts, Response(i, p)
  PROVE  /\ IServed' /\ (InOrder' <=> InOrder) /\ \A l : On(l)' = On(l)
         /\ \A n, l : NoAMO(n, l)' <=> NoAMO(n, l)
         /\ \A v, n, l : Latest(v, n, l)' <=> Latest(v, n, l)
<1>1. /\ UNCHANGED <<sent, max>> /\ Served(i, p)
      /\ \A l : \A n \in On(l) :
           Pending(n, l)' <=> Pending(n, l) /\ ~(outstanding[i].op = First(n) /\ l \in p)
  BY AnswerPending
<1>2. /\ (InOrder' <=> InOrder) /\ \A l : On(l)' = On(l)
      /\ \A n, l : NoAMO(n, l)' <=> NoAMO(n, l)
      /\ \A v, n, l : Latest(v, n, l)' <=> Latest(v, n, l)
  BY ZenonT(40), <1>1, SameRqsts
<1>3. ASSUME InOrder, NEW l \in Lines, NEW m \in On(l), NEW n \in On(l), m < n, Pending(m, l)'
      PROVE  Pending(n, l)'
  <2>1. Pending(m, l) /\ Pending(n, l)
    BY <1>1, <1>3 DEF ILines, IServed
  <2>2. ~(outstanding[i].op = First(n) /\ l \in p)
    BY <1>1, <1>3, <2>1, FirstServed
  <2> QED
    BY <1>1, <2>1, <2>2
<1> QED
  BY ZenonT(40), <1>2, <1>3 DEF IServed

\* A store, or the WRITE of an AMO, makes its version the one of the line.
LEMMA WriteLines ==
  ASSUME Inv, IOrder, IFifo, ILines, NEW i \in DOMAIN outstanding,
         NEW p \in outstanding[i].parts, handleWriteResp(i, p)
  PROVE  ILines'
<1> SUFFICES ASSUME NEW op, op = outstanding[i].op, NEW w, w = op.rqst
             PROVE  ILines'
  OBVIOUS
<1>0. Response(i, p)
  BY DEF Response
<1>1. /\ op.kind = "WRITE" /\ seen' = seen
      /\ mem' = [l \in Lines |-> IF l \in p THEN w ELSE mem[l]]
  BY DEF handleWriteResp
<1>2. /\ IServed' /\ (InOrder' <=> InOrder) /\ \A l : On(l)' = On(l)
      /\ \A n, l : NoAMO(n, l)' <=> NoAMO(n, l)
      /\ \A v, n, l : Latest(v, n, l)' <=> Latest(v, n, l)
  BY ZenonT(40), <1>0, AnswerServed
<1>3. /\ sent' = sent
      /\ \A l : \A n \in On(l) :
           Pending(n, l)' <=> Pending(n, l) /\ ~(op = First(n) /\ l \in p)
  BY <1>0, AnswerPending
<1>4. /\ outstanding[i] \in InFlight /\ op \in live /\ op \in Ops /\ w \in Sent
  BY EntryFacts DEF Inv
<1>5. \/ sent[w].kind = "WRITE" /\ op = First(w)
      \/ sent[w].kind = "AMO" /\ op # First(w)
  <2>1. op.kind = OpKind(Rqst(op)) \/ Atomic(op)
    BY ZenonT(40), <1>4 DEF Inv, IOps
  <2> QED
    BY <1>1, <1>4, <2>1 DEF First, OpKind, Rqst, Atomic, Ops
<1>6. \A l \in p : w \in On(l)
  <2>1. p \subseteq sent[w].at
    BY <1>4 DEF IFifo, IParts, Rqst
  <2> QED
    BY <1>4, <1>5, <2>1 DEF On
<1>7. \A l : First(w) # op => ~Pending(w, l)
  <2>1. First(w).rqst = w
    BY DEF First
  <2>2. First(w) # op => First(w) \notin live
    BY <1>4, <2>1 DEF Inv, IOps
  <2>3. \A l : Pending(w, l) => First(w) \in live
    BY DEF Pending, Inv, IOps
  <2> QED
    BY <2>2, <2>3
<1>8. \A l \in p : op = First(w) => Pending(w, l)
  BY ZenonT(40), <1>4 DEF Pending
<1>9. \A l : On(l) \subseteq Nat \ {0}
             /\ \A n \in On(l) : /\ First(n).rqst = n
                                 /\ sent[n].kind = "WRITE" <=> First(n).kind = "WRITE"
  BY OnFacts
<1>10. IWriter'
  <2> SUFFICES ASSUME NEW l \in Lines, NEW v, v = mem'[l], v # 0
               PROVE  v \in On(l) /\ sent[v].kind # "READ" /\ ~Pending(v, l)'
    BY ZenonT(40), <1>2, <1>3 DEF IWriter
  <2>1. CASE l \in p
    <3>1. v = w /\ w \in On(l)
      BY <1>1, <1>6, <2>1
    <3>2. ~Pending(w, l)'
      BY <1>3, <1>7, <2>1, <3>1
    <3> QED
      BY <1>5, <3>1, <3>2
  <2>2. CASE l \notin p
    <3>1. v = mem[l]
      BY <1>1, <2>2
    <3> QED
      BY <1>3, <3>1 DEF ILines, IWriter
  <2> QED
    BY <2>1, <2>2
<1>11. IVersion'
  <2> SUFFICES ASSUME InOrder, NEW l \in Lines, NEW m \in On(l), sent[m].kind = "WRITE",
                      NoAMO(m, l), ~Pending(m, l)'
               PROVE  m <= mem'[l]
    BY ZenonT(40), <1>2, <1>3 DEF IVersion
  <2>1. CASE l \in p
    <3>1. mem'[l] = w /\ w \in On(l) /\ w \in Nat /\ m \in Nat
      BY <1>1, <1>6, <1>9, <2>1
    <3>2. ~(w < m)
      <4>1. CASE sent[w].kind = "AMO"
        BY <3>1, <4>1 DEF NoAMO
      <4>2. CASE op = First(w)
        <5>1. w < m => Pending(m, l)
          BY <1>8, <2>1, <3>1, <4>2 DEF ILines, IServed
        <5>2. Pending(m, l) => m = w
          BY <1>3, <1>9, <3>1, <4>2
        <5> QED
          BY <3>1, <5>1, <5>2
      <4> QED
        BY <1>5, <4>1, <4>2
    <3> QED
      BY <3>1, <3>2
  <2>2. CASE l \notin p
    BY <1>1, <1>3, <2>2 DEF ILines, IVersion
  <2> QED
    BY <2>1, <2>2
<1>12. IRead'
  <2>1. \A l \in Lines : \A n \in On(l) :
          sent[n].kind = "READ" /\ ~Pending(n, l)' => ~Pending(n, l)
    BY ZenonT(40), <1>1, <1>3, <1>9
  <2> QED
    BY ZenonT(40), <1>1, <1>2, <1>3, <2>1 DEF ILines, IRead
<1> QED
  BY ZenonT(40), <1>2, <1>10, <1>11, <1>12 DEF ILines

\* A load takes the version of the line when the stores before it have been served.
LEMMA ReadLines ==
  ASSUME Inv, IOrder, IFifo, ILines, NEW i \in DOMAIN outstanding,
         NEW p \in outstanding[i].parts, handleReadResp(i, p)
  PROVE  ILines'
<1> SUFFICES ASSUME NEW op, op = outstanding[i].op, NEW k, k = op.rqst
             PROVE  ILines'
  OBVIOUS
<1>0. Response(i, p)
  BY DEF Response
<1>1. /\ op.kind \in {"READ", "READLOCK"} /\ mem' = mem
      /\ seen' = [seen EXCEPT ![k] = [l \in Lines |-> IF l \in p THEN mem[l] ELSE @[l]]]
  BY DEF handleReadResp
<1>2. /\ IServed' /\ (InOrder' <=> InOrder) /\ \A l : On(l)' = On(l)
      /\ \A n, l : NoAMO(n, l)' <=> NoAMO(n, l)
      /\ \A v, n, l : Latest(v, n, l)' <=> Latest(v, n, l)
  BY <1>0, AnswerServed
<1>3. /\ sent' = sent /\ Served(i, p)
      /\ \A l : \A n \in On(l) :
           Pending(n, l)' <=> Pending(n, l) /\ ~(op = First(n) /\ l \in p)
  BY <1>0, AnswerPending
<1>4. outstanding[i] \in InFlight /\ op \in live /\ op \in Ops
  BY EntryFacts DEF Inv
<1>5. seen \in [Ids -> [Lines -> Versions]] /\ mem \in [Lines -> Versions]
  BY DEF Inv, Types
<1>6. \A l : On(l) \subseteq Nat \ {0} /\ On(l) \subseteq Ids
             /\ \A n \in On(l) : /\ First(n).rqst = n
                                 /\ sent[n].kind = "WRITE" <=> First(n).kind = "WRITE"
  BY OnFacts
<1>7. sent[k].kind = "READ" => op = First(k)
  <2>1. op.kind = OpKind(Rqst(op)) \/ Atomic(op)
    BY ZenonT(40), <1>4 DEF Inv, IOps
  <2> QED
    BY <1>4, <2>1 DEF First, OpKind, Rqst, Atomic, Ops
<1>8. IWriter'
  BY ZenonT(40), <1>1, <1>2, <1>3 DEF ILines, IWriter
<1>9. IVersion'
  <2>1. \A l \in Lines : \A m \in On(l) :
          sent[m].kind = "WRITE" /\ ~Pending(m, l)' => ~Pending(m, l)
    BY <1>1, <1>3, <1>6
  <2> QED
    BY ZenonT(40), <1>1, <1>2, <1>3, <2>1 DEF ILines, IVersion
<1>10. ASSUME InOrder, NEW l \in Lines, NEW n \in On(l), sent[n].kind = "READ",
              NoAMO(n, l), ~Pending(n, l)'
       PROVE  Latest(seen'[n][l], n, l)
  <2>1. CASE ~(op = First(n) /\ l \in p)
    <3>1. ~Pending(n, l)
      BY <1>3, <1>10, <2>1
    <3>2. n = k => l \notin p
      BY <1>7, <1>10, <2>1
    <3>3. seen'[n][l] = seen[n][l]
      BY <1>1, <1>5, <1>6, <3>2
    <3> QED
      BY <1>10, <3>1, <3>3 DEF ILines, IRead
  <2>2. CASE op = First(n) /\ l \in p
    <3> DEFINE before == {m \in On(l) : m < n /\ sent[m].kind = "WRITE"}
    <3>1. n = k /\ n \in Ids /\ n \in Nat /\ mem[l] \in Nat
      BY <1>5, <1>6, <2>2 DEF Versions
    <3>2. seen'[n][l] = mem[l]
      BY <1>1, <1>5, <2>2, <3>1
    <3>3. \A m \in On(l) : m < n => ~Pending(m, l) /\ NoAMO(m, l)
      <4> SUFFICES ASSUME NEW m \in On(l), m < n PROVE ~Pending(m, l) /\ NoAMO(m, l)
        OBVIOUS
      <4>1. ~Pending(m, l)
        BY ZenonT(40), <1>3, <1>10, <2>2, FirstServed
      <4>2. \A u \in On(l) : u < m => u < n
        BY <1>6, <3>1
      <4> QED
        BY ZenonT(40), <1>10, <4>1, <4>2 DEF NoAMO
    <3>4. \A m \in before : m <= mem[l] /\ m \in Nat \ {0}
      BY <1>6, <1>10, <3>3 DEF ILines, IVersion
    <3>5. CASE mem[l] = 0
      BY <3>2, <3>4, <3>5 DEF Latest
    <3>6. CASE mem[l] # 0
      <4>1. mem[l] \in On(l) /\ sent[mem[l]].kind # "READ" /\ ~Pending(mem[l], l)
        BY <3>6 DEF ILines, IWriter
      <4>2. Pending(n, l)
        BY ZenonT(40), <1>4, <2>2 DEF Pending
      <4>3. mem[l] # n /\ ~(n < mem[l])
        BY ZenonT(40), <1>10, <4>1, <4>2 DEF ILines, IServed
      <4>4. mem[l] < n
        BY <3>1, <4>3
      <4>5. sent[mem[l]].kind = "WRITE"
        BY <1>10, <4>1, <4>4 DEF NoAMO, On
      <4> QED
        BY <3>2, <3>4, <4>1, <4>4, <4>5 DEF Latest
    <3> QED
      BY <3>5, <3>6
  <2> QED
    BY <2>1, <2>2
<1>11. IRead'
  BY ZenonT(40), <1>2, <1>3, <1>10 DEF IRead
<1> QED
  BY ZenonT(40), <1>2, <1>8, <1>9, <1>11 DEF ILines

\* A flush leaves memory as it is.
LEMMA FlushLines ==
  ASSUME Inv, IFifo, ILines, NEW i \in DOMAIN outstanding,
         NEW p \in outstanding[i].parts, handleFlushResp(i, p)
  PROVE  ILines'
<1>1. outstanding[i].op.kind = "FLUSH" /\ UNCHANGED <<mem, seen>> /\ Response(i, p)
  BY ZenonT(40) DEF handleFlushResp, Response, memVars
<1>2. \A l : \A n \in On(l) : First(n).kind # "FLUSH"
  BY ZenonT(40), OnFacts
<1>3. /\ UNCHANGED <<sent, max>>
      /\ \A l : \A n \in On(l) : Pending(n, l)' <=> Pending(n, l)
  BY <1>1, <1>2, AnswerPending
<1> QED
  BY <1>1, <1>3, SameLines

LEMMA InitLines == Init => IFifo /\ ILines
<1> SUFFICES ASSUME Init PROVE IFifo /\ ILines
  OBVIOUS
<1>1. Sent = {} /\ DOMAIN outstanding = {} /\ InFlight = {} /\ \A l \in Lines : mem[l] = 0
  BY DEF Init, Sent, InFlight, Range
<1>2. \A l : On(l) = {}
  BY ZenonT(40), <1>1 DEF On
<1> QED
  BY ZenonT(40), <1>1, <1>2 DEF IFifo, ILines, IFlight, IParts, IServed, IWriter, IVersion, IRead

LEMMA LinesInductive ==
  ASSUME Inv, IOrder, IFifo, ILines, [Next]_vars
  PROVE  IFifo' /\ ILines'
<1>1. ASSUME NEW r \in Requests, Send(r) PROVE IFifo' /\ ILines'
  BY <1>1, SendLines
<1>2. ASSUME NEW i \in DOMAIN rqstQ, Dispatch(i) PROVE IFifo' /\ ILines'
  BY <1>2, DispatchLines
<1>3. ASSUME NEW i \in DOMAIN outstanding, NEW p \in outstanding[i].parts, Response(i, p)
      PROVE  IFifo' /\ ILines'
  <2>1. IFifo'
    BY <1>3, AnswerPending
  <2>2. ILines'
    BY <1>3, WriteLines, ReadLines, FlushLines DEF Response
  <2> QED
    BY <2>1, <2>2
<1> QED
  BY <1>1, <1>2, <1>3, QuietLines DEF Next, Tick, Respond

\* handleReadResp hands a load, line by line, the last store sent before it, when
\* no AMO on the line came before the load and the limits on loads and stores are
\* not below ops_per_cycle, however requests are split into lines, dispatched and
\* answered, for every number of requests, harts and lines, READLOCKs included.
THEOREM ReadsCorrect == Spec => []ReadsLatest
<1> DEFINE All == Inv /\ IOrder /\ IFifo /\ ILines
<1>1. Init => All
  BY InitInv, InitFence, InitLines
<1>2. All /\ [Next]_vars => All'
  BY InvInductive, OrderInductive, LinesInductive
<1>3. All => ReadsLatest
  <2> SUFFICES ASSUME All, InOrder, NEW n \in Sent, sent[n].kind = "READ", Done(n),
                      NEW l \in sent[n].at,
                      {m \in 1 .. n - 1 : sent[m].kind = "AMO" /\ l \in sent[m].at} = {}
               PROVE  LET before == {m \in 1 .. n - 1 : sent[m].kind = "WRITE" /\ l \in sent[m].at}
                      IN  \/ seen[n][l] = 0 /\ before = {}
                          \/ /\ seen[n][l] \in before
                             /\ \A m \in before : m <= seen[n][l]
    BY DEF ReadsLatest
  <2>1. Sent = 1 .. Len(sent) /\ Len(sent) \in Nat /\ sent[n] \in Requests
    BY DEF Inv, Types, Sent
  <2>2. l \in Lines /\ n \in On(l)
    BY <2>1, RequestAssumption DEF On
  <2>3. \A m \in 1 .. n - 1 : m \in Sent /\ m < n
    BY <2>1
  <2>4. \A m \in Sent : m < n => m \in 1 .. n - 1
    BY <2>1
  <2>5. NoAMO(n, l)
    BY <2>4 DEF NoAMO, On
  <2>6. ~Pending(n, l)
    <3>1. First(n) \notin live
      BY DEF Done, First
    <3> QED
      BY <3>1 DEF Pending, Inv, IOps
  <2>7. Latest(seen[n][l], n, l)
    BY <2>2, <2>5, <2>6 DEF ILines, IRead
  <2>8. {m \in On(l) : m < n /\ sent[m].kind = "WRITE"}
          = {m \in 1 .. n - 1 : sent[m].kind = "WRITE" /\ l \in sent[m].at}
    BY <2>3, <2>4 DEF On
  <2> QED
    BY <2>7, <2>8 DEF Latest
<1> QED
  BY <1>1, <1>2, <1>3, PTL DEF Spec

-----------------------------------------------------------------------------
(* The counters of the requests in flight, and the fence that waits for    *)
(* them.                                                                   *)

INSTANCE FiniteSetTheorems

NoReadLocks == \A r \in Requests : r.kind # "READLOCK"

\* One pair per part in flight, by the kind of its operation
ICounts == CountersExact /\ \A k \in Kinds : IsFiniteSet(PartsInFlight(k))

INum == num \in [Kinds -> Int]

\* The pairs of an entry
Pairs(o) == {<<o.op, p>> : p \in o.parts}

\* The parts in flight are the pairs of the entries in flight.
LEMMA PairsIn ==
  \A k : \A x : x \in PartsInFlight(k) <=> \E o \in InFlight : o.op.kind = k /\ x \in Pairs(o)
BY DEF PartsInFlight, InFlight, Pairs

\* An entry has as many pairs as parts.
LEMMA PairsCount ==
  ASSUME NEW op, NEW S, IsFiniteSet(S)
  PROVE  /\ IsFiniteSet({<<op, p>> : p \in S})
         /\ Cardinality({<<op, p>> : p \in S}) = Cardinality(S)
<1> DEFINE T == {<<op, p>> : p \in S}
           f == [p \in S |-> <<op, p>>]
<1>1. f \in [S -> T]
  OBVIOUS
<1>2. \A a, b \in S : f[a] = f[b] => a = b
  OBVIOUS
<1>3. \A t \in T : \E a \in S : f[a] = t
  OBVIOUS
<1>4. f \in Bijection(S, T)
  BY Zenon, <1>1, <1>2, <1>3 DEF Bijection, Injection, Surjection, IsInjective
<1>5. ExistsBijection(S, T)
  BY <1>4 DEF ExistsBijection
<1> QED
  BY <1>5, FS_Bijection

\* The parts of an operation can be counted.
LEMMA PartsFinite ==
  ASSUME Inv, NEW i \in DOMAIN rqstQ, Dispatch(i)
  PROVE  /\ rqstQ[i].kind \in Kinds
         /\ Parts(rqstQ[i]) \in SUBSET SUBSET Lines
         /\ IsFiniteSet(Parts(rqstQ[i])) /\ Cardinality(Parts(rqstQ[i])) \in Nat
<1>1. PICK op : op = rqstQ[i]
  OBVIOUS
<1>2. op.kind # "FENCE" /\ rqstQ' = Erase(rqstQ, i)
  BY Zenon, <1>1 DEF Dispatch
<1>3. op \in Ops /\ op \in live /\ Rqst(op) \in Requests
  BY Zenon, <1>1, <1>2, TakenFacts DEF Inv
<1>4. op.kind = OpKind(Rqst(op)) \/ Atomic(op)
  BY Zenon, <1>3 DEF Inv, IOps
<1>5. Parts(op) \in SUBSET SUBSET Lines
  BY Zenon, <1>2, <1>3, <1>4, PartsFacts DEF Inv
<1>6. IsFiniteSet(SUBSET Lines)
  BY LinesAssumption, FS_SUBSET
<1>7. IsFiniteSet(Parts(op)) /\ Cardinality(Parts(op)) \in Nat
  BY <1>5, <1>6, FS_Subset, FS_CardinalityType
<1>8. op.kind \in Kinds
  BY <1>2, <1>3 DEF Ops
<1> QED
  BY Zenon, <1>1, <1>5, <1>7, <1>8

\* A counter is raised by the number of the parts, and lowered by one.
LEMMA NumInductive ==
  ASSUME Inv, INum, [Next]_vars
  PROVE  INum'
<1>1. ASSUME NEW i \in DOMAIN rqstQ, Dispatch(i) PROVE INum'
  <2>1. num' = [num EXCEPT ![rqstQ[i].kind] = @ + Cardinality(Parts(rqstQ[i]))]
    BY Zenon, <1>1 DEF Dispatch
  <2>2. rqstQ[i].kind \in Kinds /\ Cardinality(Parts(rqstQ[i])) \in Nat
    BY Zenon, <1>1, PartsFinite
  <2> QED
    BY <2>1, <2>2 DEF INum
<1>2. ASSUME NEW i \in DOMAIN outstanding, NEW p \in outstanding[i].parts, Response(i, p)
      PROVE  INum'
  <2>1. \E k \in {"READ", "WRITE", "FLUSH"} : num' = [num EXCEPT ![k] = @ - 1]
    BY Zenon, <1>2 DEF Response, handleReadResp, handleWriteResp, handleFlushResp
  <2>2. \A k \in {"READ", "WRITE", "FLUSH"} : k \in Kinds
    BY DEF Kinds
  <2> QED
    BY <2>1, <2>2 DEF INum
<1>3. ASSUME num' = num PROVE INum'
  BY <1>3 DEF INum
<1>4. ASSUME NEW r \in Requests, Send(r) PROVE INum'
  BY Zenon, <1>3, <1>4 DEF Send
<1>5. ASSUME NEW i \in DOMAIN rqstQ, Fence(i) PROVE INum'
  BY Zenon, <1>3, <1>5 DEF Fence
<1>6. ASSUME StartTick \/ EndTick \/ UNCHANGED vars PROVE INum'
  BY Zenon, <1>3, <1>6 DEF StartTick, EndTick, vars
<1> QED
  BY Zenon, <1>1, <1>2, <1>4, <1>5, <1>6 DEF Next, Tick, Respond

LEMMA InitNum == Init => INum
BY DEF Init, INum

\* Every member of RevBasicMemCtrl keeps its type.
THEOREM TypesCorrect == Spec => []TypeOK
<1>1. Init => Inv /\ INum
  BY InitInv, InitNum
<1>2. Inv /\ INum /\ [Next]_vars => (Inv /\ INum)'
  BY InvInductive, NumInductive
<1>3. Inv /\ INum => TypeOK
  BY Zenon DEF Inv, INum, Types, TypeOK
<1> QED
  BY <1>1, <1>2, <1>3, PTL DEF Spec

\* Dispatch adds the pairs of an operation that had none.
LEMMA DispatchCounts ==
  ASSUME Inv, INum, ICounts, NEW i \in DOMAIN rqstQ, Dispatch(i)
  PROVE  ICounts'
<1>0. Types /\ IOps
  BY Zenon DEF Inv
<1>1. PICK op : op = rqstQ[i]
  OBVIOUS
<1>2. PICK e : e = [op |-> op, parts |-> Parts(op)]
  BY Zenon
<1>3. /\ op.kind # "FENCE" /\ outstanding' = Append(outstanding, e) /\ HasSlots(op)
      /\ rqstQ' = Erase(rqstQ, i) /\ UNCHANGED <<hasCache, max>>
      /\ num' = [num EXCEPT ![op.kind] = @ + Cardinality(Parts(op))]
  BY Zenon, <1>1, <1>2 DEF Dispatch, config
<1>4. op \in Ops /\ op \in Queued /\ op \in live /\ Rqst(op) \in Requests
  BY Zenon, <1>0, <1>1, <1>3, TakenFacts
<1>6. /\ Parts(op) \in SUBSET SUBSET Lines /\ IsFiniteSet(Parts(op))
      /\ Cardinality(Parts(op)) \in Nat
  BY Zenon, <1>1, PartsFinite
<1>7. e \in Entries /\ e.op = op /\ e.parts = Parts(op) /\ \A o \in InFlight : o.op # op
  <2>1. e \in Entries /\ e.op = op /\ e.parts = Parts(op)
    BY ONLY <1>2, <1>4, <1>6 DEF Entries
  <2>2. \A o \in InFlight : o.op # op
    BY Zenon, <1>0, <1>4 DEF IOps
  <2> QED
    BY Zenon, <2>1, <2>2
<1>8. InFlight' = InFlight \cup {e}
  <2>1. outstanding \in Seq(Entries)
    BY <1>0 DEF Types, Entries
  <2> QED
    BY <1>3, <1>7, <2>1, AppendFacts DEF InFlight
<1>9. PICK T : T = Pairs(e)
  OBVIOUS
<1>10. IsFiniteSet(T) /\ Cardinality(T) = Cardinality(Parts(op))
  <2>1. T = {<<op, p>> : p \in Parts(op)}
    BY <1>7, <1>9 DEF Pairs
  <2>2. /\ IsFiniteSet({<<op, p>> : p \in Parts(op)})
        /\ Cardinality({<<op, p>> : p \in Parts(op)}) = Cardinality(Parts(op))
    BY ONLY Zenon, <1>6, PairsCount
  <2> QED
    BY ONLY <2>1, <2>2
<1>11. \A k : PartsInFlight(k)' = IF k = op.kind THEN PartsInFlight(k) \cup T ELSE PartsInFlight(k)
  <2>1. \A k : \A x : x \in PartsInFlight(k)' <=> \E o \in InFlight' : o.op.kind = k /\ x \in Pairs(o)
    BY DEF PartsInFlight, InFlight, Pairs
  <2>2. \A k : \A x : x \in PartsInFlight(k)' <=> x \in PartsInFlight(k) \/ (k = op.kind /\ x \in T)
    BY <1>7, <1>8, <1>9, <2>1, PairsIn
  <2> QED
    BY ONLY <2>2
<1>12. PartsInFlight(op.kind) \cap T = {}
  BY <1>7, <1>9, PairsIn DEF Pairs
<1>13. op.kind \in Kinds
  BY <1>3, <1>4 DEF Ops
<1>14. \A k \in Kinds : IsFiniteSet(PartsInFlight(k)) /\ Cardinality(PartsInFlight(k)) \in Nat
  BY FS_CardinalityType DEF ICounts
<1>15. /\ IsFiniteSet(PartsInFlight(op.kind) \cup T)
       /\ Cardinality(PartsInFlight(op.kind) \cup T)
            = Cardinality(PartsInFlight(op.kind)) + Cardinality(Parts(op))
  <2>1. Cardinality(PartsInFlight(op.kind) \cap T) = 0
    BY <1>12, FS_EmptySet
  <2> QED
    <3>1. PICK S : S = PartsInFlight(op.kind)
      OBVIOUS
    <3>2. IsFiniteSet(S) /\ Cardinality(S) \in Nat /\ Cardinality(S \cap T) = 0
      BY <1>13, <1>14, <2>1, <3>1
    <3>3. /\ IsFiniteSet(S \cup T)
          /\ Cardinality(S \cup T) = Cardinality(S) + Cardinality(T) - Cardinality(S \cap T)
      BY ONLY <1>10, <3>2, FS_Union
    <3>4. Cardinality(S \cup T) = Cardinality(S) + Cardinality(Parts(op))
      BY ONLY <1>6, <1>10, <3>2, <3>3
    <3> QED
      BY ONLY <3>1, <3>3, <3>4
<1>16. num \in [Kinds -> Int] /\ max \in [Kinds -> Nat \ {0}]
  BY Zenon, <1>0, LimitAssumption DEF Types, INum
<1>17. \A k \in Kinds : IsFiniteSet(PartsInFlight(k)')
  BY <1>11, <1>14, <1>15
<1>18. ASSUME NEW k \in Kinds
       PROVE  num'[k] = Cardinality(PartsInFlight(k)') /\ (hasCache' => num'[k] <= max'[k])
  <2>1. num[k] = Cardinality(PartsInFlight(k)) /\ (hasCache => num[k] <= max[k])
    BY DEF ICounts, CountersExact
  <2>2. CASE k = op.kind
    <3>1. num'[k] = num[k] + Cardinality(Parts(op))
      BY <1>3, <1>16, <2>2
    <3>2. hasCache => max[k] - num[k] >= Cardinality(Parts(op))
      BY <1>3, <2>2 DEF HasSlots
    <3>3. num[k] \in Int /\ max[k] \in Int
      BY <1>16
    <3>4. num'[k] = Cardinality(PartsInFlight(k)')
      BY Zenon, <1>11, <1>15, <2>1, <2>2, <3>1
    <3>5. hasCache => num'[k] <= max[k]
      BY <1>6, <3>1, <3>2, <3>3
    <3> QED
      BY <1>3, <3>4, <3>5
  <2>3. CASE k # op.kind
    <3>1. num'[k] = num[k]
      BY <1>3, <1>16, <2>3
    <3> QED
      BY Zenon, <1>3, <1>11, <2>1, <2>3, <3>1
  <2> QED
    BY <2>2, <2>3
<1> QED
  BY <1>17, <1>18 DEF ICounts, CountersExact

\* An answer takes one pair away.
LEMMA AnswerCounts ==
  ASSUME Inv, INum, ICounts, NEW i \in DOMAIN outstanding, NEW p \in outstanding[i].parts,
         Answered(i, p), UNCHANGED <<hasCache, max>>,
         num' = [num EXCEPT ![outstanding[i].op.kind] = @ - 1]
  PROVE  ICounts'
<1>0. Types /\ IOps
  BY Zenon DEF Inv
<1>1. PICK o : o = outstanding[i]
  OBVIOUS
<1>2. /\ o \in Entries /\ o \in InFlight /\ o.op \in Ops /\ o.op.kind \in Kinds /\ p \in o.parts
      /\ \A q \in InFlight : q.op = o.op => q = o
  <2>1. /\ o \in Entries /\ o \in InFlight /\ o.op \in Ops /\ p \in o.parts
        /\ \A q \in InFlight : q.op = o.op => q = o
        /\ o.op.kind # "FENCE"
    BY Zenon, <1>0, <1>1, EntryFacts DEF IOps
  <2> QED
    BY <2>1 DEF Ops
<1>3. PICK x : x = <<o.op, p>>
  BY Zenon
<1>4. \A k : \A y : y \in PartsInFlight(k)' <=> y \in PartsInFlight(k) /\ y # x
  <2>1. \A k : \A y : y \in PartsInFlight(k)' <=> \E q \in InFlight' : q.op.kind = k /\ y \in Pairs(q)
    BY DEF PartsInFlight, InFlight, Pairs
  <2>2. \A q \in InFlight \ {o} : x \notin Pairs(q)
    BY <1>2, <1>3 DEF Pairs
  <2>3. CASE Last(i, p)
    <3>1. InFlight' = InFlight \ {o}
      BY Zenon, <1>0, <1>1, <2>3, AnsweredFacts
    <3>2. Pairs(o) = {x}
      <4>1. o.parts = {p}
        BY Zenon, <1>1, <2>3 DEF Last
      <4> QED
        BY ONLY <1>3, <4>1 DEF Pairs
    <3> QED
      BY <1>2, <2>1, <2>2, <3>1, <3>2, PairsIn
  <2>4. CASE ~Last(i, p)
    <3>1. PICK e : e = [o EXCEPT !.parts = o.parts \ {p}]
      BY Zenon
    <3>2. InFlight' = (InFlight \ {o}) \cup {e}
      BY Zenon, <1>0, <1>1, <2>4, <3>1, AnsweredFacts
    <3>3. e.op = o.op /\ e.parts = o.parts \ {p}
      BY <1>2, <3>1 DEF Entries
    <3>4. \A y : y \in Pairs(e) <=> y \in Pairs(o) /\ y # x
      BY ONLY <1>3, <3>3 DEF Pairs
    <3> QED
      BY <1>2, <2>1, <2>2, <3>2, <3>3, <3>4, PairsIn
  <2> QED
    BY <2>3, <2>4
<1>5. \A k : x \in PartsInFlight(k) <=> k = o.op.kind
  <2>1. \A q \in InFlight : x \in Pairs(q) <=> q = o
    BY ONLY <1>2, <1>3 DEF Pairs
  <2> QED
    BY Zenon, <1>2, <2>1, PairsIn
<1>6. \A k : PartsInFlight(k)' = PartsInFlight(k) \ {x}
  BY <1>4
<1>7. num \in [Kinds -> Int] /\ max \in [Kinds -> Nat \ {0}]
  BY Zenon, <1>0, LimitAssumption DEF Types, INum
<1>8. ASSUME NEW k \in Kinds
      PROVE  /\ IsFiniteSet(PartsInFlight(k)')
             /\ num'[k] = Cardinality(PartsInFlight(k)') /\ (hasCache' => num'[k] <= max'[k])
  <2>1. /\ IsFiniteSet(PartsInFlight(k)) /\ num[k] = Cardinality(PartsInFlight(k))
        /\ hasCache => num[k] <= max[k]
    BY ZenonT(40) DEF ICounts, CountersExact
  <2>2. /\ IsFiniteSet(PartsInFlight(k) \ {x})
        /\ Cardinality(PartsInFlight(k) \ {x})
             = IF k = o.op.kind THEN Cardinality(PartsInFlight(k)) - 1
                                ELSE Cardinality(PartsInFlight(k))
    <3>1. PICK S : S = PartsInFlight(k)
      OBVIOUS
    <3>2. IsFiniteSet(S) /\ (x \in S <=> k = o.op.kind)
      BY Zenon, <1>5, <2>1, <3>1
    <3>3. x \in S => IsFiniteSet(S \ {x}) /\ Cardinality(S \ {x}) = Cardinality(S) - 1
      BY ONLY Zenon, <3>2, FS_RemoveElement
    <3>4. x \notin S => S \ {x} = S
      OBVIOUS
    <3> QED
      BY ONLY Zenon, <3>1, <3>2, <3>3, <3>4
  <2>3. num'[k] = (IF k = o.op.kind THEN num[k] - 1 ELSE num[k]) /\ num[k] \in Int /\ max[k] \in Int
    BY <1>1, <1>2, <1>7
  <2>4. num'[k] = Cardinality(PartsInFlight(k)')
    BY Zenon, <1>6, <2>1, <2>2, <2>3
  <2>5. hasCache => num'[k] <= max[k]
    BY <2>1, <2>3
  <2> QED
    BY Zenon, <1>6, <2>2, <2>4, <2>5
<1> QED
  BY <1>8 DEF ICounts, CountersExact

\* Every action keeps the counters exact.
LEMMA CountsInductive ==
  ASSUME NoReadLocks, Inv, INum, ICounts, [Next]_vars
  PROVE  ICounts'
<1>1. ASSUME UNCHANGED <<config, outstanding, num>>
      PROVE  ICounts'
  <2>1. UNCHANGED <<hasCache, max, outstanding, num>>
    BY Zenon, <1>1 DEF config
  <2>2. \A k : PartsInFlight(k)' = PartsInFlight(k)
    BY <2>1 DEF PartsInFlight
  <2> QED
    BY <2>1, <2>2 DEF ICounts, CountersExact
<1>2. ASSUME NEW r \in Requests, Send(r) PROVE ICounts'
  BY Zenon, <1>1, <1>2 DEF Send
<1>3. ASSUME NEW i \in DOMAIN rqstQ, Fence(i) PROVE ICounts'
  BY Zenon, <1>1, <1>3 DEF Fence
<1>4. ASSUME StartTick \/ EndTick \/ UNCHANGED vars PROVE ICounts'
  BY Zenon, <1>1, <1>4 DEF StartTick, EndTick, vars, config
<1>5. ASSUME NEW i \in DOMAIN outstanding, NEW p \in outstanding[i].parts, Response(i, p)
      PROVE  ICounts'
  <2>1. PICK op : op = outstanding[i].op
    OBVIOUS
  <2>2. op.kind # "READLOCK"
    <3>1. op \in live /\ Rqst(op) \in Requests /\ IOps
      BY Zenon, <2>1, EntryFacts DEF Inv
    <3>2. op.kind = "READLOCK" => Rqst(op).kind = "READLOCK"
      BY Zenon, <3>1 DEF IOps, OpKind
    <3> QED
      BY Zenon, <3>1, <3>2 DEF NoReadLocks
  <2>3. Answered(i, p) /\ UNCHANGED <<hasCache, max>> /\ num' = [num EXCEPT ![op.kind] = @ - 1]
    BY Zenon, <1>5, <2>1, <2>2 DEF Response, handleReadResp, handleWriteResp, handleFlushResp, config
  <2> QED
    BY Zenon, <2>1, <2>3, AnswerCounts
<1> QED
  BY Zenon, <1>2, <1>3, <1>4, <1>5, DispatchCounts DEF Next, Tick, Respond

\* Nothing is in flight at first.
LEMMA InitCounts == Init => ICounts
<1> SUFFICES ASSUME Init PROVE ICounts
  OBVIOUS
<1>1. \A k : PartsInFlight(k) = {}
  BY DEF Init, PartsInFlight, Range
<1>2. \A k \in Kinds : num[k] = 0 /\ max[k] \in Nat
  BY LimitAssumption DEF Init
<1> QED
  BY <1>1, <1>2, FS_EmptySet DEF ICounts, CountersExact

\* num_read and its siblings, which the fence and buildCacheMemRqst read, equal the
\* number of requests in flight and stay within the limits when there is a cache.
THEOREM CountersCorrect ==
  ASSUME NoReadLocks
  PROVE  Spec => []CountersExact
<1>1. Init => Inv /\ INum /\ ICounts
  BY InitInv, InitNum, InitCounts
<1>2. Inv /\ INum /\ ICounts /\ [Next]_vars => (Inv /\ INum /\ ICounts)'
  BY InvInductive, NumInductive, CountsInductive
<1>3. Inv /\ INum /\ ICounts => CountersExact
  BY DEF ICounts
<1> QED
  BY <1>1, <1>2, <1>3, PTL DEF Spec

\* When the counters are zero no load or store is in flight.
LEMMA NoneInFlight ==
  ASSUME Inv, ICounts
  PROVE  ICounted
<1> SUFFICES ASSUME TotalRqsts = 0, NEW o \in InFlight,
                    NEW k \in {"READ", "WRITE"}, o.op.kind = k
             PROVE  FALSE
  BY Zenon DEF ICounted
<1>1. \A q \in Kinds : num[q] = Cardinality(PartsInFlight(q)) /\ num[q] \in Nat
  BY FS_CardinalityType DEF ICounts, CountersExact
<1>2. num["READ"] \in Nat /\ num["WRITE"] \in Nat /\ num["READLOCK"] \in Nat
  BY <1>1 DEF Kinds
<1>3. num["READ"] = 0 /\ num["WRITE"] = 0
  <2>1. num["READ"] + num["WRITE"] + num["READLOCK"] = 0
    BY Zenon DEF TotalRqsts
  <2> QED
    BY ONLY <1>2, <2>1
<1>4. k \in Kinds /\ num[k] = 0
  BY <1>3 DEF Kinds
<1>5. PartsInFlight(k) = {}
  BY <1>1, <1>4, FS_EmptySet DEF ICounts
<1>6. PICK p : p \in o.parts
  BY DEF Inv, IOps
<1>7. <<o.op, p>> \in PartsInFlight(k)
  BY <1>6, PairsIn DEF Pairs
<1> QED
  BY <1>5, <1>7

\* clockTick and its fence: a request behind a fence is dispatched only when the loads and stores in
\* front of the fence have been answered, for every number of requests, harts and
\* lines, when the limits on loads and stores are not below ops_per_cycle.
THEOREM FencesCorrect ==
  ASSUME NoReadLocks
  PROVE  Spec => []FenceOrders
<1> DEFINE All == Inv /\ INum /\ ICounts /\ IOrder /\ IFence
<1>1. Init => All
  BY InitInv, InitNum, InitCounts, InitFence
<1>2. All /\ [Next]_vars => All'
  BY InvInductive, NumInductive, CountsInductive, NoneInFlight, OrderInductive
<1>3. All => FenceOrders
  BY DEF IFence
<1> QED
  BY <1>1, <1>2, <1>3, PTL DEF Spec
==============================================================================
