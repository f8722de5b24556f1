-------------------------- MODULE RevMemCtrlProofs --------------------------
(***************************************************************************)
(* The memory controller deletes every operation once and completes every  *)
(* load once, whatever the requests, the limits and the order of answers.  *)
(***************************************************************************)
EXTENDS RevMemCtrl, StdContainersProofs

\* The provers a leaf that names none is given to, in this order.
USE SMTT(10), ZenonT(10), SMTT(60), Z3T(60)

Entries == [op : Ops, parts : SUBSET SUBSET Lines]
InFlight == Range(outstanding)

\* TypeOK but for the counters of requests in flight: they add cardinalities, and nothing
\* in this module rests on them (RevMemOrderProofs has their type).
Types ==
  /\ hasCache \in BOOLEAN /\ max \in Limits
  /\ sent \in Seq(Requests) /\ Len(sent) <= MaxRqsts
  /\ rqstQ \in Seq(Ops)
  /\ outstanding \in Seq([op : Ops, parts : SUBSET SUBSET Lines])
  /\ AMOTable \subseteq Ops
  /\ live \subseteq Ops
  /\ num_fence \in Nat
  /\ ticking \in BOOLEAN
  /\ t_max \in [Kinds -> Nat]
  /\ t_max_ops \in Nat
  /\ marked \in [Ids -> Nat]
  /\ mem \in [Lines -> Versions]
  /\ seen \in [Ids -> [Lines -> Versions]]

\* What is true of the operations, over the sets of those queued and in flight: a
\* request has one operation at a time, the first of its kind or the WRITE of an AMO,
\* and an AMO in flight has a single part.
IOps ==
  /\ IsInjective(rqstQ) /\ IsInjective(outstanding)
  /\ \A o, q \in InFlight : o.op = q.op => o = q
  /\ \A o \in InFlight : o.op \notin Queued
  /\ live = Queued \cup {o.op : o \in InFlight}
  /\ AMOTable = {op \in live : Atomic(op)}
  /\ \A op \in live :
       /\ op.rqst \in Sent
       /\ op.kind = OpKind(Rqst(op)) \/ (Atomic(op) /\ op.kind = "WRITE")
  /\ \A op, oq \in live : op.rqst = oq.rqst => op = oq
  /\ \A o \in InFlight :
       /\ o.op.kind # "FENCE" /\ o.parts # {}
       /\ Atomic(o.op) => \E p : o.parts = {p}

\* No load is marked before it is done, or before it is sent.
IMarks ==
  /\ \A n \in Ids \ Sent : marked[n] = 0
  /\ LoadsMarkedOnce

Inv == Types /\ IOps /\ IMarks

-----------------------------------------------------------------------------
(* What the actions do to the sets of operations.                          *)

\* The operations of an entry, typed.
LEMMA EntryFacts ==
  ASSUME Types, IOps, NEW i \in DOMAIN outstanding
  PROVE  /\ outstanding[i] \in Entries /\ outstanding[i] \in InFlight
         /\ outstanding[i].op \in Ops /\ outstanding[i].op \in live
         /\ outstanding[i].op.rqst \in Sent
         /\ Rqst(outstanding[i].op) \in Requests
<1>1. outstanding \in Seq(Entries)
  BY DEF Types, Entries
<1>2. outstanding[i] \in Entries /\ outstanding[i] \in InFlight
  BY <1>1 DEF InFlight, Range
<1>3. outstanding[i].op \in Ops /\ outstanding[i].op \in live
  BY <1>2 DEF IOps, Entries
<1>4. outstanding[i].op.rqst \in Sent
  BY <1>3 DEF IOps
<1> QED
  BY <1>2, <1>3, <1>4 DEF Types, Rqst, Sent

\* erase of an operation from the queue.
LEMMA TakenFacts ==
  ASSUME Types, IOps, NEW i \in DOMAIN rqstQ, rqstQ' = Erase(rqstQ, i)
  PROVE  /\ rqstQ[i] \in Ops /\ rqstQ[i] \in Queued /\ rqstQ[i] \in live
         /\ rqstQ[i].rqst \in Sent /\ Rqst(rqstQ[i]) \in Requests
         /\ rqstQ' \in Seq(Ops) /\ IsInjective(rqstQ')
         /\ Queued' = Queued \ {rqstQ[i]}
<1>1. rqstQ \in Seq(Ops) /\ i \in 1 .. Len(rqstQ) /\ IsInjective(rqstQ)
  BY DEF Types, IOps
<1>2. /\ rqstQ' \in Seq(Ops) /\ IsInjective(rqstQ')
      /\ Range(rqstQ) = Range(rqstQ') \cup {rqstQ[i]} /\ rqstQ[i] \notin Range(rqstQ')
  BY <1>1, EraseFacts
<1>3. rqstQ[i] \in Ops /\ rqstQ[i] \in Queued
  BY <1>1 DEF Queued, Range
<1>4. rqstQ[i] \in live /\ rqstQ[i].rqst \in Sent
  BY <1>3 DEF IOps
<1>5. Rqst(rqstQ[i]) \in Requests
  BY <1>4 DEF Types, Rqst, Sent
<1>6. Queued' = Queued \ {rqstQ[i]}
  BY <1>2 DEF Queued
<1> QED
  BY <1>2, <1>3, <1>4, <1>5, <1>6

\* An answer takes its part from the entry, and the entry when it was the last.
LEMMA AnsweredFacts ==
  ASSUME Types, IOps, NEW i \in DOMAIN outstanding, NEW p \in outstanding[i].parts,
         Answered(i, p)
  PROVE  /\ outstanding' \in Seq(Entries) /\ IsInjective(outstanding')
         /\ Last(i, p) => InFlight' = InFlight \ {outstanding[i]}
         /\ ~Last(i, p) =>
              /\ outstanding[i].parts \ {p} # {}
              /\ InFlight' = (InFlight \ {outstanding[i]})
                     \cup {[outstanding[i] EXCEPT !.parts = outstanding[i].parts \ {p}]}
<1> DEFINE o == outstanding[i]
           rest == o.parts \ {p}
           e == [o EXCEPT !.parts = rest]
<1>0. outstanding \in Seq(Entries)
  BY DEF Types, Entries
<1>1. /\ outstanding \in Seq(Entries) /\ i \in 1 .. Len(outstanding)
      /\ IsInjective(outstanding) /\ o \in Entries
  BY <1>0, EntryFacts DEF IOps
<1>2. Last(i, p) <=> rest = {}
  BY DEF Last
<1>3. CASE Last(i, p)
  <2>1. outstanding' = Erase(outstanding, i)
    BY <1>2, <1>3 DEF Answered
  <2>2. /\ outstanding' \in Seq(Entries) /\ IsInjective(outstanding')
        /\ Range(outstanding) = Range(outstanding') \cup {o} /\ o \notin Range(outstanding')
    BY <1>1, <2>1, EraseFacts
  <2> QED
    BY <1>3, <2>2 DEF InFlight
<1>4. CASE ~Last(i, p)
  <2>1. outstanding' = [outstanding EXCEPT ![i] = e]
    BY <1>2, <1>4 DEF Answered
  <2>2. e \in Entries /\ e.op = o.op
    BY <1>1 DEF Entries
  <2>3. e \notin InFlight \ {o}
    BY Zenon, <1>1, <2>2, EntryFacts DEF IOps
  <2>4. /\ outstanding' \in Seq(Entries) /\ IsInjective(outstanding')
        /\ Range(outstanding') = (Range(outstanding) \ {o}) \cup {e}
    <3>1. e \notin Range(outstanding) \ {outstanding[i]}
      BY <2>3 DEF InFlight
    <3> HIDE DEF e
    <3>2. e \in Entries
      BY <2>2
    <3>3. /\ [outstanding EXCEPT ![i] = e] \in Seq(Entries)
          /\ Range([outstanding EXCEPT ![i] = e])
               = (Range(outstanding) \ {outstanding[i]}) \cup {e}
          /\ e \notin Range(outstanding) \ {outstanding[i]}
               => IsInjective([outstanding EXCEPT ![i] = e])
      BY ONLY <1>1, <3>2, ReplaceFacts
    <3> QED
      BY Zenon, <2>1, <3>1, <3>3
  <2> QED
    BY <1>2, <1>4, <2>4 DEF InFlight
<1> QED
  BY <1>3, <1>4

\* The parts of a request: there is one at least, and one only for an AMO.
LEMMA PartsFacts ==
  ASSUME Types, NEW op \in Ops, Rqst(op) \in Requests, op.kind # "FENCE",
         op.kind = OpKind(Rqst(op)) \/ Atomic(op)
  PROVE  /\ Parts(op) \in SUBSET SUBSET Lines /\ Parts(op) # {}
         /\ Atomic(op) => \E p : Parts(op) = {p}
<1> DEFINE at == Rqst(op).at
<1>1. Rqst(op).kind # "FENCE"
  BY DEF OpKind, Atomic
<1>2. at \subseteq Lines /\ at # {} /\ (Atomic(op) => \E l \in Lines : at = {l})
  BY <1>1, RequestAssumption DEF Atomic
<1>3. Parts(op) \in SUBSET SUBSET Lines /\ Parts(op) # {}
  BY Zenon, <1>2 DEF Parts
<1>4. Atomic(op) => \E p : Parts(op) = {p}
  <2>1. ASSUME NEW l, at = {l}, hasCache PROVE Parts(op) = {{l}}
    BY Zenon, <2>1 DEF Parts
  <2>2. ASSUME ~hasCache PROVE Parts(op) = {at}
    BY Zenon, <2>2 DEF Parts
  <2> QED
    BY Zenon, <1>2, <2>1, <2>2
<1> QED
  BY <1>3, <1>4

-----------------------------------------------------------------------------
(* Types and operations, action by action.                                 *)

\* The queue and the flight are empty at first.
LEMMA InitOps == Init => Types /\ IOps
<1> SUFFICES ASSUME Init PROVE Types /\ IOps
  OBVIOUS
<1>1. Types
  <2>1. 0 \in Versions /\ 0 <= MaxRqsts
    BY MaxRqstsAssumption DEF Versions
  <2>2. /\ hasCache \in BOOLEAN /\ max \in Limits /\ ticking \in BOOLEAN
        /\ num_fence \in Nat /\ t_max_ops \in Nat
        /\ AMOTable \subseteq Ops /\ live \subseteq Ops
    BY Zenon DEF Init
  <2>3. t_max \in [Kinds -> Nat] /\ marked \in [Ids -> Nat]
    BY DEF Init
  <2>4. mem \in [Lines -> Versions] /\ seen \in [Ids -> [Lines -> Versions]]
    BY <2>1 DEF Init
  <2>5. /\ sent \in Seq(Requests) /\ Len(sent) <= MaxRqsts /\ rqstQ \in Seq(Ops)
        /\ outstanding \in Seq([op : Ops, parts : SUBSET SUBSET Lines])
    BY <2>1 DEF Init
  <2> QED
    BY <2>2, <2>3, <2>4, <2>5 DEF Types
<1>2. Queued = {} /\ InFlight = {} /\ live = {} /\ AMOTable = {}
  BY DEF Init, Queued, InFlight, Range
<1>3. IsInjective(rqstQ) /\ IsInjective(outstanding)
  BY DEF Init, IsInjective
<1> QED
  BY <1>1, <1>2, <1>3 DEF IOps

\* sendREADRequest and its siblings queue a new operation.
LEMMA SendOps ==
  ASSUME Types, IOps, NEW r \in Requests, Send(r)
  PROVE  Types' /\ IOps'
<1>0a. PICK n : n = Len(sent) + 1
  OBVIOUS
<1>0b. PICK op : op = [rqst |-> n, kind |-> OpKind(r)]
  BY Zenon
<1>1. /\ sent \in Seq(Requests) /\ Len(sent) \in Nat /\ Sent = 1 .. Len(sent)
      /\ Len(sent) < MaxRqsts /\ n \in Ids
  BY <1>0a, MaxRqstsAssumption DEF Types, Send, Ids, Sent
<1>2. /\ sent' = Append(sent, r) /\ rqstQ' = Append(rqstQ, op) /\ live' = live \cup {op}
      /\ AMOTable' = IF r.kind = "AMO" THEN AMOTable \cup {op} ELSE AMOTable
      /\ outstanding' = outstanding
  BY <1>0a, <1>0b DEF Send
<1>3. /\ sent' \in Seq(Requests) /\ Len(sent') = n /\ Sent' = Sent \cup {n} /\ n \notin Sent
      /\ sent'[n] = r /\ \A m \in Sent : sent'[m] = sent[m]
  BY <1>0a, <1>1, <1>2 DEF Sent
<1>4. op \in Ops /\ op.rqst = n /\ op.kind = OpKind(r)
  BY <1>0b, <1>1, RequestAssumption DEF Ops, OpKind, RqstKinds, Kinds
<1>5. op \notin live /\ op \notin Queued
  BY <1>3, <1>4 DEF IOps
<1>6. /\ rqstQ' \in Seq(Ops) /\ IsInjective(rqstQ') /\ Queued' = Queued \cup {op}
  <2>1. rqstQ \in Seq(Ops) /\ IsInjective(rqstQ) /\ op \notin Range(rqstQ)
    BY <1>5 DEF Types, IOps, Queued
  <2> QED
    BY <1>2, <1>4, <2>1, AppendFacts DEF Queued
<1>7. InFlight' = InFlight
  BY <1>2 DEF InFlight
<1>8. Types'
  <2>1. live' \subseteq Ops /\ AMOTable' \subseteq Ops /\ Len(sent') <= MaxRqsts
    BY <1>0a, <1>1, <1>2, <1>3, <1>4, MaxRqstsAssumption DEF Types
  <2> QED
    BY <1>2, <1>3, <1>6, <2>1 DEF Types, Send, tickVars, memVars, config
<1>9. /\ \A q \in live : Rqst(q)' = Rqst(q) /\ (Atomic(q)' <=> Atomic(q)) /\ q.rqst \in Sent'
      /\ Rqst(op)' = r /\ (Atomic(op)' <=> r.kind = "AMO")
  BY <1>3, <1>4 DEF IOps, Rqst, Atomic, Sent
<1>10. /\ \A o \in InFlight : o.op \in live /\ o.op # op
       /\ \A q \in live : q.rqst # op.rqst
  BY <1>3, <1>4, <1>5 DEF IOps
<1>11. IOps'
  <2>1. AMOTable' = {q \in live' : Atomic(q)'}
    BY <1>2, <1>9 DEF IOps
  <2>2. /\ live' = Queued' \cup {o.op : o \in InFlight'}
        /\ \A o \in InFlight' : o.op \notin Queued'
    BY <1>2, <1>5, <1>6, <1>7, <1>10 DEF IOps
  <2>3. \A q \in live' :
          q.rqst \in Sent' /\ (q.kind = OpKind(Rqst(q)') \/ (Atomic(q)' /\ q.kind = "WRITE"))
    BY <1>2, <1>3, <1>4, <1>9 DEF IOps, OpKind
  <2>4. \A q, oq \in live' : q.rqst = oq.rqst => q = oq
    BY <1>2, <1>10 DEF IOps
  <2>5. \A o \in InFlight' :
          /\ o.op.kind # "FENCE" /\ o.parts # {}
          /\ Atomic(o.op)' => \E p : o.parts = {p}
    BY Zenon, <1>7, <1>9, <1>10 DEF IOps
  <2>6. \A o, q \in InFlight' : o.op = q.op => o = q
    BY <1>7 DEF IOps
  <2> QED
    BY Zenon, <1>2, <1>6, <2>1, <2>2, <2>3, <2>4, <2>5, <2>6 DEF IOps, OpKind
<1> QED
  BY <1>8, <1>11

\* buildRawMemRqst and buildCacheMemRqst move an operation from the queue into flight.
LEMMA DispatchOps ==
  ASSUME Types, IOps, NEW i \in DOMAIN rqstQ, Dispatch(i)
  PROVE  Types' /\ IOps'
<1>1. PICK op : op = rqstQ[i]
  OBVIOUS
<1>2. PICK e : e = [op |-> op, parts |-> Parts(op)]
  BY Zenon
<1>3. /\ op.kind # "FENCE" /\ outstanding' = Append(outstanding, e)
      /\ rqstQ' = Erase(rqstQ, i) /\ sent' = sent /\ live' = live /\ AMOTable' = AMOTable
  BY <1>1, <1>2 DEF Dispatch
<1>4. /\ op \in Ops /\ op \in Queued /\ op \in live
      /\ op.rqst \in Sent /\ Rqst(op) \in Requests
      /\ rqstQ' \in Seq(Ops) /\ IsInjective(rqstQ') /\ Queued' = Queued \ {op}
  BY <1>1, <1>3, TakenFacts
<1>5. op.kind = OpKind(Rqst(op)) \/ Atomic(op)
  BY <1>4 DEF IOps
<1>6. /\ Parts(op) \in SUBSET SUBSET Lines /\ Parts(op) # {}
      /\ (Atomic(op) => \E p : Parts(op) = {p})
  BY Zenon, <1>3, <1>4, <1>5, PartsFacts
<1>7. e \in Entries /\ e.op = op /\ e.parts = Parts(op) /\ e \notin InFlight
  BY <1>2, <1>4, <1>6 DEF Entries, IOps
<1>8. outstanding' \in Seq(Entries) /\ IsInjective(outstanding') /\ InFlight' = InFlight \cup {e}
  <2>1. outstanding \in Seq(Entries) /\ IsInjective(outstanding) /\ e \notin Range(outstanding)
    BY <1>7 DEF Types, IOps, Entries, InFlight
  <2> QED
    BY <1>3, <1>7, <2>1, AppendFacts DEF InFlight
<1>9. Types'
  <2>1. op.kind \in Kinds
    BY <1>3, <1>4 DEF Ops
  <2>2. t_max' \in [Kinds -> Nat] /\ t_max_ops' \in Nat /\ ticking' \in BOOLEAN
    BY <1>1, <2>1 DEF Types, Dispatch
  <2> QED
    BY <1>3, <1>4, <1>8, <2>2 DEF Types, Dispatch, Entries, memVars, config
<1>10. IOps'
  <2>1. \A q : Rqst(q)' = Rqst(q) /\ (Atomic(q)' <=> Atomic(q))
    BY <1>3 DEF Rqst, Atomic
  <2>2. Sent' = Sent
    BY <1>3 DEF Sent
  <2>3. AMOTable' = {q \in live' : Atomic(q)'}
    BY <1>3, <2>1 DEF IOps
  <2>4. live' = Queued' \cup {o.op : o \in InFlight'}
    BY <1>3, <1>4, <1>7, <1>8 DEF IOps
  <2>5. \A o \in InFlight' : o.op \notin Queued'
    BY <1>4, <1>7, <1>8 DEF IOps
  <2>6. \A o, q \in InFlight' : o.op = q.op => o = q
    BY <1>4, <1>7, <1>8 DEF IOps
  <2>7. \A o \in InFlight' :
          /\ o.op.kind # "FENCE" /\ o.parts # {}
          /\ Atomic(o.op)' => \E p : o.parts = {p}
    BY Zenon, <1>3, <1>6, <1>7, <1>8, <2>1 DEF IOps
  <2>8. \A q \in live' :
          q.rqst \in Sent' /\ (q.kind = OpKind(Rqst(q)') \/ (Atomic(q)' /\ q.kind = "WRITE"))
    BY <1>3, <2>1, <2>2 DEF IOps
  <2>9. \A q, oq \in live' : q.rqst = oq.rqst => q = oq
    BY <1>3 DEF IOps
  <2> QED
    BY Zenon, <1>4, <1>8, <2>3, <2>4, <2>5, <2>6, <2>7, <2>8, <2>9 DEF IOps, OpKind
<1> QED
  BY <1>9, <1>10

\* A fence is deleted when it is taken from the queue.
LEMMA FenceOps ==
  ASSUME Types, IOps, NEW i \in DOMAIN rqstQ, Fence(i)
  PROVE  Types' /\ IOps'
<1>1. PICK op : op = rqstQ[i]
  OBVIOUS
<1>3. /\ op.kind = "FENCE" /\ outstanding' = outstanding
      /\ rqstQ' = Erase(rqstQ, i) /\ sent' = sent /\ live' = live \ {op}
      /\ AMOTable' = AMOTable
  BY <1>1 DEF Fence
<1>4. /\ op \in Ops /\ op \in Queued /\ op \in live
      /\ rqstQ' \in Seq(Ops) /\ IsInjective(rqstQ') /\ Queued' = Queued \ {op}
  BY <1>1, <1>3, TakenFacts
<1>5. ~Atomic(op)
  BY <1>3, <1>4 DEF IOps, OpKind, Atomic
<1>6. InFlight' = InFlight /\ Sent' = Sent
  BY <1>3 DEF InFlight, Sent
<1>7. Types'
  <2>1. num_fence' = num_fence + 1 /\ ticking' = FALSE
    BY DEF Fence
  <2>2. live' \subseteq Ops
    BY <1>3 DEF Types
  <2>3. num_fence' \in Nat /\ ticking' \in BOOLEAN
    <3>1. num_fence \in Nat
      BY DEF Types
    <3>2. num_fence' \in Nat
      BY ONLY <2>1, <3>1
    <3> QED
      BY Zenon, <2>1, <3>2
  <2> QED
    BY <1>3, <1>4, <2>2, <2>3 DEF Types, Fence, memVars, config
<1>8. IOps'
  <2>1. \A q : Rqst(q)' = Rqst(q) /\ (Atomic(q)' <=> Atomic(q))
    BY <1>3 DEF Rqst, Atomic
  <2>2. AMOTable' = {q \in live' : Atomic(q)'}
    BY <1>3, <1>5, <2>1 DEF IOps
  <2>3. live' = Queued' \cup {o.op : o \in InFlight'}
    BY <1>3, <1>4, <1>6 DEF IOps
  <2> QED
    BY Zenon, <1>3, <1>4, <1>6, <2>1, <2>2, <2>3 DEF IOps
<1> QED
  BY <1>7, <1>8

\* An answer that is not the last leaves the operation where it is.
LEMMA PartialAnswer ==
  ASSUME Types, IOps, NEW i \in DOMAIN outstanding, NEW p \in outstanding[i].parts,
         Answered(i, p), ~Last(i, p),
         UNCHANGED <<sent, rqstQ, live, AMOTable>>
  PROVE  IOps' /\ outstanding[i].op \notin AMOTable
<1>1. PICK o : o = outstanding[i]
  OBVIOUS
<1>2. PICK e : e = [o EXCEPT !.parts = o.parts \ {p}]
  BY Zenon
<1>3. o \in Entries /\ o \in InFlight /\ o.op \in live /\ p \in o.parts
  BY Zenon, <1>1, EntryFacts DEF IOps
<1>4. e.op = o.op /\ e.parts = o.parts \ {p} /\ e.parts # {}
  BY <1>1, <1>2, <1>3, AnsweredFacts DEF Entries
<1>5. IsInjective(outstanding') /\ InFlight' = (InFlight \ {o}) \cup {e}
  BY <1>1, <1>2, AnsweredFacts
<1>6. ~Atomic(o.op)
  BY <1>3, <1>4 DEF IOps
<1>7. Queued' = Queued /\ Sent' = Sent
  BY DEF Queued, Sent
<1>8. \A q : Rqst(q)' = Rqst(q) /\ (Atomic(q)' <=> Atomic(q))
  BY DEF Rqst, Atomic
<1>9. {q.op : q \in InFlight'} = {q.op : q \in InFlight}
  BY <1>3, <1>4, <1>5
<1>10. \A q, u \in InFlight' : q.op = u.op => q = u
  BY <1>3, <1>4, <1>5 DEF IOps
<1>11. \A q \in InFlight' :
         /\ q.op \notin Queued' /\ q.op.kind # "FENCE" /\ q.parts # {}
         /\ Atomic(q.op)' => \E x : q.parts = {x}
  BY Zenon, <1>3, <1>4, <1>5, <1>6, <1>7, <1>8 DEF IOps
<1>12. \A q \in live' :
         q.rqst \in Sent' /\ (q.kind = OpKind(Rqst(q)') \/ (Atomic(q)' /\ q.kind = "WRITE"))
  BY <1>7, <1>8 DEF IOps
<1>13. AMOTable' = {q \in live' : Atomic(q)'}
  BY <1>8 DEF IOps
<1>14. IsInjective(rqstQ')
  BY DEF IOps
<1>15. live' = Queued' \cup {q.op : q \in InFlight'}
  BY ZenonT(40), <1>7, <1>9 DEF IOps
<1>16. \A q, u \in live' : q.rqst = u.rqst => q = u
  BY DEF IOps
<1>17. o.op \notin AMOTable
  BY <1>6 DEF IOps
<1> QED
  BY Zenon, <1>1, <1>5, <1>10, <1>11, <1>12, <1>13, <1>14, <1>15, <1>16, <1>17 DEF IOps, OpKind

\* The last answer ends an operation.
LEMMA LastAnswer ==
  ASSUME Types, IOps, NEW i \in DOMAIN outstanding, NEW p \in outstanding[i].parts,
         Answered(i, p), Last(i, p), UNCHANGED <<sent, rqstQ>>,
         live' = live \ {outstanding[i].op}, AMOTable' = AMOTable \ {outstanding[i].op}
  PROVE  IOps'
<1>1. PICK o : o = outstanding[i]
  OBVIOUS
<1>3. o \in Entries /\ o \in InFlight /\ o.op \in live /\ o.op \notin Queued
  BY ZenonT(40), <1>1, EntryFacts DEF IOps
<1>5. IsInjective(outstanding') /\ InFlight' = InFlight \ {o}
  BY <1>1, AnsweredFacts
<1>6. live' = live \ {o.op} /\ AMOTable' = AMOTable \ {o.op}
  BY <1>1
<1>7. Queued' = Queued /\ Sent' = Sent
  BY DEF Queued, Sent
<1>8. \A q : Rqst(q)' = Rqst(q) /\ (Atomic(q)' <=> Atomic(q))
  BY DEF Rqst, Atomic
<1>9. {q.op : q \in InFlight'} = {q.op : q \in InFlight} \ {o.op}
  BY <1>3, <1>5 DEF IOps
<1>11. \A q \in InFlight' :
         /\ q.op \notin Queued' /\ q.op.kind # "FENCE" /\ q.parts # {}
         /\ Atomic(q.op)' => \E x : q.parts = {x}
  BY Zenon, <1>5, <1>7, <1>8 DEF IOps
<1>12. \A q \in live' :
         q.rqst \in Sent' /\ (q.kind = OpKind(Rqst(q)') \/ (Atomic(q)' /\ q.kind = "WRITE"))
  BY <1>6, <1>7, <1>8 DEF IOps
<1>13. AMOTable' = {q \in live' : Atomic(q)'}
  BY <1>6, <1>8 DEF IOps
<1>14. IsInjective(rqstQ')
  BY DEF IOps
<1>15. live' = Queued' \cup {q.op : q \in InFlight'}
  BY ZenonT(40), <1>3, <1>6, <1>7, <1>9 DEF IOps
<1>16. /\ \A q, u \in live' : q.rqst = u.rqst => q = u
       /\ \A q, u \in InFlight' : q.op = u.op => q = u
  BY <1>5, <1>6 DEF IOps
<1> QED
  BY Zenon, <1>5, <1>11, <1>12, <1>13, <1>14, <1>15, <1>16 DEF IOps, OpKind

\* The answer to the READ of an AMO puts its WRITE into its place.
LEMMA AMOAnswer ==
  ASSUME Types, IOps, NEW i \in DOMAIN outstanding, NEW p \in outstanding[i].parts,
         Answered(i, p), Last(i, p), sent' = sent, outstanding[i].op.kind # "WRITE",
         outstanding[i].op \in AMOTable, handleAMO(outstanding[i].op)
  PROVE  /\ IOps' /\ rqstQ' \in Seq(Ops) /\ live' \subseteq Ops /\ AMOTable' \subseteq Ops
         /\ \A n : Done(n)' <=> Done(n)
<1>1. PICK o : o = outstanding[i]
  OBVIOUS
<1>2. PICK write : write = [o.op EXCEPT !.kind = "WRITE"]
  BY Zenon
<1>3. o \in Entries /\ o \in InFlight /\ o.op \in live /\ o.op \notin Queued /\ o.op \in Ops
  BY ZenonT(40), <1>1, EntryFacts DEF IOps
<1>4. /\ write \in Ops /\ write.rqst = o.op.rqst /\ write.kind = "WRITE" /\ write # o.op
  BY <1>1, <1>2, <1>3 DEF Ops, Kinds
<1>5. IsInjective(outstanding') /\ InFlight' = InFlight \ {o}
  BY <1>1, AnsweredFacts
<1>6. /\ AMOTable' = (AMOTable \ {o.op}) \cup {write}
      /\ rqstQ' = Append(rqstQ, write)
      /\ live' = (live \ {o.op}) \cup {write}
  BY <1>1, <1>2 DEF handleAMO
<1>7. write \notin live /\ write \notin Queued
  BY <1>3, <1>4 DEF IOps
<1>8. rqstQ' \in Seq(Ops) /\ IsInjective(rqstQ') /\ Queued' = Queued \cup {write}
  <2>1. rqstQ \in Seq(Ops) /\ IsInjective(rqstQ) /\ write \notin Range(rqstQ)
    BY <1>7 DEF Types, IOps, Queued
  <2> QED
    BY <1>4, <1>6, <2>1, AppendFacts DEF Queued
<1>9. \A q : Rqst(q)' = Rqst(q) /\ (Atomic(q)' <=> Atomic(q))
  BY DEF Rqst, Atomic
<1>10. Atomic(o.op) /\ Atomic(write) /\ Sent' = Sent
  BY <1>1, <1>4 DEF IOps, Atomic, Rqst, Sent
<1>11. {q.op : q \in InFlight'} = {q.op : q \in InFlight} \ {o.op}
  BY <1>3, <1>5 DEF IOps
<1>12. \A q \in InFlight' :
         /\ q.op \notin Queued' /\ q.op.kind # "FENCE" /\ q.parts # {}
         /\ Atomic(q.op)' => \E x : q.parts = {x}
  BY ZenonT(40), <1>5, <1>7, <1>8, <1>9 DEF IOps
<1>13. \A q \in live' :
         q.rqst \in Sent' /\ (q.kind = OpKind(Rqst(q)') \/ (Atomic(q)' /\ q.kind = "WRITE"))
  BY <1>3, <1>4, <1>6, <1>9, <1>10 DEF IOps
<1>14. AMOTable' = {q \in live' : Atomic(q)'}
  BY <1>6, <1>9, <1>10 DEF IOps
<1>15. live' = Queued' \cup {q.op : q \in InFlight'}
  BY Zenon, <1>3, <1>6, <1>8, <1>11 DEF IOps
<1>16. /\ \A q, u \in live' : q.rqst = u.rqst => q = u
       /\ \A q, u \in InFlight' : q.op = u.op => q = u
  BY <1>3, <1>4, <1>5, <1>6 DEF IOps
<1>17. IOps'
  BY Zenon, <1>5, <1>8, <1>12, <1>13, <1>14, <1>15, <1>16 DEF IOps, OpKind
<1>18. live' \subseteq Ops /\ AMOTable' \subseteq Ops
  BY <1>4, <1>6 DEF Types
<1>19. \A n : Done(n)' <=> Done(n)
  BY <1>3, <1>4, <1>6 DEF Done
<1> QED
  BY <1>8, <1>17, <1>18, <1>19

-----------------------------------------------------------------------------
(* MarkLoadComplete.                                                       *)

Loads == {"READ", "READLOCK", "AMO"}

\* Nothing changes for the marks while no request gets done.
LEMMA SameMarks ==
  ASSUME IMarks, UNCHANGED <<sent, marked>>, \A n : Done(n)' <=> Done(n)
  PROVE  IMarks'
<1>1. Sent' = Sent
  BY DEF Sent
<1> QED
  BY <1>1 DEF IMarks, LoadsMarkedOnce

\* A request is marked when its operation ends, if it is a load.
LEMMA MarkedAtTheEnd ==
  ASSUME Types, IOps, IMarks, NEW op \in live, sent' = sent, live' = live \ {op},
         marked' = IF Rqst(op).kind \in Loads THEN [marked EXCEPT ![op.rqst] = @ + 1] ELSE marked
  PROVE  IMarks' /\ marked' \in [Ids -> Nat]
<1>1. PICK n : n = op.rqst
  OBVIOUS
<1>2. n \in Ids /\ n \in Sent /\ Sent' = Sent /\ Rqst(op) = sent[n]
  BY <1>1 DEF Types, IOps, Ops, Sent, Rqst
<1>3. ~Done(n) /\ Done(n)'
  BY <1>1 DEF Done, IOps
<1>4. \A m : m # n => (Done(m)' <=> Done(m))
  BY <1>1 DEF Done
<1>5. marked[n] = 0
  BY <1>2, <1>3 DEF IMarks, LoadsMarkedOnce
<1>6. /\ marked' \in [Ids -> Nat]
      /\ marked'[n] = IF sent[n].kind \in Loads THEN 1 ELSE 0
      /\ \A m \in Ids : m # n => marked'[m] = marked[m]
  BY <1>1, <1>2, <1>5 DEF Types
<1>7. Sent \subseteq Ids
  BY MaxRqstsAssumption DEF Types, Sent, Ids
<1>8. LoadsMarkedOnce'
  <2> SUFFICES ASSUME NEW m \in Sent
               PROVE  marked'[m] = IF sent[m].kind \in Loads /\ Done(m)' THEN 1 ELSE 0
    BY <1>2 DEF LoadsMarkedOnce, Loads
  <2>1. CASE m = n
    BY <1>3, <1>6, <2>1
  <2>2. CASE m # n
    BY <1>4, <1>6, <1>7, <2>2 DEF IMarks, LoadsMarkedOnce, Loads
  <2> QED
    BY <2>1, <2>2
<1> QED
  BY <1>2, <1>6, <1>8 DEF IMarks

-----------------------------------------------------------------------------
\* handleReadResp keeps the invariant.
LEMMA ReadOps ==
  ASSUME Inv, NEW i \in DOMAIN outstanding, NEW p \in outstanding[i].parts,
         handleReadResp(i, p)
  PROVE  Inv'
<1> USE DEF Inv
<1>1. PICK op : op = outstanding[i].op
  OBVIOUS
<1>2. /\ op.kind \in {"READ", "READLOCK"} /\ Answered(i, p) /\ sent' = sent
      /\ seen' = [seen EXCEPT ![op.rqst] = [l \in Lines |-> IF l \in p THEN mem[l] ELSE @[l]]]
      /\ UNCHANGED <<config, num_fence, tickVars, mem>>
  BY <1>1 DEF handleReadResp
<1>3. op \in Ops /\ op \in live /\ op.rqst \in Sent /\ op.rqst \in Ids
  BY <1>1, EntryFacts DEF Ops
<1>4. outstanding' \in Seq(Entries)
  BY <1>2, AnsweredFacts
<1>5. seen' \in [Ids -> [Lines -> Versions]]
  <2>1. seen \in [Ids -> [Lines -> Versions]] /\ mem \in [Lines -> Versions]
    BY DEF Types
  <2>2. [l \in Lines |-> IF l \in p THEN mem[l] ELSE seen[op.rqst][l]] \in [Lines -> Versions]
    BY <1>3, <2>1
  <2> QED
    BY <1>2, <1>3, <2>1, <2>2
<1>6. ASSUME rqstQ' \in Seq(Ops), live' \subseteq Ops, AMOTable' \subseteq Ops,
             marked' \in [Ids -> Nat]
      PROVE  Types'
  BY <1>2, <1>4, <1>5, <1>6 DEF Types, Entries, tickVars, config
<1>7. CASE ~Last(i, p)
  <2>1. UNCHANGED <<AMOTable, rqstQ, live, marked>>
    BY Zenon, <1>1, <1>7 DEF handleReadResp
  <2>2. IOps'
    BY <1>2, <1>7, <2>1, PartialAnswer
  <2>3. \A n : Done(n)' <=> Done(n)
    BY <2>1 DEF Done
  <2>4. IMarks'
    BY ZenonT(40), <1>2, <2>1, <2>3, SameMarks
  <2>5. Types'
    BY Zenon, <1>6, <2>1 DEF Types
  <2> QED
    BY <2>2, <2>4, <2>5
<1>8. CASE Last(i, p) /\ op \in AMOTable
  <2>1. handleAMO(op) /\ UNCHANGED marked
    BY <1>1, <1>8 DEF handleReadResp, handleAMO
  <2>2. /\ IOps' /\ rqstQ' \in Seq(Ops) /\ live' \subseteq Ops /\ AMOTable' \subseteq Ops
        /\ \A n : Done(n)' <=> Done(n)
    BY <1>1, <1>2, <1>8, <2>1, AMOAnswer
  <2>3. IMarks'
    BY <1>2, <2>1, <2>2, SameMarks
  <2>4. Types'
    BY <1>6, <2>1, <2>2 DEF Types
  <2> QED
    BY <2>2, <2>3, <2>4
<1>9. CASE Last(i, p) /\ op \notin AMOTable
  <2>1. Mark(op.rqst) /\ live' = live \ {op} /\ UNCHANGED <<AMOTable, rqstQ>>
    BY ZenonT(40), <1>1, <1>9 DEF handleReadResp
  <2>2. AMOTable' = AMOTable \ {op}
    BY <1>9, <2>1
  <2>3. IOps'
    BY <1>1, <1>2, <1>9, <2>1, <2>2, LastAnswer
  <2>4. Rqst(op).kind \in Loads
    BY <1>2, <1>3, <1>9 DEF IOps, OpKind, Atomic, Loads
  <2>5. IMarks' /\ marked' \in [Ids -> Nat]
    BY Zenon, <1>2, <1>3, <2>1, <2>4, MarkedAtTheEnd DEF Mark
  <2>6. Types'
    BY ZenonT(40), <1>6, <2>1, <2>5 DEF Types
  <2> QED
    BY <2>3, <2>5, <2>6
<1> QED
  BY <1>7, <1>8, <1>9

\* handleWriteResp keeps the invariant.
LEMMA WriteOps ==
  ASSUME Inv, NEW i \in DOMAIN outstanding, NEW p \in outstanding[i].parts,
         handleWriteResp(i, p)
  PROVE  Inv'
<1> USE DEF Inv
<1>1. PICK op : op = outstanding[i].op
  OBVIOUS
<1>2. /\ op.kind = "WRITE" /\ Answered(i, p) /\ sent' = sent /\ rqstQ' = rqstQ
      /\ mem' = [l \in Lines |-> IF l \in p THEN op.rqst ELSE mem[l]]
      /\ AMOTable' = AMOTable \ {op}
      /\ live' = IF Last(i, p) THEN live \ {op} ELSE live
      /\ UNCHANGED <<config, num_fence, tickVars, seen>>
  BY <1>1 DEF handleWriteResp, queueVars
<1>3. op \in Ops /\ op \in live /\ op.rqst \in Sent /\ op.rqst \in Ids /\ op.rqst \in Versions
  <2>1. op \in Ops /\ op \in live /\ op.rqst \in Sent /\ op.rqst \in Ids
    BY <1>1, EntryFacts DEF Ops
  <2> QED
    BY <2>1, MaxRqstsAssumption DEF Ids, Versions
<1>4. outstanding' \in Seq(Entries)
  BY <1>2, AnsweredFacts
<1>5. mem' \in [Lines -> Versions]
  <2>1. mem \in [Lines -> Versions]
    BY DEF Types
  <2> QED
    BY <1>2, <1>3, <2>1
<1>6. ASSUME marked' \in [Ids -> Nat]
      PROVE  Types'
  BY <1>2, <1>4, <1>5, <1>6 DEF Types, Entries, tickVars, config
<1>7. CASE ~Last(i, p)
  <2>1. live' = live /\ marked' = marked
    BY <1>1, <1>2, <1>7 DEF handleWriteResp
  <2>2. op \notin AMOTable
    <3>1. outstanding[i] \in InFlight
      BY EntryFacts
    <3>2. ~\E q : outstanding[i].parts = {q}
      BY <1>7 DEF Last
    <3>3. ~Atomic(op)
      BY Zenon, <1>1, <3>1, <3>2 DEF IOps
    <3> QED
      BY Zenon, <3>3 DEF IOps
  <2>3. AMOTable' = AMOTable
    BY <1>2, <2>2
  <2>4. IOps'
    BY <1>2, <1>7, <2>1, <2>3, PartialAnswer
  <2>5. \A n : Done(n)' <=> Done(n)
    BY <2>1 DEF Done
  <2>6. IMarks'
    BY ZenonT(40), <1>2, <2>1, <2>5, SameMarks
  <2>7. Types'
    BY ZenonT(40), <1>6, <2>1 DEF Types
  <2> QED
    BY <2>4, <2>6, <2>7
<1>8. CASE Last(i, p)
  <2>1. live' = live \ {op}
    BY ZenonT(40), <1>2, <1>8
  <2>2. IOps'
    BY <1>1, <1>2, <1>8, <2>1, LastAnswer
  <2>3. op \in AMOTable <=> Rqst(op).kind \in Loads
    BY ZenonT(40), <1>2, <1>3 DEF IOps, OpKind, Atomic, Loads
  <2>4. marked' = IF Rqst(op).kind \in Loads THEN [marked EXCEPT ![op.rqst] = @ + 1] ELSE marked
    BY <1>1, <1>8, <2>3 DEF handleWriteResp, Mark
  <2>5. IMarks' /\ marked' \in [Ids -> Nat]
    BY ZenonT(40), <1>2, <1>3, <2>1, <2>4, MarkedAtTheEnd
  <2> QED
    BY <1>6, <2>2, <2>5
<1> QED
  BY <1>7, <1>8

\* handleFlushResp keeps the invariant.
LEMMA FlushOps ==
  ASSUME Inv, NEW i \in DOMAIN outstanding, NEW p \in outstanding[i].parts,
         handleFlushResp(i, p)
  PROVE  Inv'
<1> USE DEF Inv
<1>1. PICK op : op = outstanding[i].op
  OBVIOUS
<1>2. /\ op.kind = "FLUSH" /\ Answered(i, p) /\ sent' = sent /\ rqstQ' = rqstQ
      /\ AMOTable' = AMOTable /\ marked' = marked
      /\ live' = IF Last(i, p) THEN live \ {op} ELSE live
      /\ UNCHANGED <<config, num_fence, tickVars, memVars>>
  BY Zenon, <1>1 DEF handleFlushResp, queueVars
<1>3. op \in Ops /\ op \in live
  BY <1>1, EntryFacts
<1>4. outstanding' \in Seq(Entries)
  BY <1>2, AnsweredFacts
<1>5. live' \subseteq Ops
  BY <1>2 DEF Types
<1>6. Types'
  BY Zenon, <1>2, <1>3, <1>4, <1>5 DEF Types, Entries, tickVars, memVars, config
<1>7. ~Atomic(op) /\ op \notin AMOTable /\ Rqst(op).kind \notin Loads
  BY <1>2, <1>3 DEF IOps, OpKind, Atomic, Loads
<1>8. CASE ~Last(i, p)
  <2>1. IOps'
    BY <1>2, <1>8, PartialAnswer
  <2>2. \A n : Done(n)' <=> Done(n)
    BY <1>2, <1>8 DEF Done
  <2>3. IMarks'
    BY <1>2, <2>2, SameMarks
  <2> QED
    BY <1>6, <2>1, <2>3
<1>9. CASE Last(i, p)
  <2>1. live' = live \ {op} /\ AMOTable' = AMOTable \ {op}
    BY <1>2, <1>7, <1>9
  <2>2. IOps'
    BY <1>1, <1>2, <1>9, <2>1, LastAnswer
  <2>3. IMarks'
    BY <1>2, <1>3, <1>7, <2>1, MarkedAtTheEnd
  <2> QED
    BY <1>6, <2>2, <2>3
<1> QED
  BY <1>8, <1>9

\* The actions that end no operation and start none.
LEMMA QuietOps ==
  ASSUME Inv, StartTick \/ EndTick \/ UNCHANGED vars
  PROVE  Inv'
<1> USE DEF Inv
<1>1. /\ UNCHANGED <<config, queueVars, outstanding, AMOTable, live, marked, memVars>>
  BY Zenon DEF StartTick, EndTick, vars
<1>2. sent' = sent /\ rqstQ' = rqstQ
  BY <1>1 DEF queueVars
<1>3. /\ t_max' = t_max \/ t_max' = [k \in Kinds |-> 0]
      /\ t_max_ops' = t_max_ops \/ t_max_ops' = 0
      /\ ticking' \in {ticking, TRUE, FALSE}
      /\ num_fence' = num_fence \/ (num_fence > 0 /\ num_fence' = num_fence - 1)
  BY Zenon DEF StartTick, EndTick, vars, tickVars
<1>4. /\ t_max \in [Kinds -> Nat] /\ t_max_ops \in Nat /\ ticking \in BOOLEAN
      /\ num_fence \in Nat
  BY Zenon DEF Types
<1>5. t_max' \in [Kinds -> Nat] /\ t_max_ops' \in Nat /\ num_fence' \in Nat
  BY ONLY <1>3, <1>4
<1>6. ticking' \in BOOLEAN
  BY ONLY Zenon, <1>3, <1>4
<1>7. Types'
  BY Zenon, <1>1, <1>2, <1>5, <1>6 DEF Types, config, memVars
<1>8. Queued' = Queued /\ InFlight' = InFlight /\ Sent' = Sent
  BY Zenon, <1>1, <1>2 DEF Queued, InFlight, Sent
<1>9. \A q : Rqst(q)' = Rqst(q) /\ (Atomic(q)' <=> Atomic(q))
  BY Zenon, <1>2 DEF Rqst, Atomic
<1>10. IOps'
  BY Zenon, <1>1, <1>2, <1>8, <1>9 DEF IOps, OpKind
<1>11. \A n : Done(n)' <=> Done(n)
  BY Zenon, <1>1 DEF Done
<1>12. IMarks'
  BY Zenon, <1>1, <1>2, <1>11, SameMarks
<1> QED
  BY Zenon, <1>7, <1>10, <1>12

\* A new request is neither done nor marked.
LEMMA SendMarks ==
  ASSUME Types, IOps, IMarks, NEW r \in Requests, Send(r)
  PROVE  IMarks'
<1>1. PICK n : n = Len(sent) + 1
  OBVIOUS
<1>2. PICK op : op = [rqst |-> n, kind |-> OpKind(r)]
  BY ZenonT(40)
<1>3. /\ sent \in Seq(Requests) /\ Len(sent) \in Nat /\ Sent = 1 .. Len(sent)
      /\ Len(sent) < MaxRqsts /\ n \in Ids
  BY <1>1, MaxRqstsAssumption DEF Types, Send, Ids, Sent
<1>4. sent' = Append(sent, r) /\ live' = live \cup {op} /\ marked' = marked
  BY <1>1, <1>2 DEF Send
<1>5. /\ Sent' = Sent \cup {n} /\ n \notin Sent
      /\ \A m \in Sent : sent'[m] = sent[m]
  BY <1>1, <1>3, <1>4 DEF Sent
<1>6. ~Done(n)' /\ \A m \in Sent : Done(m)' <=> Done(m)
  BY <1>2, <1>4, <1>5 DEF Done
<1>7. marked'[n] = 0
  BY <1>3, <1>4, <1>5 DEF IMarks
<1>8. \A m \in Ids \ Sent' : marked'[m] = 0
  BY <1>4, <1>5 DEF IMarks
<1>9. \A m \in Sent' :
        marked'[m] = IF sent'[m].kind \in Loads /\ Done(m)' THEN 1 ELSE 0
  BY ZenonT(40), <1>4, <1>5, <1>6, <1>7 DEF IMarks, LoadsMarkedOnce, Loads
<1> QED
  BY <1>8, <1>9 DEF IMarks, LoadsMarkedOnce, Loads

\* A fence is no load.
LEMMA FenceMarks ==
  ASSUME Types, IOps, IMarks, NEW i \in DOMAIN rqstQ, Fence(i)
  PROVE  IMarks'
<1>1. PICK op : op = rqstQ[i]
  OBVIOUS
<1>2. /\ op.kind = "FENCE" /\ rqstQ' = Erase(rqstQ, i) /\ sent' = sent
      /\ live' = live \ {op} /\ marked' = marked
  BY <1>1 DEF Fence
<1>3. op \in live
  BY <1>1, <1>2, TakenFacts
<1>4. Rqst(op).kind \notin Loads
  BY <1>2, <1>3 DEF IOps, OpKind, Atomic, Loads
<1> QED
  BY <1>2, <1>3, <1>4, MarkedAtTheEnd

\* Every action keeps the invariant.
LEMMA InvInductive == Inv /\ [Next]_vars => Inv'
<1> SUFFICES ASSUME Inv, [Next]_vars PROVE Inv'
  OBVIOUS
<1>1. ASSUME NEW r \in Requests, Send(r) PROVE Inv'
  BY <1>1, SendOps, SendMarks DEF Inv
<1>2. ASSUME NEW i \in DOMAIN rqstQ, Dispatch(i) PROVE Inv'
  <2>1. UNCHANGED <<sent, marked>> /\ live' = live
    BY Zenon, <1>2 DEF Dispatch
  <2>2. \A n : Done(n)' <=> Done(n)
    BY <2>1 DEF Done
  <2>3. IMarks'
    BY <2>1, <2>2, SameMarks DEF Inv
  <2> QED
    BY <1>2, <2>3, DispatchOps DEF Inv
<1>3. ASSUME NEW i \in DOMAIN rqstQ, Fence(i) PROVE Inv'
  BY <1>3, FenceOps, FenceMarks DEF Inv
<1>4. ASSUME NEW i \in DOMAIN outstanding, NEW p \in outstanding[i].parts, Response(i, p)
      PROVE  Inv'
  BY <1>4, ReadOps, WriteOps, FlushOps DEF Response
<1> QED
  BY <1>1, <1>2, <1>3, <1>4, QuietOps DEF Next, Tick, Respond

\* The invariant holds at first.
LEMMA InitInv == Init => Inv
<1> SUFFICES ASSUME Init PROVE IMarks
  BY InitOps DEF Inv
<1>1. Sent = {} /\ \A n \in Ids : marked[n] = 0
  BY DEF Init, Sent
<1> QED
  BY <1>1 DEF IMarks, LoadsMarkedOnce

\* The inductive invariant holds of the controller.
THEOREM InvHolds == Spec => []Inv
BY InitInv, InvInductive, PTL DEF Spec

\* processNextRqst and the handlers of the responses: no RevMemOp in the queue or in
\* flight has been deleted, none is leaked, and the AMOTable holds those of AMOs.
THEOREM OpsCorrect == Spec => []OpsAlive
<1>1. Inv => OpsAlive
  <2> SUFFICES ASSUME Inv PROVE OpsAlive
    OBVIOUS
  <2> USE DEF Inv
  <2>1. Flying = {o.op : o \in InFlight}
    BY DEF Flying, InFlight, Range
  <2>2. \A i \in DOMAIN outstanding : outstanding[i] \in InFlight
    BY DEF InFlight, Range
  <2>3. \A i, j \in DOMAIN outstanding : outstanding[i].op = outstanding[j].op => i = j
    BY <2>2 DEF IOps, IsInjective
  <2> QED
    BY <2>1, <2>2, <2>3 DEF IOps, OpsAlive
<1> QED
  BY <1>1, InvHolds, PTL

\* handleReadResp, handleAMO and handleWriteResp: MarkLoadComplete is called once for
\* a load, when the last response of its last operation has come.
THEOREM LoadsCorrect == Spec => []LoadsMarkedOnce
<1>1. Inv => LoadsMarkedOnce
  BY DEF Inv, IMarks
<1> QED
  BY <1>1, InvHolds, PTL
=============================================================================
