----------------------------- MODULE RevMemCtrl -----------------------------
(***************************************************************************)
(* The memory controller RevBasicMemCtrl (src/RevMemCtrl.cc): the queue of *)
(* requests the harts send, their dispatch to the memory system by         *)
(* clockTick, at most max_ops per cycle and split into cache lines, the    *)
(* fence, the read-modify-write of an AMO, and the handlers of the         *)
(* responses.                                                              *)
(*                                                                         *)
(* A RevMemOp is a record of the request it serves (its place in "sent")   *)
(* and its kind; the READ of an AMO is followed by a WRITE for the same    *)
(* request.  Data is abstracted to versions: a line of memory holds the    *)
(* number of the request that wrote it last.  The memory system itself is  *)
(* external: it answers every StandardMem request, in any order but for    *)
(* requests to the same line, which it serves in the order they were sent. *)
(* WRITEUNLOCK, LOADLINK, STORECOND and CUSTOM operations and the flag     *)
(* F_NONCACHEABLE have no user in RevMem and are left out.                 *)
(***************************************************************************)
EXTENDS Integers, Sequences, FiniteSets, Functions, StdContainers

CONSTANTS
  Lines,      \* the cache lines of memory, a set of integers
  Requests,   \* the requests that harts may send
  MaxRqsts,   \* bound on the number of requests sent
  Limits,     \* the settings of max_loads, max_stores, max_flush, max_readlock
  max_ops     \* ops_per_cycle

\* The MemOps that reach the memory system.  An AMO is a READ and a WRITE; a
\* FENCE is handled here.
Kinds == {"READ", "WRITE", "FLUSH", "READLOCK"}
RqstKinds == Kinds \cup {"AMO", "FENCE"}

ASSUME LinesAssumption == IsFiniteSet(Lines)
ASSUME MaxRqstsAssumption == MaxRqsts \in Nat
ASSUME LimitAssumption ==
  Limits \subseteq [Kinds -> Nat \ {0}] /\ max_ops \in Nat \ {0}
\* An AMO is aligned, so that it lies in one line.
ASSUME RequestAssumption ==
  \A r \in Requests :
    /\ r.kind \in RqstKinds
    /\ r.at \subseteq Lines
    /\ r.kind # "FENCE" => r.at # {}
    /\ r.kind = "AMO" => \E l \in Lines : r.at = {l}
    /\ r.aq \in BOOLEAN /\ r.rl \in BOOLEAN

Ids == 1 .. MaxRqsts
Ops == [rqst : Ids, kind : Kinds \cup {"FENCE"}]
Versions == 0 .. MaxRqsts

VARIABLES
  hasCache,   \* a cache was detected: requests are split into lines
  max,        \* max_loads, max_stores, max_flush, max_readlock, by kind
  sent,       \* the requests, in the order the harts sent them
  rqstQ,      \* RevMemOps that wait for dispatch
  outstanding,  \* RevMemOps in flight, and the parts not answered of each
  AMOTable,   \* RevMemOps that are part of an AMO
  live,       \* RevMemOps that are allocated
  num,        \* num_read, num_write, num_flush, num_readlock
  num_fence,  \* fences that wait for the requests in flight
  ticking,    \* clockTick is in its loop
  t_max,      \* operations dispatched in this cycle, by kind
  t_max_ops,  \* and in total
  marked,     \* how often MarkLoadComplete was called for a request
  mem,        \* memory: the last writer of each line
  seen        \* the versions a request has read

config == <<hasCache, max>>
queueVars == <<sent, rqstQ>>
tickVars == <<ticking, t_max, t_max_ops>>
memVars == <<mem, seen>>
vars == <<config, queueVars, outstanding, AMOTable, live, num, num_fence,
          tickVars, marked, memVars>>

\* Every variable holds a value of the type its C++ declaration gives it.
TypeOK ==
  /\ hasCache \in BOOLEAN /\ max \in Limits
  /\ sent \in Seq(Requests) /\ Len(sent) <= MaxRqsts
  /\ rqstQ \in Seq(Ops)
  /\ outstanding \in Seq([op : Ops, parts : SUBSET SUBSET Lines])
  /\ AMOTable \subseteq Ops
  /\ live \subseteq Ops
  /\ num \in [Kinds -> Int]
  /\ num_fence \in Nat
  /\ ticking \in BOOLEAN
  /\ t_max \in [Kinds -> Nat]
  /\ t_max_ops \in Nat
  /\ marked \in [Ids -> Nat]
  /\ mem \in [Lines -> Versions]
  /\ seen \in [Ids -> [Lines -> Versions]]

Init ==
  /\ hasCache \in BOOLEAN /\ max \in Limits
  /\ sent = <<>>
  /\ rqstQ = <<>>
  /\ outstanding = <<>>
  /\ AMOTable = {}
  /\ live = {}
  /\ num = [k \in Kinds |-> 0]
  /\ num_fence = 0
  /\ ticking = FALSE
  /\ t_max = [k \in Kinds |-> 0]
  /\ t_max_ops = 0
  /\ marked = [n \in Ids |-> 0]
  /\ mem = [l \in Lines |-> 0]
  /\ seen = [n \in Ids |-> [l \in Lines |-> 0]]

-----------------------------------------------------------------------------
(* The requests of the harts: sendREADRequest and its siblings.            *)

Rqst(op) == sent[op.rqst]
Atomic(op) == Rqst(op).kind = "AMO"

\* An AMO starts with its READ.
OpKind(r) == IF r.kind = "AMO" THEN "READ" ELSE r.kind

Send(r) ==
  /\ ~ticking
  /\ Len(sent) < MaxRqsts
  /\ LET op == [rqst |-> Len(sent) + 1, kind |-> OpKind(r)]
     IN  /\ sent' = Append(sent, r)
         /\ rqstQ' = Append(rqstQ, op)
         /\ live' = live \cup {op}
         /\ AMOTable' = IF r.kind = "AMO" THEN AMOTable \cup {op} ELSE AMOTable
  /\ UNCHANGED <<config, outstanding, num, num_fence, tickVars, marked, memVars>>

-----------------------------------------------------------------------------
(* clockTick: the fence, then processNextRqst until max_ops is reached.    *)

\* getTotalRqsts: flushes are not counted.
TotalRqsts == num["READ"] + num["WRITE"] + num["READLOCK"]

\* Variant: the requests in flight are not waited for.
StartTickAnyway ==
  /\ ~ticking
  /\ num_fence' = IF num_fence > 0 THEN num_fence - 1 ELSE num_fence
  /\ ticking' = TRUE
  /\ t_max' = [k \in Kinds |-> 0]
  /\ t_max_ops' = 0
  /\ UNCHANGED <<config, queueVars, outstanding, AMOTable, live, num, marked,
                 memVars>>

StartTick ==
  /\ ~ticking
  /\ num_fence > 0 => TotalRqsts = 0
  /\ num_fence' = IF num_fence > 0 THEN num_fence - 1 ELSE num_fence
  /\ ticking' = TRUE
  /\ t_max' = [k \in Kinds |-> 0]
  /\ t_max_ops' = 0
  /\ UNCHANGED <<config, queueVars, outstanding, AMOTable, live, num, marked,
                 memVars>>

\* isMemOpAvail
isMemOpAvail(op) == op.kind \in Kinds => t_max[op.kind] < max[op.kind]

\* Variant: any available operation that is not behind a fence is a candidate.
AnyCandidate(i) ==
  /\ ticking
  /\ i \in DOMAIN rqstQ /\ isMemOpAvail(rqstQ[i])
  /\ \A j \in 1 .. i - 1 : rqstQ[j].kind # "FENCE"

\* The candidate of processNextRqst is the first one available.
Candidate(i) ==
  /\ ticking
  /\ i \in DOMAIN rqstQ /\ isMemOpAvail(rqstQ[i])
  /\ \A j \in 1 .. i - 1 : ~isMemOpAvail(rqstQ[j])

\* isAQ, isRL: an AMO of the same hart waits in front with the AQ flag set, or
\* the candidate is an AMO with the RL flag and the hart has a request in front.
SameHart(i, j) == Rqst(rqstQ[i]).hart = Rqst(rqstQ[j]).hart

isAQ(i) ==
  /\ AMOTable # {}
  /\ \E j \in 1 .. i - 1 :
       Atomic(rqstQ[j]) /\ Rqst(rqstQ[j]).aq /\ SameHart(i, j)

\* Variant: the search does not stop in front of the candidate.
isRLOfItself(i) ==
  /\ AMOTable # {}
  /\ Atomic(rqstQ[i]) /\ Rqst(rqstQ[i]).rl
  /\ \E j \in 1 .. i : SameHart(i, j)

isRL(i) ==
  /\ AMOTable # {}
  /\ Atomic(rqstQ[i]) /\ Rqst(rqstQ[i]).rl
  /\ \E j \in 1 .. i - 1 : SameHart(i, j)

isPendingAMO(i) == isAQ(i) \/ isRL(i)

\* The StandardMem requests of an operation: one per line, or a single one.
Parts(op) ==
  IF hasCache THEN {{l} : l \in Rqst(op).at} ELSE {Rqst(op).at}

\* buildCacheMemRqst asks for enough slots; buildRawMemRqst does not.  (The
\* difference is unsigned in the code; num <= max when there is a cache.)
HasSlots(op) ==
  hasCache => max[op.kind] - num[op.kind] >= Cardinality(Parts(op))

\* Variant: a split operation is counted once.
DispatchCountedOnce(i) ==
  LET op == rqstQ[i]
  IN  /\ Candidate(i)
      /\ op.kind # "FENCE" /\ ~isPendingAMO(i) /\ HasSlots(op)
      /\ outstanding' = Append(outstanding, [op |-> op, parts |-> Parts(op)])
      /\ rqstQ' = Erase(rqstQ, i)
      /\ num' = [num EXCEPT ![op.kind] = @ + 1]
      /\ t_max' = [t_max EXCEPT ![op.kind] = @ + 1]
      /\ t_max_ops' = t_max_ops + 1
      /\ ticking' = (t_max_ops + 1 # max_ops)
      /\ UNCHANGED <<config, sent, AMOTable, live, num_fence, marked, memVars>>

\* The candidate is sent to the memory system.
Dispatch(i) ==
  LET op == rqstQ[i]
  IN  /\ Candidate(i)
      /\ op.kind # "FENCE" /\ ~isPendingAMO(i) /\ HasSlots(op)
      /\ outstanding' = Append(outstanding, [op |-> op, parts |-> Parts(op)])
      /\ rqstQ' = Erase(rqstQ, i)
      /\ num' = [num EXCEPT ![op.kind] = @ + Cardinality(Parts(op))]
      /\ t_max' = [t_max EXCEPT ![op.kind] = @ + 1]
      /\ t_max_ops' = t_max_ops + 1
      /\ ticking' = (t_max_ops + 1 # max_ops)
      /\ UNCHANGED <<config, sent, AMOTable, live, num_fence, marked, memVars>>

\* The candidate is a fence: the cycle ends.
Fence(i) ==
  LET op == rqstQ[i]
  IN  /\ Candidate(i)
      /\ op.kind = "FENCE"
      /\ rqstQ' = Erase(rqstQ, i)
      /\ live' = live \ {op}
      /\ num_fence' = num_fence + 1
      /\ ticking' = FALSE
      /\ UNCHANGED <<config, sent, outstanding, AMOTable, num, t_max, t_max_ops,
                     marked, memVars>>

\* No candidate, or one that has to wait: the cycle ends.
EndTick ==
  /\ ticking
  /\ \A i \in DOMAIN rqstQ : Candidate(i) =>
       rqstQ[i].kind # "FENCE" /\ (isPendingAMO(i) \/ ~HasSlots(rqstQ[i]))
  /\ ticking' = FALSE
  /\ UNCHANGED <<config, queueVars, outstanding, AMOTable, live, num, num_fence,
                 t_max, t_max_ops, marked, memVars>>

-----------------------------------------------------------------------------
(* The handlers of the responses.  One action per handler; the response is *)
(* the one for part p of the i-th operation in flight.                     *)

\* The memory system serves requests to a line in the order they were sent.
Served(i, p) ==
  /\ ~ticking
  /\ i \in DOMAIN outstanding /\ p \in outstanding[i].parts
  /\ \A j \in 1 .. i - 1 : \A q \in outstanding[j].parts : p \cap q = {}

\* The entry of the response is erased from "requests" and "outstanding".
Answered(i, p) ==
  LET parts == outstanding[i].parts \ {p}
  IN  outstanding' = IF parts = {} THEN Erase(outstanding, i)
                                  ELSE [outstanding EXCEPT ![i].parts = parts]

\* Variant: every response is taken for the last one.
EveryOne(i, p) == TRUE

\* getNumSplitRqsts(op) == 1: no other part is outstanding.
Last(i, p) == outstanding[i].parts = {p}

\* MarkLoadComplete
Mark(n) == marked' = [marked EXCEPT ![n] = @ + 1]

\* Variant: the answer to the READ completes the load.
handleAMOMarking(op) ==
  LET write == [op EXCEPT !.kind = "WRITE"]
  IN  /\ AMOTable' = (AMOTable \ {op}) \cup {write}
      /\ rqstQ' = Append(rqstQ, write)
      /\ live' = (live \ {op}) \cup {write}
      /\ Mark(op.rqst)

\* performAMO and handleAMO: the WRITE of the AMO is queued.
handleAMO(op) ==
  LET write == [op EXCEPT !.kind = "WRITE"]
  IN  /\ AMOTable' = (AMOTable \ {op}) \cup {write}
      /\ rqstQ' = Append(rqstQ, write)
      /\ live' = (live \ {op}) \cup {write}
      /\ UNCHANGED marked

handleReadResp(i, p) ==
  LET op == outstanding[i].op
  IN  /\ Served(i, p) /\ op.kind \in {"READ", "READLOCK"}
      /\ Answered(i, p)
      /\ seen' = [seen EXCEPT ![op.rqst] =
                    [l \in Lines |-> IF l \in p THEN mem[l] ELSE @[l]]]
      /\ CASE ~Last(i, p) -> UNCHANGED <<AMOTable, rqstQ, live, marked>>
           [] Last(i, p) /\ op \in AMOTable -> handleAMO(op)
           [] Last(i, p) /\ op \notin AMOTable ->
                /\ Mark(op.rqst)
                /\ live' = live \ {op}
                /\ UNCHANGED <<AMOTable, rqstQ>>
      /\ num' = [num EXCEPT !["READ"] = @ - 1]
      /\ UNCHANGED <<config, sent, num_fence, tickVars, mem>>

handleWriteResp(i, p) ==
  LET op == outstanding[i].op
  IN  /\ Served(i, p) /\ op.kind = "WRITE"
      /\ Answered(i, p)
      /\ mem' = [l \in Lines |-> IF l \in p THEN op.rqst ELSE mem[l]]
      /\ AMOTable' = AMOTable \ {op}
      /\ IF Last(i, p) /\ op \in AMOTable THEN Mark(op.rqst)
                                          ELSE UNCHANGED marked
      /\ live' = IF Last(i, p) THEN live \ {op} ELSE live
      /\ num' = [num EXCEPT !["WRITE"] = @ - 1]
      /\ UNCHANGED <<config, queueVars, num_fence, tickVars, seen>>

handleFlushResp(i, p) ==
  LET op == outstanding[i].op
  IN  /\ Served(i, p) /\ op.kind = "FLUSH"
      /\ Answered(i, p)
      /\ live' = IF Last(i, p) THEN live \ {op} ELSE live
      /\ num' = [num EXCEPT !["FLUSH"] = @ - 1]
      /\ UNCHANGED <<config, queueVars, AMOTable, num_fence, tickVars, marked,
                     memVars>>

-----------------------------------------------------------------------------
Tick ==
  \/ StartTick
  \/ \E i \in DOMAIN rqstQ : Dispatch(i) \/ Fence(i)
  \/ EndTick

Response(i, p) ==
  handleReadResp(i, p) \/ handleWriteResp(i, p) \/ handleFlushResp(i, p)

Respond == \E i \in DOMAIN outstanding : \E p \in outstanding[i].parts : Response(i, p)

Next == (\E r \in Requests : Send(r)) \/ Tick \/ Respond

Spec == Init /\ [][Next]_vars

\* The clock keeps ticking and the memory system answers.  An answer can only
\* be delivered between ticks, hence strong fairness.
FairSpec == Spec /\ WF_vars(Tick) /\ SF_vars(Respond)

-----------------------------------------------------------------------------
(* Properties.                                                             *)

Queued == Range(rqstQ)
Flying == {outstanding[i].op : i \in DOMAIN outstanding}
Sent == DOMAIN sent

\* Request n has been taken from the queue; all is done for it.
Started(n) == [rqst |-> n, kind |-> OpKind(sent[n])] \notin Queued
Done(n) == \A op \in live : op.rqst # n

\* A RevMemOp is deleted exactly when the last response for it has come: none in
\* the queue or in "outstanding" has been deleted, none is there twice, and none
\* is leaked.  The AMOTable, by which a response is recognised as that of an AMO,
\* holds the operations of AMOs and no others.
OpsAlive ==
  /\ live = Queued \cup Flying
  /\ Queued \cap Flying = {}
  /\ IsInjective(rqstQ)
  /\ \A i, j \in DOMAIN outstanding :
       outstanding[i].op = outstanding[j].op => i = j
  /\ \A i \in DOMAIN outstanding : outstanding[i].parts # {}
  /\ AMOTable = {op \in live : Atomic(op)}

\* MarkLoadComplete, which clears the scoreboard bit of the destination register,
\* is called exactly once for a load: by the last response of the last operation
\* that serves it (for an AMO, the WRITE).
LoadsMarkedOnce ==
  \A n \in Sent :
    marked[n] = IF sent[n].kind \in {"READ", "READLOCK", "AMO"} /\ Done(n)
                  THEN 1 ELSE 0

\* The parts in flight of the operations of a kind
PartsInFlight(k) ==
  UNION {{<<o.op, p>> : p \in o.parts} : o \in {q \in Range(outstanding) : q.op.kind = k}}

\* The counters that the fence and buildCacheMemRqst rely on are exact
\* (include/RevMemCtrl.h: "number of outstanding read requests", ...), and keep the
\* requests in flight within max_loads and its siblings ("Sets the maximum number of
\* outstanding loads").  Without a cache buildRawMemRqst does not look at those.
CountersExact ==
  \A k \in Kinds :
    /\ num[k] = Cardinality(PartsInFlight(k))
    /\ hasCache => num[k] <= max[k]

\* No load or store is passed over for a later one when their limits are not
\* below ops_per_cycle (the defaults are 64 and 2).
InOrder == \A k \in {"READ", "WRITE"} : max_ops <= max[k]

\* A request sent after a fence is dispatched only when the loads and stores sent
\* before the fence have been answered, unless clockTick may pass over them.
FenceOrders ==
  InOrder => \A m, f, n \in Sent :
    /\ m < f /\ f < n
    /\ sent[m].kind \in {"READ", "WRITE"}
    /\ sent[f].kind = "FENCE"
    /\ Started(n)
    => Done(m)

\* A load returns, for every line, the last store to it sent before the load, when
\* no AMO on the line was sent before the load and clockTick passes over none.
ReadsLatest ==
  InOrder => \A n \in Sent : sent[n].kind = "READ" /\ Done(n) =>
    \A l \in sent[n].at :
      LET before(k) == {m \in 1 .. n - 1 : sent[m].kind = k /\ l \in sent[m].at}
      IN  before("AMO") = {} =>
            \/ seen[n][l] = 0 /\ before("WRITE") = {}
            \/ /\ seen[n][l] \in before("WRITE")
               /\ \A m \in before("WRITE") : m <= seen[n][l]

\* buildCacheMemRqst can find the slots for r
Fits(r) == hasCache => Cardinality(r.at) <= max[OpKind(r)]

\* Every request is served, unless one was sent that has more lines than there
\* are slots.
RequestsServed ==
  \A n \in Ids :
    n \in Sent ~> Done(n) \/ \E m \in Sent : sent[m].kind # "FENCE" /\ ~Fits(sent[m])

=============================================================================
