--------------------------- MODULE RevPrefetcher ---------------------------
(***************************************************************************)
(* The instruction stream buffers of a core (src/RevPrefetcher.cc), driven *)
(* by the fetch of RevProc::ClockTick, and the co-processor that RevCPU    *)
(* ticks after the core (src/RevCoProc.cc).                                *)
(*                                                                         *)
(* Addresses count halfwords.  The code does not change while it runs, and *)
(* the halfword at address a is written a, so that a word of memory is     *)
(* <<a, a + 1>>.  A stream has an id for the buffer that the reads of Fill *)
(* point into.  The fetch reads of LSQueue are those in flight: each is    *)
(* inserted when it is sent and erased by MarkLoadComplete when it is      *)
(* answered.  Answers come in any order, as a memory controller gives      *)
(* them; the internal memory answers at once.  Instructions execute with   *)
(* cost one: the hart stays the one to decode until its thread is done     *)
(* (GetNextHartToDecodeID).                                                *)
(*                                                                         *)
(* Data loads share LSQueue and MarkLoadComplete with the fetches, and     *)
(* their answers are matched with OutstandingFetchQ by address alone.  The *)
(* history variable clash is TRUE once a data load, answered while a fetch *)
(* of the same address was under way, has erased the entry of the fetch.   *)
(* A stream can then be deleted with a read under way, whose answer goes   *)
(* to freed memory: what happens next is undefined, and the properties say *)
(* nothing of it.                                                          *)
(***************************************************************************)
EXTENDS Integers, Sequences, FiniteSets, StdContainers

CONSTANTS
  NumHarts,
  depth,        \* words of a stream
  Targets,      \* where threads start and jump to
  MaxInst,      \* instructions of a thread
  CoProcInsts,  \* addresses of the instructions only the co-processor knows
  DataAddrs,    \* what data loads read
  DataRegs,     \* the registers they fill, x0 perhaps among them
  StallCycles,  \* 500: how long the co-processor stalls the hart
  REVPREF_INIT_ADDR

HartIDs == 0 .. NumHarts - 1

Sizes ==
  /\ depth \in Nat \ {0} /\ MaxInst \in Nat /\ StallCycles \in Nat
  /\ Targets \subseteq Nat
ASSUME SizeAssumption == Sizes

VARIABLES
  PC, left,           \* of each hart; left counts the instructions to come
  HartToDecodeID,
  streams,            \* baseAddr and iStack
  OutstandingFetchQ,
  inflight,           \* reads that are not answered: the hart, address and target
  loads,              \* data loads that are not answered; n tells them apart
  clash,
  fetched,            \* address and instruction of the last fetch
  InstQ,              \* of the co-processor
  CoProcStallReq,
  waited              \* cycle - cycleCount, up to the release

fetchVars == <<streams, OutstandingFetchQ, inflight>>
procVars == <<PC, left, HartToDecodeID, fetchVars, loads, clash, fetched, InstQ,
              CoProcStallReq, waited>>

Offs == 0 .. depth - 1
Word(a) == <<a, a + 1>>

FetchTypeOK ==
  /\ PC \in [HartIDs -> Nat]
  /\ left \in [HartIDs -> 0 .. MaxInst]
  /\ HartToDecodeID \in HartIDs
  /\ \A i \in DOMAIN streams :
       /\ streams[i].id \in Nat /\ streams[i].base \in {2 * n : n \in 0 .. streams[i].base}
       /\ \A o \in Offs :
            streams[i].iStack[o] \in {REVPREF_INIT_ADDR, Word(streams[i].base + 2 * o)}
  /\ OutstandingFetchQ \in Seq([Hart : HartIDs, Addr : Nat])
  /\ inflight \subseteq [Hart : HartIDs, Addr : Nat, id : Nat, Off : Offs]
  /\ loads \subseteq [Hart : HartIDs, Addr : DataAddrs, DestReg : DataRegs, n : 1 .. MaxInst]
  /\ InstQ \in Seq(CoProcInsts)
  /\ CoProcStallReq \in [HartIDs -> BOOLEAN]
  /\ waited \in 0 .. StallCycles + 1

FetchInit ==
  /\ PC \in [HartIDs -> Targets]
  /\ left = [h \in HartIDs |-> MaxInst]
  /\ HartToDecodeID = 0
  /\ streams = <<>> /\ OutstandingFetchQ = <<>> /\ inflight = {}
  /\ loads = {} /\ clash = FALSE
  /\ fetched = [at |-> 0, inst |-> Word(0)]
  /\ InstQ = <<>>
  /\ CoProcStallReq = [h \in HartIDs |-> FALSE]
  /\ waited = StallCycles + 1

-----------------------------------------------------------------------------
(* The streams.  A tick may fill and delete several, so these are          *)
(* functions of the state f of the prefetcher.                             *)

Prefetcher == [streams |-> streams, Q |-> OutstandingFetchQ, inflight |-> inflight]

\* The first stream that holds address a, 0 if there is none
Find(f, a) ==
  LET holds == {i \in DOMAIN f.streams :
                  f.streams[i].base <= a /\ a < f.streams[i].base + 2 * depth}
  IN  IF holds = {} THEN 0 ELSE CHOOSE i \in holds : \A j \in holds : i <= j

OffOf(f, i, a) == (a - f.streams[i].base) \div 2
Filled(f, i, a) == f.streams[i].iStack[OffOf(f, i, a)] # REVPREF_INIT_ADDR
At(f, i, a) == f.streams[i].iStack[OffOf(f, i, a)]

\* A buffer that nothing points into
FreshId(f) ==
  LET used == {f.streams[i].id : i \in DOMAIN f.streams} \cup {r.id : r \in f.inflight}
  IN  CHOOSE n \in 0 .. Cardinality(used) : n \notin used

Fill(f, h, a) ==
  LET base == a - (a % 2)
      id   == FreshId(f)
  IN  [streams  |-> Append(f.streams,
                      [id |-> id, base |-> base, iStack |-> [o \in Offs |-> REVPREF_INIT_ADDR]]),
       Q        |-> f.Q \o [k \in 1 .. depth |-> [Hart |-> h, Addr |-> base + 2 * (k - 1)]],
       inflight |-> f.inflight \cup
                      {[Hart |-> h, Addr |-> base + 2 * o, id |-> id, Off |-> o] : o \in Offs}]

DeleteStream(f, i) == [f EXCEPT !.streams = Erase(@, i)]

\* FetchUpper finds the halfword, or has started to fill it, or waits for it.
UpperFetched(f, a) == Find(f, a) # 0 /\ Filled(f, Find(f, a), a)
FetchUpper(f, h, a) == IF Find(f, a) = 0 THEN Fill(f, h, a) ELSE f

Unaligned(a) == a % 2 # 0

\* The fetch sent last is still in LSQueue, under its hart and address.  Fetches are
\* filed there as loads of x0.
LastFetchPending(f) ==
  LET back  == f.Q[Len(f.Q)]
      asX0  == f.inflight \cup {l \in loads : l.DestReg = 0}
  IN  f.Q # <<>> /\ \E r \in asX0 : r.Hart = back.Hart /\ r.Addr = back.Addr

\* Variant: outstanding fetches are not waited for.
IsAvailEarly(f, h, a) ==
  LET i == Find(f, a)
  IN  i # 0 /\ Filled(f, i, a) /\ (Unaligned(a) => UpperFetched(f, a + 1))

IsAvail(f, h, a) ==
  LET i == Find(f, a)
  IN  /\ i # 0 /\ Filled(f, i, a)
      /\ Unaligned(a) => UpperFetched(f, a + 1)
      /\ ~LastFetchPending(f)

\* What IsAvail starts when it returns false
Started(f, h, a) ==
  LET i == Find(f, a)
  IN  CASE i = 0 -> Fill(f, h, a)
        [] i # 0 /\ Filled(f, i, a) /\ Unaligned(a) -> FetchUpper(f, h, a + 1)
        [] OTHER -> f

\* Variant: the upper half comes from the same word.
InstFromOneWord(f, a) == At(f, Find(f, a), a)

\* The instruction InstFetch returns: the word, or its upper half and the lower half
\* of the next
Inst(f, a) ==
  LET word == At(f, Find(f, a), a)
  IN  IF Unaligned(a) THEN <<word[2], At(f, Find(f, a + 1), a + 1)[1]>> ELSE word

\* The last word of a stream: the stream goes, the next one is filled.
InstFetch(f, h, a) ==
  LET i == Find(f, a)
  IN  IF OffOf(f, i, a) = depth - 1 THEN Fill(DeleteStream(f, i), h, a + 1) ELSE f

SetPrefetcher(f) ==
  streams' = f.streams /\ OutstandingFetchQ' = f.Q /\ inflight' = f.inflight

-----------------------------------------------------------------------------
(* The co-processor: q is InstQ after the core's tick.                     *)

IssueInst(a) == IF a \in CoProcInsts THEN Append(InstQ, a) ELSE InstQ

\* Variant: the hart is released only in a tick in which an instruction retires.
CoProcTickNoRelease(q) ==
  /\ InstQ' = IF q # <<>> THEN Tail(q) ELSE q
  /\ waited' = IF q # <<>> THEN 0 ELSE waited
  /\ CoProcStallReq' = [CoProcStallReq EXCEPT ![0] = @ \/ q # <<>>]

\* RevSimpleCoProc::ClockTick: one instruction retires and stalls hart 0, whichever
\* hart issued it; the stall ends when no instruction has retired for StallCycles.
CoProcTick(q) ==
  LET w == CASE q # <<>> -> 0
             [] waited > StallCycles -> waited
             [] OTHER -> waited + 1
  IN  /\ InstQ' = IF q # <<>> THEN Tail(q) ELSE q
      /\ waited' = w
      /\ CoProcStallReq' =
           [CoProcStallReq EXCEPT ![0] = (@ \/ q # <<>>) /\ w <= StallCycles]

-----------------------------------------------------------------------------
(* Ticks and answers.                                                      *)

\* Harts with a thread
Busy == {h \in HartIDs : left[h] > 0}

\* PrefetchInst fails, or the co-processor holds the hart: nothing is decoded.
Stall(h) ==
  /\ ~IsAvail(Prefetcher, h, PC[h]) \/ CoProcStallReq[h]
  /\ SetPrefetcher(IF IsAvail(Prefetcher, h, PC[h])
                     THEN Prefetcher ELSE Started(Prefetcher, h, PC[h]))
  /\ CoProcTick(InstQ)
  /\ UNCHANGED <<PC, left, HartToDecodeID, loads, clash, fetched>>

\* The loads of h that DependencyCheck sees: those of x0 are ignored.
Awaited(h) == {l \in loads : l.Hart = h /\ l.DestReg # 0}

\* The instruction names a register that a load is to fill: it is fetched again.
Depends(h) ==
  /\ PC[h] \notin CoProcInsts /\ Awaited(h) # {}
  /\ UNCHANGED <<PC, left, HartToDecodeID, loads>>

\* The load that the instruction of h sends, if it is one.
SendLoad(h) ==
  \/ UNCHANGED loads
  \/ /\ left[h] > 1 /\ PC[h] \notin CoProcInsts
     /\ \E a \in DataAddrs, d \in DataRegs :
          /\ \A l \in Awaited(h) : l.DestReg # d
          /\ loads' = loads \cup {[Hart |-> h, Addr |-> a, DestReg |-> d, n |-> left[h]]}

\* The instruction executes: it is compressed, or not, or a jump.  A thread ends when
\* no register waits for a load; it leaves its hart, and another hart is the one to
\* decode.
Execute(h) ==
  /\ left[h] = 1 => Awaited(h) = {}
  /\ \E to \in {PC[h] + 1, PC[h] + 2} \cup Targets : PC' = [PC EXCEPT ![h] = to]
  /\ left' = [left EXCEPT ![h] = @ - 1]
  /\ SendLoad(h)
  /\ IF left[h] > 1 \/ Busy = {h}
       THEN UNCHANGED HartToDecodeID
       ELSE HartToDecodeID' \in Busy \ {h}

FetchAndDecodeInst(h) ==
  /\ IsAvail(Prefetcher, h, PC[h]) /\ ~CoProcStallReq[h]
  /\ SetPrefetcher(InstFetch(Prefetcher, h, PC[h]))
  /\ fetched' = [at |-> PC[h], inst |-> Inst(Prefetcher, PC[h])]
  /\ CoProcTick(IssueInst(PC[h]))
  /\ Depends(h) \/ Execute(h)
  /\ UNCHANGED clash

ClockTick ==
  LET h == HartToDecodeID
  IN  h \in Busy /\ (Stall(h) \/ FetchAndDecodeInst(h))

\* Variant: MarkLoadComplete does not tell the prefetcher.
MarkInstructionLoadCompleteNot(a) == OutstandingFetchQ

\* The first entry of OutstandingFetchQ with the address of a load that has
\* completed is erased, whichever hart sent it.
MarkInstructionLoadComplete(a) ==
  LET same == {i \in DOMAIN OutstandingFetchQ : OutstandingFetchQ[i].Addr = a}
  IN  IF same = {} THEN OutstandingFetchQ
      ELSE Erase(OutstandingFetchQ, CHOOSE i \in same : \A j \in same : i <= j)

\* The answer is written where Fill pointed, if the buffer is still there.
MarkFetchComplete(r) ==
  /\ r \in inflight
  /\ inflight' = inflight \ {r}
  /\ streams' = [i \in DOMAIN streams |->
       IF streams[i].id = r.id
         THEN [streams[i] EXCEPT !.iStack[r.Off] = Word(r.Addr)]
         ELSE streams[i]]
  /\ OutstandingFetchQ' = MarkInstructionLoadComplete(r.Addr)
  /\ UNCHANGED <<PC, left, HartToDecodeID, loads, clash, fetched, InstQ, CoProcStallReq,
                 waited>>

\* MarkLoadComplete tells the prefetcher of data loads too.
MarkDataComplete(l) ==
  /\ l \in loads
  /\ loads' = loads \ {l}
  /\ OutstandingFetchQ' = MarkInstructionLoadComplete(l.Addr)
  /\ clash' = (clash \/ OutstandingFetchQ' # OutstandingFetchQ)
  /\ UNCHANGED <<PC, left, HartToDecodeID, streams, inflight, fetched, InstQ,
                 CoProcStallReq, waited>>

FetchNext ==
  \/ ClockTick
  \/ \E r \in inflight : MarkFetchComplete(r)
  \/ \E l \in loads : MarkDataComplete(l)

FetchSpec == FetchInit /\ [][FetchNext]_procVars

\* The clock keeps ticking and the memory system keeps answering.
FairFetchSpec ==
  /\ FetchSpec /\ WF_procVars(ClockTick)
  /\ WF_procVars(\E r \in inflight : MarkFetchComplete(r))
  /\ WF_procVars(\E l \in loads : MarkDataComplete(l))

-----------------------------------------------------------------------------
(* Properties, of programs whose data loads never met a fetch of the same  *)
(* address.                                                                *)

\* An answer finds the buffer it is for: no stream is deleted while one of its words
\* is outstanding.
NoDangling ==
  ~clash => \A r \in inflight : \E i \in DOMAIN streams : streams[i].id = r.id

\* The instruction handed to the decoder is the one at the PC, in both halves, at
\* the end of a stream as anywhere, and whatever order the words arrive in.
FetchExact == ~clash => fetched.inst = Word(fetched.at)

\* OutstandingFetchQ has one entry for each fetch of LSQueue, so that IsAvail, which
\* looks at the last entry only, waits for all of them.
QueueExact ==
  ~clash =>
    /\ FetchTypeOK
    /\ \A h \in HartIDs, a \in {r.Addr : r \in inflight} :
         Cardinality({r \in inflight : r.Hart = h /\ r.Addr = a})
           = Cardinality({i \in DOMAIN OutstandingFetchQ :
                            OutstandingFetchQ[i] = [Hart |-> h, Addr |-> a]})

\* Every thread gets its next instruction in the end, past stream ends, unaligned
\* words, answers out of order, instructions that wait for a load, and the stalls of
\* the co-processor.
ThreadsFetch == <>(Busy = {} \/ clash)

=============================================================================
