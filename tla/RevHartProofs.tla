--------------------------- MODULE RevHartProofs ---------------------------
(***************************************************************************)
(* What a program relies on from the harts: its locks, its futures and the *)
(* instructions they fetch.                                                *)
(*                                                                         *)
(* Load-reserved and store-conditional give mutual exclusion, for any      *)
(* number of harts and any numbering of them.  The inductive invariant     *)
(* ties the reservation to the program: a hart about to execute its SC, or *)
(* with a zero on its way, holds the only reservation of the lock, and the *)
(* lock is free; a hart past its SC finds the lock taken.                  *)
(*                                                                         *)
(* A store ends the future at the address it starts at because FutureRes   *)
(* is sorted and has no address twice.                                     *)
(*                                                                         *)
(* A core with one hart fetches the instruction at the PC because the      *)
(* words of a stream are those at their addresses, the reads under way are *)
(* for the words they will fill, and they can be paired off with the       *)
(* entries of OutstandingFetchQ, as long as no data load has erased one.   *)
(***************************************************************************)
EXTENDS LRSCLock, RevPrefetcher, StdContainersProofs

\* The provers a leaf that names none is given to, in this order.
USE SMTT(10), ZenonT(10), SMTT(60), Z3T(60)

Entry == [Hart : Nat, Addr : Addrs, Target : Harts]

\* TypeOK but for FutureRes, which plays no part
Types ==
  /\ mem \in [Addrs -> Values]
  /\ LRSC \in Seq(Entry)
  /\ rd \in [Harts -> Values]
  /\ LSQueue \subseteq Harts
  /\ reads \subseteq Harts \X Addrs \X (Values \cup {NoValue})
  /\ pc \in [Harts -> {"LR", "BNEZ_LR", "SC", "BNEZ_SC", "CS"}]

\* OneReservation, on the elements of LRSC
OneEntry ==
  /\ IsInjective(LRSC)
  /\ \A e, f \in Range(LRSC) : e.Addr = f.Addr => e = f

Holds(h) == \E e \in Range(LRSC) : e.Addr = Lock /\ e.Target = h

\* The SC of h comes next, or will when the branch has looked at rd.
ToStore(h) ==
  \/ pc[h] = "SC"
  \/ pc[h] = "BNEZ_LR" /\ h \notin LSQueue /\ rd[h] = 0

\* The SC of h has stored.
HasStored(h) ==
  \/ pc[h] = "CS"
  \/ pc[h] = "BNEZ_SC" /\ rd[h] = 0

Waiting == \A h \in LSQueue : pc[h] = "BNEZ_LR"
Refused == \A h \in LSQueue : rd[h] = 1 \/ \E r \in reads : r[1] = h
Loads ==
  \A r \in reads : /\ r[2] = Lock /\ r[1] \in LSQueue /\ Holds(r[1])
                   /\ r[3] = 0 => mem[Lock] = 0
\* A hart has one load under way.
OneLoad == \A r, s \in reads : r[1] = s[1] => r = s
Storing == \A h \in Harts : ToStore(h) => Holds(h) /\ mem[Lock] = 0
Taken == \A h \in Harts : HasStored(h) => mem[Lock] = 1
Alone == \A g, h \in Harts : HasStored(g) /\ HasStored(h) => g = h

IInv == Types /\ OneEntry /\ Waiting /\ Refused /\ Loads /\ OneLoad
        /\ Storing /\ Taken /\ Alone

\* At most one hart holds the reservation of the lock.
LEMMA OneHolder ==
  ASSUME Types, OneEntry, NEW g \in Harts, NEW h \in Harts, Holds(g), Holds(h)
  PROVE  g = h
BY DEF OneEntry, Holds

\* One entry for each address, by position
LEMMA OneEntryGives == ASSUME Types, OneEntry PROVE OneReservation
<1> SUFFICES ASSUME NEW i \in DOMAIN LRSC, NEW j \in DOMAIN LRSC,
                    LRSC[i].Addr = LRSC[j].Addr
             PROVE  i = j
  BY DEF OneReservation
<1>1. LRSC[i] \in Range(LRSC) /\ LRSC[j] \in Range(LRSC)
  BY DEF Range
<1>2. LRSC[i] = LRSC[j]
  BY <1>1 DEF OneEntry
<1> QED BY <1>2 DEF OneEntry, IsInjective

\* Nothing is reserved at first, and every hart starts with its LR.
LEMMA InitIInv == ASSUME Init PROVE IInv
<1> USE DEF Init, MemInit
<1>1. Types
  BY WordAssumption DEF Types
<1>2. OneEntry
  BY DEF OneEntry, Range, IsInjective
<1>3. Waiting /\ Refused /\ Loads /\ OneLoad
  BY DEF Waiting, Refused, Loads, OneLoad
<1>4. Storing /\ Taken /\ Alone
  BY DEF Storing, Taken, Alone, ToStore, HasStored
<1> QED BY <1>1, <1>2, <1>3, <1>4 DEF IInv

\* A load-reserved that finds the address free: the new entry is the only one, and
\* the hart waits.
LEMMA LRStep ==
  ASSUME IInv, NEW h \in Harts, Ready(h, "LR"), LRBase(h, Lock), GoTo(h, "BNEZ_LR")
  PROVE  IInv'
<1> DEFINE e == [Hart |-> HartID[h], Addr |-> Lock, Target |-> h]
<1> USE DEF IInv, Ready, GoTo
<1>0. /\ LRSC' = Append(LRSC, e) /\ LSQueue' = LSQueue \cup {h}
      /\ reads' = reads \cup {<<h, Lock, NoValue>>}
      /\ mem' = mem /\ rd' = rd /\ pc' = [pc EXCEPT ![h] = "BNEZ_LR"]
      /\ \A f \in Range(LRSC) : f.Addr # Lock
  BY DEF LRBase, Reserved, Range
<1>1. e \in Entry
  BY HartIDAssumption, LockAssumption DEF Entry
<1> HIDE DEF e
<1>2. /\ LRSC' \in Seq(Entry)
      /\ Range(LRSC') = Range(LRSC) \cup {e}
      /\ IsInjective(LRSC) /\ e \notin Range(LRSC) => IsInjective(LRSC')
  BY <1>0, <1>1, AppendFacts DEF Types
<1>3. e.Addr = Lock /\ e.Target = h
  BY DEF e
<1>4. Types'
  BY <1>0, <1>2, LockAssumption DEF Types
<1>5. OneEntry'
  BY <1>0, <1>2, <1>3 DEF OneEntry
<1>6. \A g \in Harts : Holds(g) => Holds(g)'
  BY <1>2 DEF Holds
<1>6a. Holds(h)'
  BY <1>2, <1>3 DEF Holds
<1>7. \A g \in Harts : ~Holds(g)
  BY <1>0 DEF Holds
<1>8. Waiting' /\ Refused'
  <2>1. Waiting'
    BY <1>0 DEF Waiting, Types
  <2>2. \A r \in reads : r \in reads'
    BY <1>0
  <2>3. <<h, Lock, NoValue>> \in reads' /\ <<h, Lock, NoValue>>[1] = h
    BY <1>0
  <2>4. Refused'
    BY ZenonT(40), <1>0, <2>2, <2>3 DEF Refused
  <2> QED BY <2>1, <2>4
<1>9. reads = {}
  BY <1>7 DEF Loads, Types
<1>10. Loads' /\ OneLoad'
  BY <1>0, <1>6a, <1>9, WordAssumption DEF Loads, OneLoad
<1>11. \A g \in Harts : ~ToStore(g)'
  <2>1. SUFFICES ASSUME NEW g \in Harts, ToStore(g)' PROVE FALSE
    OBVIOUS
  <2>2. g # h
    BY <1>0, <2>1 DEF ToStore, Types
  <2>3. ToStore(g)
    BY <1>0, <2>1, <2>2 DEF ToStore, Types
  <2> QED BY <1>7, <2>3 DEF Storing
<1>12. \A g \in Harts : HasStored(g)' => HasStored(g)
  BY <1>0 DEF HasStored, Types
<1>13. Storing' /\ Taken' /\ Alone'
  BY <1>0, <1>11, <1>12 DEF Storing, Taken, Alone
<1> QED BY <1>4, <1>5, <1>8, <1>10, <1>13

\* What steps that leave LRSC alone keep
LEMMA SameEntries ==
  ASSUME OneEntry, LRSC' = LRSC
  PROVE  OneEntry' /\ \A h \in Harts : Holds(h)' = Holds(h)
BY DEF OneEntry, Holds

\* A refused load-reserved: the hart waits, with a one in its register.
LEMMA LRFailsStep ==
  ASSUME IInv, NEW h \in Harts, Ready(h, "LR"), LRBaseFails(h, Lock), GoTo(h, "BNEZ_LR")
  PROVE  IInv'
<1> USE DEF IInv, Ready, GoTo
<1>0. /\ LRSC' = LRSC /\ LSQueue' = LSQueue \cup {h} /\ reads' = reads
      /\ mem' = mem /\ rd' = [rd EXCEPT ![h] = 1] /\ pc' = [pc EXCEPT ![h] = "BNEZ_LR"]
  BY DEF LRBaseFails
<1>1. Types'
  BY <1>0, WordAssumption DEF Types
<1>2. OneEntry' /\ \A g \in Harts : Holds(g)' = Holds(g)
  BY <1>0, SameEntries
<1>3. Waiting' /\ Refused'
  BY <1>0 DEF Waiting, Refused, Types
<1>4. Loads' /\ OneLoad'
  <2>1. \A r \in reads : r[1] \in Harts
    BY DEF Types
  <2> QED BY <1>0, <1>2, <2>1 DEF Loads, OneLoad
<1>5. \A g \in Harts : ToStore(g)' => ToStore(g)
  BY <1>0 DEF ToStore, Types
<1>6. \A g \in Harts : HasStored(g)' => HasStored(g)
  BY <1>0 DEF HasStored, Types
<1>7. Storing' /\ Taken' /\ Alone'
  BY <1>0, <1>2, <1>5, <1>6 DEF Storing, Taken, Alone
<1> QED BY <1>1, <1>2, <1>3, <1>4, <1>7

\* The branches only look at rd.
LEMMA BranchStep ==
  ASSUME IInv, NEW h \in Harts, BnezLR(h) \/ BnezSC(h)
  PROVE  IInv'
<1> USE DEF IInv, Ready, GoTo
<1>0. /\ LRSC' = LRSC /\ LSQueue' = LSQueue /\ reads' = reads
      /\ mem' = mem /\ rd' = rd /\ h \notin LSQueue
      /\ \/ /\ pc[h] = "BNEZ_LR"
            /\ pc' = [pc EXCEPT ![h] = IF rd[h] # 0 THEN "LR" ELSE "SC"]
         \/ /\ pc[h] = "BNEZ_SC"
            /\ pc' = [pc EXCEPT ![h] = IF rd[h] # 0 THEN "LR" ELSE "CS"]
  BY DEF BnezLR, BnezSC, memVars
<1>1. Types'
  BY <1>0 DEF Types
<1>2. OneEntry' /\ \A g \in Harts : Holds(g)' = Holds(g)
  BY <1>0, SameEntries
<1>3. Waiting' /\ Refused'
  BY <1>0 DEF Waiting, Refused, Types
<1>4. Loads' /\ OneLoad'
  <2>1. \A r \in reads : r[1] \in Harts
    BY DEF Types
  <2> QED BY <1>0, <1>2, <2>1 DEF Loads, OneLoad
<1>5. \A g \in Harts : ToStore(g)' => ToStore(g)
  BY <1>0 DEF ToStore, Types
<1>6. \A g \in Harts : HasStored(g)' => HasStored(g)
  BY <1>0 DEF HasStored, Types
<1>7. Storing' /\ Taken' /\ Alone'
  BY <1>0, <1>2, <1>5, <1>6 DEF Storing, Taken, Alone
<1> QED BY <1>1, <1>2, <1>3, <1>4, <1>7

\* A store leaves the words it does not cover.
LEMMA StoreFacts ==
  ASSUME Types, NEW a \in Addrs, NEW n \in Lens, NEW d \in Data(n), WriteMem(a, n, d)
  PROVE  /\ mem' \in [Addrs -> Values]
         /\ \A x \in Addrs : x \notin Covers(a, n) => mem'[x] = mem[x]
<1>1. a \in Nat /\ n \in Nat /\ Addrs \subseteq Nat
  BY AddrAssumption, LenAssumption
<1>2. \A x \in Addrs : x \in Covers(a, n) => x - a \in 0 .. n - 1
  BY <1>1 DEF Covers
<1>3. \A x \in Addrs : x \in Covers(a, n) => d[x - a] \in Values
  BY Zenon, <1>2 DEF Data
<1> QED BY Zenon, <1>3 DEF WriteMem, Types

\* A store of one word, to the lock.
LEMMA WordFacts ==
  ASSUME Types, NEW v \in Values, WriteMem(Lock, 1, OneWord(v))
  PROVE  mem' \in [Addrs -> Values] /\ mem'[Lock] = v /\ OneWord(v) \in Data(1)
<1>1. OneWord(v) \in Data(1)
  <2>1. 0 .. 1 - 1 = {0}
    OBVIOUS
  <2> QED BY Zenon, <2>1 DEF OneWord, Data
<1>2. Lock \in Covers(Lock, 1) /\ Lock - Lock = 0
  BY LockAssumption, AddrAssumption DEF Covers
<1>3. OneWord(v)[0] = v
  BY Zenon DEF OneWord
<1>4. mem'[Lock] = v
  BY Zenon, <1>2, <1>3, LockAssumption DEF WriteMem
<1> QED BY Zenon, <1>1, <1>4, StoreFacts, LockAssumption, LenAssumption

\* A store-conditional that stores: the entry it erases is the hart's own, so that
\* no other hart can be about to store.
LEMMA SCStep ==
  ASSUME IInv, NEW h \in Harts, Ready(h, "SC"), SCBase(h, Lock, 1), GoTo(h, "BNEZ_SC")
  PROVE  IInv'
<1> USE DEF IInv, Ready, GoTo
<1>1. PICK i \in Matches(h, Lock) :
        /\ WriteMem(Lock, 1, OneWord(1))
        /\ rd' = [rd EXCEPT ![h] = 0]
        /\ LRSC' = Erase(LRSC, i)
        /\ LSQueue' = LSQueue /\ reads' = reads
  BY DEF SCBase
<1>0. mem' \in [Addrs -> Values] /\ mem'[Lock] = 1
  BY Zenon, <1>1, WordFacts, WordAssumption
<1>1a. pc' = [pc EXCEPT ![h] = "BNEZ_SC"]
  OBVIOUS
<1>2. i \in 1 .. Len(LRSC) /\ LRSC[i].Addr = Lock /\ LRSC[i] \in Range(LRSC)
  BY DEF Matches, Types, Range
<1>3. /\ LRSC' \in Seq(Entry)
      /\ Range(LRSC) = Range(LRSC') \cup {LRSC[i]}
      /\ IsInjective(LRSC') /\ LRSC[i] \notin Range(LRSC')
  BY <1>1, <1>2, EraseFacts DEF Types, OneEntry
<1>4. Types'
  BY <1>0, <1>1, <1>1a, <1>3, WordAssumption DEF Types
<1>5. OneEntry'
  BY <1>3 DEF OneEntry
<1>6. Holds(h) /\ mem[Lock] = 0
  BY DEF Storing, ToStore
<1>7. \A g \in Harts : Holds(g) => g = h
  BY <1>6, OneHolder
<1>8. Waiting'
  BY <1>1, <1>1a DEF Waiting, Types
<1>9. Refused'
  BY <1>1 DEF Refused, Types
<1>10. reads = {}
  BY <1>7 DEF Loads, Types
<1>11. Loads' /\ OneLoad'
  BY <1>1, <1>10 DEF Loads, OneLoad
<1>12. \A g \in Harts : ~ToStore(g)'
  <2>1. SUFFICES ASSUME NEW g \in Harts, ToStore(g)' PROVE FALSE
    OBVIOUS
  <2>2. g # h
    BY <1>1a, <2>1 DEF ToStore, Types
  <2>3. ToStore(g)
    BY <1>1, <1>1a, <2>1, <2>2 DEF ToStore, Types
  <2> QED BY <1>7, <2>2, <2>3 DEF Storing
<1>13. \A g \in Harts : ~HasStored(g)
  BY <1>6 DEF Taken
<1>14. \A g \in Harts : HasStored(g)' => g = h
  BY <1>1, <1>1a, <1>13 DEF HasStored, Types
<1>16. Storing' /\ Taken' /\ Alone'
  BY <1>0, <1>12, <1>14 DEF Storing, Taken, Alone
<1> QED BY <1>4, <1>5, <1>8, <1>9, <1>11, <1>16

\* A store-conditional that fails: the reservation stays, and the register is one.
LEMMA SCFailsStep ==
  ASSUME IInv, NEW h \in Harts, Ready(h, "SC"), SCBaseFails(h, Lock), GoTo(h, "BNEZ_SC")
  PROVE  IInv'
<1> USE DEF IInv, Ready, GoTo
<1>0. /\ LRSC' = LRSC /\ LSQueue' = LSQueue /\ reads' = reads
      /\ mem' = mem /\ rd' = [rd EXCEPT ![h] = 1] /\ pc' = [pc EXCEPT ![h] = "BNEZ_SC"]
  BY DEF SCBaseFails
<1>1. Types'
  BY <1>0, WordAssumption DEF Types
<1>2. OneEntry' /\ \A g \in Harts : Holds(g)' = Holds(g)
  BY <1>0, SameEntries
<1>3. Waiting' /\ Refused'
  BY <1>0 DEF Waiting, Refused, Types
<1>4. Loads' /\ OneLoad'
  <2>1. \A r \in reads : r[1] \in Harts
    BY DEF Types
  <2> QED BY <1>0, <1>2, <2>1 DEF Loads, OneLoad
<1>5. \A g \in Harts : ToStore(g)' => ToStore(g)
  BY <1>0 DEF ToStore, Types
<1>6. \A g \in Harts : HasStored(g)' => HasStored(g)
  BY <1>0 DEF HasStored, Types
<1>7. Storing' /\ Taken' /\ Alone'
  BY <1>0, <1>2, <1>5, <1>6 DEF Storing, Taken, Alone
<1> QED BY <1>1, <1>2, <1>3, <1>4, <1>7

\* Stores to other words, and futures, leave the lock alone.
LEMMA WorkStep ==
  ASSUME IInv, (\E h \in Harts : Work(h)) \/ Future
  PROVE  IInv'
<1> USE DEF IInv
<1>0. /\ LRSC' = LRSC /\ LSQueue' = LSQueue /\ reads' = reads /\ pc' = pc /\ rd' = rd
      /\ mem'[Lock] = mem[Lock] /\ mem' \in [Addrs -> Values]
  <2>1. CASE \E h \in Harts : Work(h)
    <3>0. PICK h \in Harts : Work(h)
      BY <2>1
    <3>1. PICK a \in Addrs, n \in Lens :
            Lock \notin Covers(a, n) /\ \E d \in Data(n) : Store(a, n, d)
      BY Zenon, <3>0 DEF Work
    <3>2. mem'[Lock] = mem[Lock] /\ mem' \in [Addrs -> Values]
      BY Zenon, <3>1, StoreFacts, LockAssumption DEF Store
    <3> QED BY Zenon, <3>0, <3>1, <3>2 DEF Work, Store
  <2>2. CASE Future
    BY Zenon, <2>2 DEF Future, SetFuture, RevokeFuture, Types
  <2> QED BY <2>1, <2>2
<1>1. Types'
  BY <1>0 DEF Types
<1>2. OneEntry' /\ \A g \in Harts : Holds(g)' = Holds(g)
  BY <1>0, SameEntries
<1>3. Waiting' /\ Refused'
  BY <1>0 DEF Waiting, Refused, Types
<1>4. Loads' /\ OneLoad'
  <2>1. \A r \in reads : r[1] \in Harts
    BY DEF Types
  <2> QED BY <1>0, <1>2, <2>1 DEF Loads, OneLoad
<1>5. \A g \in Harts : ToStore(g)' => ToStore(g)
  BY <1>0 DEF ToStore
<1>6. \A g \in Harts : HasStored(g)' => HasStored(g)
  BY <1>0 DEF HasStored
<1>7. Storing' /\ Taken' /\ Alone'
  BY <1>0, <1>2, <1>5, <1>6 DEF Storing, Taken, Alone
<1> QED BY <1>1, <1>2, <1>3, <1>4, <1>7

\* The release frees the lock: the hart was the only one past its SC.
LEMMA ReleaseStep ==
  ASSUME IInv, NEW h \in Harts, Release(h)
  PROVE  IInv'
<1> USE DEF IInv, Ready, GoTo
<1>0. /\ LRSC' = LRSC /\ LSQueue' = LSQueue /\ reads' = reads /\ rd' = rd
      /\ WriteMem(Lock, 1, OneWord(0)) /\ pc' = [pc EXCEPT ![h] = "LR"]
      /\ pc[h] = "CS" /\ h \notin LSQueue
  BY DEF Release, Store
<1>0a. mem' \in [Addrs -> Values] /\ mem'[Lock] = 0
  BY Zenon, <1>0, WordFacts, WordAssumption
<1>1. Types' /\ mem'[Lock] = 0
  BY <1>0, <1>0a DEF Types
<1>2. OneEntry' /\ \A g \in Harts : Holds(g)' = Holds(g)
  BY <1>0, SameEntries
<1>3. Waiting' /\ Refused'
  BY <1>0 DEF Waiting, Refused, Types
<1>4. Loads' /\ OneLoad'
  <2>1. \A r \in reads : r[1] \in Harts
    BY DEF Types
  <2> QED BY <1>0, <1>1, <1>2, <2>1 DEF Loads, OneLoad
<1>5. \A g \in Harts : ToStore(g)' => ToStore(g)
  BY <1>0 DEF ToStore, Types
<1>6. \A g \in Harts : HasStored(g)' => HasStored(g) /\ g # h
  BY <1>0 DEF HasStored, Types
<1>7. HasStored(h)
  BY <1>0 DEF HasStored
<1>8. \A g \in Harts : ~HasStored(g)'
  BY <1>6, <1>7 DEF Alone
<1>9. Storing' /\ Taken' /\ Alone'
  BY <1>0, <1>1, <1>2, <1>5, <1>8 DEF Storing, Taken, Alone
<1> QED BY <1>1, <1>2, <1>3, <1>4, <1>9

\* The memory system reads the word: a zero is the lock's value now.
LEMMA ReadStep ==
  ASSUME IInv, NEW h \in Harts, ReadLock(h, Lock), pc' = pc
  PROVE  IInv'
<1> USE DEF IInv
<1> DEFINE old == <<h, Lock, NoValue>>
           new == <<h, Lock, mem[Lock]>>
<1>0. /\ LRSC' = LRSC /\ LSQueue' = LSQueue /\ mem' = mem /\ rd' = rd /\ pc' = pc
      /\ old \in reads /\ reads' = (reads \ {old}) \cup {new}
  BY DEF ReadLock
<1>0a. old[1] = h /\ new[1] = h /\ new[2] = Lock /\ new[3] = mem[Lock]
  OBVIOUS
<1>0b. new \in Harts \X Addrs \X (Values \cup {NoValue})
  BY LockAssumption DEF Types
<1> HIDE DEF old, new
<1>1. Types'
  BY <1>0, <1>0b DEF Types
<1>2. OneEntry' /\ \A g \in Harts : Holds(g)' = Holds(g)
  BY <1>0, SameEntries
<1>3. Waiting'
  BY <1>0 DEF Waiting
<1>4. Refused'
  <2>1. SUFFICES ASSUME NEW g \in LSQueue, rd[g] # 1
                 PROVE  \E r \in reads' : r[1] = g
    BY <1>0 DEF Refused
  <2>2. PICK r \in reads : r[1] = g
    BY <2>1 DEF Refused
  <2>3. CASE r = old
    BY <1>0, <1>0a, <2>2, <2>3
  <2>4. CASE r # old
    BY <1>0, <2>2, <2>4
  <2> QED BY <2>3, <2>4
<1>5. Loads'
  <2>1. \A r \in reads : r[1] \in Harts
    BY DEF Types
  <2>2. h \in LSQueue /\ Holds(h)
    BY <1>0, <1>0a DEF Loads
  <2> QED BY <1>0, <1>0a, <1>2, <2>1, <2>2 DEF Loads
<1>5a. OneLoad'
  BY <1>0, <1>0a DEF OneLoad
<1>6. \A g \in Harts : (ToStore(g)' <=> ToStore(g)) /\ (HasStored(g)' <=> HasStored(g))
  BY <1>0 DEF ToStore, HasStored
<1>7. Storing' /\ Taken' /\ Alone'
  BY <1>0, <1>2, <1>6 DEF Storing, Taken, Alone
<1> QED BY <1>1, <1>2, <1>3, <1>4, <1>5, <1>5a, <1>7

\* The answer reaches the register: with a zero, the hart holds the reservation and
\* the lock is still free.
LEMMA AnswerStep ==
  ASSUME IInv, NEW h \in Harts, NEW v \in Values, MarkLoadComplete(h, Lock, v), pc' = pc
  PROVE  IInv'
<1> USE DEF IInv
<1> DEFINE old == <<h, Lock, v>>
<1>0. /\ LRSC' = LRSC /\ LSQueue' = LSQueue \ {h} /\ mem' = mem
      /\ rd' = [rd EXCEPT ![h] = v] /\ pc' = pc
      /\ old \in reads /\ reads' = reads \ {old}
  BY DEF MarkLoadComplete
<1>0a. old[1] = h /\ old[3] = v
  OBVIOUS
<1> HIDE DEF old
<1>1. Types'
  BY <1>0 DEF Types
<1>2. OneEntry' /\ \A g \in Harts : Holds(g)' = Holds(g)
  BY <1>0, SameEntries
<1>3. Waiting'
  BY <1>0 DEF Waiting
<1>4. Refused'
  <2>1. SUFFICES ASSUME NEW g \in LSQueue, g # h, rd[g] # 1
                 PROVE  \E r \in reads' : r[1] = g
    BY <1>0 DEF Refused, Types
  <2>2. PICK r \in reads : r[1] = g
    BY <2>1 DEF Refused
  <2> QED BY <1>0, <1>0a, <2>1, <2>2
<1>5. h \in LSQueue /\ Holds(h) /\ (v = 0 => mem[Lock] = 0)
  BY <1>0, <1>0a DEF Loads
<1>6. Loads'
  <2>1. \A r \in reads : r[1] \in Harts /\ (r[1] = h => r = old)
    BY <1>0, <1>0a DEF OneLoad, Types
  <2> QED BY <1>0, <1>2, <2>1 DEF Loads
<1>6a. OneLoad'
  BY <1>0 DEF OneLoad
<1>7. pc[h] = "BNEZ_LR"
  BY <1>5 DEF Waiting
<1>8. \A g \in Harts : ToStore(g)' => Holds(g)' /\ mem'[Lock] = 0
  BY <1>0, <1>2, <1>5, <1>7 DEF ToStore, Storing, Types
<1>9. \A g \in Harts : HasStored(g)' => HasStored(g)
  BY <1>0, <1>7 DEF HasStored, Types
<1>10. Storing' /\ Taken' /\ Alone'
  BY <1>0, <1>8, <1>9 DEF Storing, Taken, Alone
<1> QED BY <1>1, <1>2, <1>3, <1>4, <1>6, <1>6a, <1>10

-----------------------------------------------------------------------------
(* The invariant, and what follows from it.                                *)

LEMMA NextIInv == ASSUME IInv, [Next]_vars PROVE IInv'
<1>1. CASE UNCHANGED vars
  BY <1>1 DEF vars, memVars, IInv, Types, OneEntry, Waiting, Refused, Loads, OneLoad,
              Storing, Taken, Alone, Holds, ToStore, HasStored
<1>2. ASSUME NEW h \in Harts, LR(h) PROVE IInv'
  BY <1>2, LRStep, LRFailsStep DEF LR
<1>3. ASSUME NEW h \in Harts, SC(h) PROVE IInv'
  BY <1>3, SCStep, SCFailsStep DEF SC
<1>4. ASSUME NEW h \in Harts, Answer(h) PROVE IInv'
  BY <1>4, ReadStep, AnswerStep DEF Answer
<1> QED BY <1>1, <1>2, <1>3, <1>4, BranchStep, WorkStep, ReleaseStep DEF Next

LEMMA Invariance == Spec => []IInv
BY InitIInv, NextIInv, PTL DEF Spec

\* However the harts and the answers interleave, an address is reserved once.
THEOREM ReservationsApart == Spec => []OneReservation
<1>1. IInv => OneReservation
  BY OneEntryGives DEF IInv
<1> QED BY <1>1, Invariance, PTL

\* Two harts that acquire the lock with LR and SC are never both past it, whatever
\* their cores: LRBase refuses a reserved address and SCBase needs the reservation.
THEOREM LockExcludes == Spec => []MutualExclusion
<1>1. IInv => MutualExclusion
  BY DEF IInv, Alone, HasStored, MutualExclusion
<1> QED BY <1>1, Invariance, PTL

\* A hart that waits has a load under way or was refused by LRBase.
THEOREM LoadsTracked == Spec => []LoadsExact
<1>1. IInv => LoadsExact
  BY DEF IInv, Loads, Refused, LoadsExact
<1> QED BY <1>1, Invariance, PTL

-----------------------------------------------------------------------------
(* Numbers and bijections.                                                 *)

INSTANCE FiniteSetTheorems

\* A set of numbers has a least one, which the loops over a list find first.
LEMMA Least ==
  ASSUME NEW S, S \subseteq Nat, S # {}
  PROVE  \E i \in S : \A j \in S : i <= j
<1>1. PICK i \in S : \A j \in S : ~(<<j, i>> \in OpToRel(<, Nat))
  BY Zenon, NatLessThanWellFounded, WFMin
<1>2. \A j \in S : ~(j < i)
  BY Zenon, <1>1 DEF OpToRel
<1> QED
  BY <1>2

\* What a bijection is
LEMMA BijectionFacts ==
  ASSUME NEW S, NEW T, NEW m \in Bijection(S, T)
  PROVE  /\ m \in [S -> T] /\ \A x, y \in S : m[x] = m[y] => x = y
         /\ \A k \in T : \E x \in S : m[x] = k
BY DEF Bijection, Injection, Surjection, IsInjective

LEMMA IsBijection ==
  ASSUME NEW S, NEW T, NEW m \in [S -> T], \A x, y \in S : m[x] = m[y] => x = y,
         \A k \in T : \E x \in S : m[x] = k
  PROVE  m \in Bijection(S, T)
BY DEF Bijection, Injection, Surjection, IsInjective

-----------------------------------------------------------------------------
(* The futures: FutureRes stays sorted and without duplicates, so the one  *)
(* entry that a store erases is the only one of its address.               *)

Increasing(s) == \A i, j \in DOMAIN s : i < j => s[i] < s[j]

\* An increasing sequence has no element twice, and as many as its range.
LEMMA IncreasingFacts ==
  ASSUME NEW S, S \subseteq Nat, NEW s \in Seq(S), Increasing(s)
  PROVE  /\ IsInjective(s)
         /\ IsFiniteSet(Range(s)) /\ Cardinality(Range(s)) = Len(s)
<1>0. DOMAIN s = 1 .. Len(s) /\ Len(s) \in Nat /\ \A i \in DOMAIN s : s[i] \in Nat
  <2>1. \A i \in DOMAIN s : s[i] \in S
    OBVIOUS
  <2>2. DOMAIN s = 1 .. Len(s) /\ Len(s) \in Nat
    OBVIOUS
  <2> QED
    BY Zenon, <2>1, <2>2
<1>1. \A i, j \in DOMAIN s : s[i] = s[j] => i = j
  <2> SUFFICES ASSUME NEW i \in DOMAIN s, NEW j \in DOMAIN s, s[i] = s[j], i # j
               PROVE  FALSE
    OBVIOUS
  <2>1. i < j \/ j < i
    BY <1>0
  <2> QED
    BY <1>0, <2>1 DEF Increasing
<1>2. IsInjective(s)
  BY Zenon, <1>1 DEF IsInjective
<1>3. s \in [DOMAIN s -> Range(s)] /\ \A e \in Range(s) : \E i \in DOMAIN s : s[i] = e
  BY DEF Range
<1>4. s \in Bijection(DOMAIN s, Range(s))
  BY Zenon, <1>1, <1>3, IsBijection
<1>5. IsFiniteSet(DOMAIN s) /\ Cardinality(DOMAIN s) = Len(s)
  BY <1>0, FS_Interval
<1> QED
  BY Zenon, <1>2, <1>4, <1>5, FS_Bijection DEF ExistsBijection

\* Sorted gives the elements in order when some order of them is increasing.
LEMMA SortedFacts ==
  ASSUME NEW S, S \subseteq Nat, NEW s \in Seq(S), Increasing(s), Range(s) = S
  PROVE  Sorted(S) \in Seq(S) /\ Increasing(Sorted(S)) /\ Range(Sorted(S)) = S
<1>1. IsFiniteSet(S) /\ Cardinality(S) = Len(s)
  BY Zenon, IncreasingFacts
<1>2. PICK n \in Nat : n = Cardinality(S) /\ n = Len(s)
  BY <1>1
<1>3. s \in [1 .. n -> S]
  BY <1>2
<1>4. PICK t : t = Sorted(S)
  BY Zenon
<1>5. t \in [1 .. n -> S] /\ Increasing(t)
  BY Zenon, <1>2, <1>3, <1>4 DEF Sorted, Increasing
<1>6. t \in Seq(S) /\ Len(t) = n /\ DOMAIN t = 1 .. n
  BY <1>5
<1>7. IsInjective(t)
  BY Zenon, <1>5, <1>6, IncreasingFacts
<1>8. t \in Injection(1 .. n, S)
  BY Zenon, <1>5, <1>6, <1>7 DEF Injection
<1>9. Cardinality(1 .. n) = n
  BY FS_Interval
<1>10. t \in Surjection(1 .. n, S)
  BY Zenon, <1>1, <1>2, <1>8, <1>9, FS_Injection
<1>11. \A e \in S : \E i \in DOMAIN t : t[i] = e
  BY Zenon, <1>6, <1>10 DEF Surjection
<1>12. Range(t) = S
  <2>1. \A i \in DOMAIN t : t[i] \in S
    BY Zenon, <1>5, <1>6
  <2> QED
    BY Zenon, <1>11, <2>1 DEF Range
<1> QED
  BY Zenon, <1>4, <1>5, <1>6, <1>12

\* A number finds its place in an increasing sequence.
LEMMA InsertFacts ==
  ASSUME NEW S, S \subseteq Nat, NEW s \in Seq(S), Increasing(s), NEW a \in S,
         NEW T, T = Range(s) \cup {a}
  PROVE  \E t \in Seq(S) : Increasing(t) /\ Range(t) = T
<1>1. CASE a \in Range(s)
  BY <1>1
<1>2. CASE a \notin Range(s)
  <2>0. DOMAIN s = 1 .. Len(s) /\ \A i \in DOMAIN s : s[i] \in Nat /\ s[i] # a
    <3>1. DOMAIN s = 1 .. Len(s) /\ \A i \in DOMAIN s : s[i] \in S
      OBVIOUS
    <3> QED
      BY Zenon, <1>2, <3>1 DEF Range
  <2>1. PICK n \in Nat : n = Len(s)
    OBVIOUS
  <2>2. PICK k \in 1 .. n + 1 :
             /\ k <= n => a < s[k]
             /\ \A i \in 1 .. n : a < s[i] => k <= i
    <3> DEFINE G == {i \in 1 .. n + 1 : i <= n => a < s[i]}
    <3>1. G \subseteq Nat /\ n + 1 \in G
      OBVIOUS
    <3>2. PICK k \in G : \A j \in G : k <= j
      BY Zenon, <3>1, Least
    <3> QED
      BY <3>2
  <2>3. ASSUME NEW i \in 1 .. n, i < k PROVE s[i] < a
    BY <2>0, <2>1, <2>2, <2>3
  <2>4. ASSUME NEW i \in 1 .. n, k <= i PROVE a < s[i]
    <3>1. k \in DOMAIN s /\ a < s[k] /\ (k < i => s[k] < s[i])
      BY <2>0, <2>1, <2>2, <2>4 DEF Increasing
    <3> QED
      BY <2>0, <2>1, <2>4, <3>1
  <2>5. PICK t : t = [i \in 1 .. n + 1 |->
                        IF i < k THEN s[i] ELSE IF i = k THEN a ELSE s[i - 1]]
    BY Zenon
  <2>6. /\ \A i \in 1 .. n + 1 : i < k => i \in 1 .. n /\ t[i] = s[i]
        /\ t[k] = a
        /\ \A i \in 1 .. n + 1 : k < i => i - 1 \in 1 .. n /\ t[i] = s[i - 1]
    BY <2>2, <2>5
  <2>7. t \in Seq(S) /\ DOMAIN t = 1 .. n + 1
    <3>1. \A i \in 1 .. n + 1 : t[i] \in S
      BY <2>0, <2>1, <2>2, <2>6
    <3>2. t \in [1 .. n + 1 -> S] /\ n + 1 \in Nat
      <4>1. DOMAIN t = 1 .. n + 1 /\ t = [i \in DOMAIN t |-> t[i]]
        BY <2>5
      <4>2. n + 1 \in Nat
        OBVIOUS
      <4> QED
        BY Zenon, <3>1, <4>1, <4>2
    <3>3. \A x \in Nat : \A u \in [1 .. x -> S] : u \in Seq(S) /\ DOMAIN u = 1 .. x
      OBVIOUS
    <3> QED
      BY Zenon, <3>2, <3>3
  <2>8. Increasing(t)
    <3> SUFFICES ASSUME NEW i \in 1 .. n + 1, NEW j \in 1 .. n + 1, i < j
                 PROVE  t[i] < t[j]
      BY <2>7 DEF Increasing
    <3>0. \A u, v \in 1 .. n : u < v => s[u] < s[v]
      BY <2>0, <2>1 DEF Increasing
    <3>1. CASE j < k
      BY <2>2, <2>6, <3>0, <3>1
    <3>2. CASE j = k
      BY <2>2, <2>3, <2>6, <3>2
    <3>3. CASE k < j /\ i < k
      <4>1. s[i] < a /\ a < s[j - 1] /\ t[i] = s[i] /\ t[j] = s[j - 1]
        BY <2>2, <2>3, <2>4, <2>6, <3>3
      <4>2. s[i] \in Nat /\ s[j - 1] \in Nat
        BY <2>0, <2>1, <2>6, <3>3
      <4> QED
        BY <4>1, <4>2
    <3>4. CASE i = k
      BY <2>2, <2>4, <2>6, <3>4
    <3>5. CASE k < i
      BY <2>2, <2>6, <3>0, <3>5
    <3> QED
      BY <2>2, <3>1, <3>2, <3>3, <3>4, <3>5
  <2>9. Range(t) = Range(s) \cup {a}
    <3>1. ASSUME NEW i \in 1 .. n + 1 PROVE t[i] \in Range(s) \cup {a}
      <4>1. \A j \in 1 .. n : s[j] \in Range(s)
        BY Zenon, <2>0, <2>1 DEF Range
      <4>2. i < k \/ i = k \/ k < i
        BY <2>2
      <4> QED
        BY Zenon, <2>6, <4>1, <4>2
    <3>2. ASSUME NEW i \in 1 .. n PROVE \E j \in 1 .. n + 1 : t[j] = s[i]
      <4>1. CASE i < k
        BY <2>6, <4>1
      <4>2. CASE k <= i
        <5>1. i + 1 \in 1 .. n + 1 /\ k < i + 1 /\ (i + 1) - 1 = i
          BY <2>2, <4>2
        <5> QED
          BY <2>6, <5>1
      <4> QED
        BY <2>2, <4>1, <4>2
    <3>3. a \in Range(t)
      BY Zenon, <2>2, <2>6, <2>7 DEF Range
    <3>4. Range(s) \subseteq Range(t)
      <4>1. \A i \in DOMAIN s : \E j \in DOMAIN t : t[j] = s[i]
        BY Zenon, <2>0, <2>1, <2>7, <3>2
      <4> QED
        BY Zenon, <4>1 DEF Range
    <3>5. Range(t) \subseteq Range(s) \cup {a}
      BY Zenon, <2>7, <3>1 DEF Range
    <3> QED
      BY Zenon, <3>3, <3>4, <3>5
  <2> QED
    BY Zenon, <2>7, <2>8, <2>9
<1> QED
  BY <1>1, <1>2

FuturesOK == FutureRes \in Seq(Addrs) /\ Increasing(FutureRes)

\* push_back, sort and unique: the address is added, at its place.
LEMMA SetFutureFacts ==
  ASSUME FuturesOK, NEW a \in Addrs, SetFuture(a)
  PROVE  FuturesOK' /\ Futures' = Futures \cup {a}
<1>1. PICK S : S = Range(FutureRes) \cup {a}
  BY Zenon
<1>2. Futures = Range(FutureRes)
  BY DEF Futures, Range
<1>3. S \subseteq Addrs /\ S \subseteq Nat
  <2>1. \A i \in DOMAIN FutureRes : FutureRes[i] \in Addrs
    BY DEF FuturesOK
  <2> QED
    BY Zenon, <1>1, <2>1, AddrAssumption DEF Range
<1>4. PICK t \in Seq(Addrs) : Increasing(t) /\ Range(t) = S
  <2>1. PICK f : f = FutureRes
    BY Zenon
  <2>2. f \in Seq(Addrs) /\ Increasing(f) /\ S = Range(f) \cup {a}
    BY Zenon, <1>1, <2>1 DEF FuturesOK
  <2> QED
    BY Zenon, <2>2, AddrAssumption, InsertFacts
<1>5. t \in Seq(S)
  BY <1>4 DEF Range
<1>6. Sorted(S) \in Seq(S) /\ Increasing(Sorted(S)) /\ Range(Sorted(S)) = S
  BY Zenon, <1>3, <1>4, <1>5, SortedFacts
<1>7. FutureRes' = Sorted(S)
  BY Zenon, <1>1, <1>2 DEF SetFuture
<1>8. FutureRes' \in Seq(Addrs)
  <2>1. PICK u \in Seq(S) : u = Sorted(S)
    BY Zenon, <1>6
  <2>2. u \in Seq(Addrs)
    <3>1. Len(u) \in Nat /\ DOMAIN u = 1 .. Len(u) /\ \A i \in DOMAIN u : u[i] \in S
      OBVIOUS
    <3>2. \A i \in DOMAIN u : u[i] \in Addrs
      BY Zenon, <1>3, <3>1
    <3> QED
      BY <3>1, <3>2
  <2> QED
    BY Zenon, <1>7, <2>1, <2>2
<1>9. Futures' = Range(FutureRes')
  BY DEF Futures, Range
<1> QED
  BY Zenon, <1>1, <1>2, <1>6, <1>7, <1>8, <1>9 DEF FuturesOK

\* The loop erases the first equal entry, and there is no other.
LEMMA RevokedFacts ==
  ASSUME FuturesOK, NEW a
  PROVE  /\ Revoked(a) \in Seq(Addrs) /\ Increasing(Revoked(a))
         /\ \A b : b \in Range(Revoked(a)) <=> b \in Range(FutureRes) /\ b # a
<1>0. Futures = Range(FutureRes) /\ DOMAIN FutureRes = 1 .. Len(FutureRes)
  BY DEF Futures, Range, FuturesOK
<1>1. CASE a \notin Futures
  BY <1>0, <1>1 DEF Revoked, FuturesOK
<1>2. CASE a \in Futures
  <2> DEFINE M == {i \in DOMAIN FutureRes : FutureRes[i] = a}
  <2>1. M \subseteq Nat /\ M # {}
    BY <1>0, <1>2 DEF Futures
  <2>2. PICK i \in M : \A j \in M : i <= j
    BY Zenon, <2>1, Least
  <2>3. \A j \in 1 .. i - 1 : FutureRes[j] # a
    BY <1>0, <2>2
  <2>4. PICK k \in DOMAIN FutureRes : FutureRes[k] = a /\ Revoked(a) = Erase(FutureRes, k)
    BY Zenon, <1>2, <2>2, <2>3 DEF Revoked
  <2>5. IsInjective(FutureRes)
    BY Zenon, AddrAssumption, IncreasingFacts DEF FuturesOK
  <2>6. k \in 1 .. Len(FutureRes)
    BY Zenon, <1>0, <2>4
  <2>7. /\ Erase(FutureRes, k) \in Seq(Addrs)
        /\ a \notin Range(Erase(FutureRes, k))
        /\ Range(FutureRes) = Range(Erase(FutureRes, k)) \cup {a}
    BY Zenon, <2>4, <2>5, <2>6, EraseFacts DEF FuturesOK
  <2>8. Increasing(Erase(FutureRes, k))
    <3> SUFFICES ASSUME NEW u \in DOMAIN Erase(FutureRes, k),
                        NEW v \in DOMAIN Erase(FutureRes, k), u < v
                 PROVE  Erase(FutureRes, k)[u] < Erase(FutureRes, k)[v]
      BY Zenon DEF Increasing
    <3>1. PICK x, y \in DOMAIN FutureRes :
               /\ x < y
               /\ Erase(FutureRes, k)[u] = FutureRes[x]
               /\ Erase(FutureRes, k)[v] = FutureRes[y]
      <4>1. PICK f : f = FutureRes
        BY Zenon
      <4>2. f \in Seq(Addrs) /\ k \in 1 .. Len(f)
        BY Zenon, <2>6, <4>1 DEF FuturesOK
      <4>3. u \in DOMAIN Erase(f, k) /\ v \in DOMAIN Erase(f, k)
        BY Zenon, <4>1
      <4>4. \E x, y \in DOMAIN f : x < y /\ Erase(f, k)[u] = f[x] /\ Erase(f, k)[v] = f[y]
        BY <4>2, <4>3, EraseOrder
      <4> QED
        BY Zenon, <4>1, <4>4
    <3>2. FutureRes[x] < FutureRes[y]
      BY Zenon, <3>1 DEF FuturesOK, Increasing
    <3> QED
      BY Zenon, <3>1, <3>2
  <2> QED
    BY Zenon, <2>4, <2>7, <2>8
<1> QED
  BY <1>1, <1>2

\* What a step does to a word and to the futures: nothing, SetFuture, RevokeFuture
\* or a store.
LEMMA FutureCases ==
  ASSUME Types, [Next]_vars
  PROVE  \/ mem' = mem /\ FutureRes' = FutureRes
         \/ \E a \in Addrs : SetFuture(a)
         \/ \E a \in Addrs : RevokeFuture(a)
         \/ \E a \in Addrs, n \in Lens : \E d \in Data(n) : WriteMem(a, n, d)
<1>1. CASE UNCHANGED vars
  BY <1>1 DEF vars, memVars
<1>2. CASE Future
  BY Zenon, <1>2 DEF Future
<1>3. ASSUME NEW h \in Harts, LR(h) \/ BnezLR(h) \/ BnezSC(h) \/ Answer(h)
      PROVE  mem' = mem /\ FutureRes' = FutureRes
  BY Zenon, <1>3 DEF LR, LRBase, LRBaseFails, BnezLR, BnezSC, Answer, ReadLock,
                     MarkLoadComplete, memVars
<1>4. ASSUME NEW h \in Harts, SC(h)
      PROVE  (mem' = mem /\ FutureRes' = FutureRes) \/ WriteMem(Lock, 1, OneWord(1))
  BY Zenon, <1>4 DEF SC, SCBase, SCBaseFails
<1>5. ASSUME NEW v \in Values, WriteMem(Lock, 1, OneWord(v))
      PROVE  \E a \in Addrs, n \in Lens : \E d \in Data(n) : WriteMem(a, n, d)
  BY Zenon, <1>5, WordFacts, LockAssumption, LenAssumption
<1>6. ASSUME NEW h \in Harts, Work(h)
      PROVE  \E a \in Addrs, n \in Lens : \E d \in Data(n) : WriteMem(a, n, d)
  BY Zenon, <1>6 DEF Work, Store
<1>7. ASSUME NEW h \in Harts, Release(h) PROVE WriteMem(Lock, 1, OneWord(0))
  BY Zenon, <1>7 DEF Release, Store
<1>8. 0 \in Values /\ 1 \in Values
  BY WordAssumption
<1> QED
  BY Zenon, <1>1, <1>2, <1>3, <1>4, <1>5, <1>6, <1>7, <1>8 DEF Next

LEMMA FuturesStep == ASSUME Types, FuturesOK, [Next]_vars PROVE FuturesOK'
<1>1. ASSUME NEW a \in Addrs, FutureRes' = Revoked(a) PROVE FuturesOK'
  BY Zenon, <1>1, RevokedFacts DEF FuturesOK, Increasing
<1>2. ASSUME FutureRes' = FutureRes PROVE FuturesOK'
  BY Zenon, <1>2 DEF FuturesOK, Increasing
<1>3. ASSUME NEW a \in Addrs, NEW n \in Lens, NEW d \in Data(n), WriteMem(a, n, d)
      PROVE  FuturesOK'
  BY Zenon, <1>1, <1>3 DEF WriteMem
<1>4. ASSUME NEW a \in Addrs, RevokeFuture(a) PROVE FuturesOK'
  BY Zenon, <1>1, <1>4 DEF RevokeFuture
<1> QED
  BY Zenon, <1>2, <1>3, <1>4, FutureCases, SetFutureFacts

LEMMA FuturesInvariant == Spec => []FuturesOK
<1>1. Init => FuturesOK
  BY DEF Init, MemInit, FuturesOK, Increasing
<1>2. IInv /\ FuturesOK /\ [Next]_vars => FuturesOK'
  BY Zenon, FuturesStep DEF IInv
<1> QED BY <1>1, <1>2, Invariance, PTL DEF Spec

\* Every variable keeps its type, and FutureRes stays sorted without duplicates:
\* SetFuture sorts and drops the duplicate, and erasing one entry disturbs neither.
THEOREM TypeCorrect == Spec => []TypeOK
<1>1. IInv /\ FuturesOK => TypeOK
  BY Zenon DEF IInv, Types, FuturesOK, Increasing, TypeOK, MemTypeOK, Entry
<1> QED BY <1>1, Invariance, FuturesInvariant, PTL

\* A future outlives a change of its word only when the store started below it, and
\* ends only by a store to its word or RevokeFuture: FutureRes has no address twice,
\* so the one entry RevokeFuture erases is all there is.
THEOREM StoresEndFutures == Spec => StoreEndsFuture
<1>0. Futures = Range(FutureRes) /\ Futures' = Range(FutureRes')
  BY DEF Futures, Range
<1>1. ASSUME IInv, FuturesOK, [Next]_vars, NEW a \in Addrs, mem'[a] # mem[a], StatusFuture(a)'
      PROVE  \E b \in Addrs, n \in Lens :
               b < a /\ a \in Covers(b, n) /\ \E d \in Data(n) : WriteMem(b, n, d)
  <2>1. PICK b \in Addrs, n \in Lens : \E d \in Data(n) : WriteMem(b, n, d)
    BY Zenon, <1>1, FutureCases DEF SetFuture, RevokeFuture, IInv
  <2>2. a \in Covers(b, n)
    BY Zenon, <1>1, <2>1, StoreFacts DEF IInv
  <2>3. a # b
    BY Zenon, <1>0, <1>1, <2>1, RevokedFacts DEF WriteMem, StatusFuture
  <2>4. b < a
    BY <2>2, <2>3, AddrAssumption, LenAssumption DEF Covers
  <2> QED
    BY Zenon, <2>1, <2>2, <2>4
<1>2. ASSUME IInv, FuturesOK, [Next]_vars, NEW a \in Addrs, StatusFuture(a), ~StatusFuture(a)'
      PROVE  RevokeFuture(a) \/ \E n \in Lens : \E d \in Data(n) : WriteMem(a, n, d)
  <2>1. FutureRes' # FutureRes
    BY Zenon, <1>0, <1>2 DEF StatusFuture
  <2>2. \A b \in Addrs : ~SetFuture(b)
    BY Zenon, <1>2, SetFutureFacts DEF StatusFuture
  <2>3. ASSUME NEW b \in Addrs, FutureRes' = Revoked(b) PROVE a = b
    BY Zenon, <1>0, <1>2, <2>3, RevokedFacts DEF StatusFuture
  <2>4. CASE \E b \in Addrs : RevokeFuture(b)
    BY Zenon, <2>3, <2>4 DEF RevokeFuture
  <2>5. CASE \E b \in Addrs, n \in Lens : \E d \in Data(n) : WriteMem(b, n, d)
    BY Zenon, <2>3, <2>5 DEF WriteMem
  <2> QED
    BY Zenon, <1>2, <2>1, <2>2, <2>4, <2>5, FutureCases DEF IInv
<1>3. IInv /\ FuturesOK /\ [Next]_vars =>
        [\A a \in Addrs :
           /\ mem'[a] # mem[a] /\ StatusFuture(a)' =>
                \E b \in Addrs, n \in Lens :
                  b < a /\ a \in Covers(b, n) /\ \E d \in Data(n) : WriteMem(b, n, d)
           /\ StatusFuture(a) /\ ~StatusFuture(a)' =>
                RevokeFuture(a) \/ \E n \in Lens : \E d \in Data(n) : WriteMem(a, n, d)]_memVars
  BY Zenon, <1>1, <1>2
<1> QED BY <1>3, Invariance, FuturesInvariant, PTL DEF Spec, StoreEndsFuture

-----------------------------------------------------------------------------
(* The prefetcher of a core with one hart.                                 *)

\* What the lists and the set of reads hold
Stream == [id : Nat, base : Nat, iStack : [Offs -> {REVPREF_INIT_ADDR} \cup Nat \X Nat]]
Read == [Hart : HartIDs, Addr : Nat, id : Nat, Off : Offs]
Fetch == [Hart : HartIDs, Addr : Nat]

\* A word of a stream is the one at its address, or not there yet.
Exact(st) ==
  \A i \in DOMAIN st :
    /\ st[i].base % 2 = 0
    /\ \A o \in Offs : st[i].iStack[o] \in {REVPREF_INIT_ADDR, Word(st[i].base + 2 * o)}

\* A read into a stream is for the address of the word it will fill.
Aimed(st, fl) ==
  \A r \in fl, i \in DOMAIN st : st[i].id = r.id => r.Addr = st[i].base + 2 * r.Off

\* The entries of a queue and the reads under way can be paired off by address.
Paired(fl, q) ==
  \E m \in Bijection(fl, DOMAIN q) : \A r \in fl : q[m[r]].Addr = r.Addr

\* A read under way has its buffer.
Owned(st, fl) == \A r \in fl : \E i \in DOMAIN st : st[i].id = r.id

Sound(st, q, fl) ==
  /\ st \in Seq(Stream) /\ q \in Seq(Fetch) /\ fl \subseteq Read
  /\ Exact(st) /\ Aimed(st, fl) /\ Paired(fl, q)

-----------------------------------------------------------------------------
(* The lists and sets.                                                     *)

\* No entry and no read.
LEMMA PairedNone == Paired({}, <<>>)
<1>1. [x \in {} |-> 0] \in Bijection({}, DOMAIN <<>>)
  BY DEF Bijection, Injection, Surjection, IsInjective
<1> QED
  BY <1>1 DEF Paired

\* The reads under way are finitely many.
LEMMA PairedFinite ==
  ASSUME NEW S, NEW fl, NEW q \in Seq(S), Paired(fl, q)
  PROVE  IsFiniteSet(fl)
<1>1. PICK m : m \in Injection(fl, 1 .. Len(q))
  BY DEF Paired, Bijection
<1>2. IsFiniteSet(1 .. Len(q))
  BY FS_Interval
<1> QED
  BY <1>1, <1>2, FS_Injection

\* The last entry belongs to a read; without entries there is none.
LEMMA PairedBack ==
  ASSUME NEW S, NEW fl, NEW q \in Seq(S), Paired(fl, q)
  PROVE  /\ q = <<>> => fl = {}
         /\ q # <<>> => \E r \in fl : r.Addr = q[Len(q)].Addr
<1>1. PICK m \in Bijection(fl, DOMAIN q) : \A r \in fl : q[m[r]].Addr = r.Addr
  BY DEF Paired
<1>2. m \in [fl -> DOMAIN q] /\ \A k \in DOMAIN q : \E r \in fl : m[r] = k
  BY <1>1 DEF Bijection, Injection, Surjection
<1>3. DOMAIN q = 1 .. Len(q) /\ (q # <<>> => Len(q) \in DOMAIN q)
  OBVIOUS
<1>4. q = <<>> => DOMAIN q = {}
  OBVIOUS
<1> QED
  BY <1>1, <1>2, <1>3, <1>4

\* Fill adds entries and reads that are paired among themselves.
LEMMA PairedConcat ==
  ASSUME NEW S, NEW fl, NEW q \in Seq(S), Paired(fl, q),
         NEW new, NEW w \in Seq(S), Paired(new, w), fl \cap new = {}
  PROVE  Paired(fl \cup new, q \o w)
<1>1. PICK m \in Bijection(fl, DOMAIN q) : \A r \in fl : q[m[r]].Addr = r.Addr
  BY DEF Paired
<1>2. PICK n \in Bijection(new, DOMAIN w) : \A r \in new : w[n[r]].Addr = r.Addr
  BY DEF Paired
<1>0. DOMAIN q = 1 .. Len(q) /\ DOMAIN w = 1 .. Len(w)
  OBVIOUS
<1>3. /\ m \in [fl -> 1 .. Len(q)] /\ \A r, s \in fl : m[r] = m[s] => r = s
      /\ \A k \in 1 .. Len(q) : \E r \in fl : m[r] = k
  <2>1. /\ m \in [fl -> DOMAIN q] /\ \A x, y \in fl : m[x] = m[y] => x = y
        /\ \A k \in DOMAIN q : \E x \in fl : m[x] = k
    BY <1>1, BijectionFacts
  <2> QED
    BY <1>0, <2>1
<1>4. /\ n \in [new -> 1 .. Len(w)] /\ \A r, s \in new : n[r] = n[s] => r = s
      /\ \A k \in 1 .. Len(w) : \E r \in new : n[r] = k
  <2>1. /\ n \in [new -> DOMAIN w] /\ \A x, y \in new : n[x] = n[y] => x = y
        /\ \A k \in DOMAIN w : \E x \in new : n[x] = k
    BY <1>2, BijectionFacts
  <2> QED
    BY <1>0, <2>1
<1>5. PICK u : u = q \o w
  BY Zenon
<1>6. /\ Len(q) \in Nat /\ Len(w) \in Nat /\ DOMAIN u = 1 .. Len(q) + Len(w)
      /\ \A k \in 1 .. Len(q) : u[k] = q[k]
      /\ \A k \in 1 .. Len(w) : u[Len(q) + k] = w[k]
  BY <1>5
<1>7. PICK p : p = [r \in fl \cup new |-> IF r \in fl THEN m[r] ELSE Len(q) + n[r]]
  BY Zenon
<1>8. /\ DOMAIN p = fl \cup new /\ \A r \in fl : p[r] = m[r]
      /\ \A r \in new : p[r] = Len(q) + n[r]
  BY <1>7
<1>9. p \in [fl \cup new -> DOMAIN u]
  BY <1>3, <1>4, <1>6, <1>7
<1>10. \A r, s \in fl \cup new : p[r] = p[s] => r = s
  BY <1>3, <1>4, <1>6, <1>8
<1>11. ASSUME NEW k \in DOMAIN u PROVE \E r \in fl \cup new : p[r] = k
  <2>1. CASE k <= Len(q)
    BY <1>3, <1>6, <1>8, <2>1
  <2>2. CASE k > Len(q)
    <3>1. PICK j : j = k - Len(q)
      OBVIOUS
    <3>2. j \in 1 .. Len(w) /\ k = Len(q) + j
      BY <1>6, <2>2, <3>1
    <3> QED
      BY <1>4, <1>8, <3>2
  <2> QED
    BY <1>6, <2>1, <2>2
<1>12. \A r \in fl \cup new : u[p[r]].Addr = r.Addr
  <2>1. ASSUME NEW r \in fl PROVE u[p[r]].Addr = r.Addr
    <3>1. m[r] \in 1 .. Len(q)
      BY <1>3
    <3> QED
      BY Zenon, <1>1, <1>6, <1>8, <3>1
  <2>2. ASSUME NEW r \in new PROVE u[p[r]].Addr = r.Addr
    <3>1. n[r] \in 1 .. Len(w)
      BY <1>4
    <3> QED
      BY Zenon, <1>2, <1>6, <1>8, <3>1
  <2> QED
    BY Zenon, <2>1, <2>2
<1>13. p \in Bijection(fl \cup new, DOMAIN u)
  BY Zenon, <1>9, <1>10, <1>11, IsBijection
<1> QED
  BY Zenon, <1>5, <1>12, <1>13 DEF Paired

\* MarkInstructionLoadComplete erases an entry with the address of the read, not
\* always the one that was sent with it: the two entries change places.
LEMMA PairedErase ==
  ASSUME NEW S, NEW fl, NEW q \in Seq(S), Paired(fl, q),
         NEW r \in fl, NEW j \in DOMAIN q, q[j].Addr = r.Addr
  PROVE  Paired(fl \ {r}, Erase(q, j))
<1>1. PICK m \in Bijection(fl, DOMAIN q) : \A x \in fl : q[m[x]].Addr = x.Addr
  BY DEF Paired
<1>0. DOMAIN q = 1 .. Len(q)
  OBVIOUS
<1>2. /\ m \in [fl -> 1 .. Len(q)] /\ \A x, y \in fl : m[x] = m[y] => x = y
      /\ \A k \in 1 .. Len(q) : \E x \in fl : m[x] = k
  <2>1. /\ m \in [fl -> DOMAIN q] /\ \A x, y \in fl : m[x] = m[y] => x = y
        /\ \A k \in DOMAIN q : \E x \in fl : m[x] = k
    BY <1>1, BijectionFacts
  <2> QED
    BY <1>0, <2>1
<1>3. PICK s \in fl : m[s] = j
  BY Zenon, <1>0, <1>2
<1>4. PICK w : w = Erase(q, j)
  OBVIOUS
<1>5. /\ Len(q) \in Nat /\ j \in 1 .. Len(q) /\ DOMAIN w = 1 .. Len(q) - 1
      /\ \A k \in 1 .. j - 1 : w[k] = q[k]
      /\ \A k \in j .. Len(q) - 1 : w[k] = q[k + 1]
  <2>1. j \in 1 .. Len(q) /\ Len(q) \in Nat
    BY <1>0
  <2> QED
    BY Zenon, <1>4, <2>1, EraseElements
<1>6. PICK n : n = [x \in fl |-> IF x = s THEN m[r] ELSE m[x]]
  BY Zenon
<1>7. /\ n \in [fl -> 1 .. Len(q)] /\ \A x \in fl \ {r} : n[x] # j /\ q[n[x]].Addr = x.Addr
      /\ \A x, y \in fl \ {r} : n[x] = n[y] => x = y
      /\ \A k \in 1 .. Len(q) : k # j => \E x \in fl \ {r} : n[x] = k
  <2>1. n \in [fl -> 1 .. Len(q)]
    BY <1>2, <1>6
  <2>2. \A x \in fl : n[x] = IF x = s THEN m[r] ELSE m[x]
    BY <1>6
  <2>3. \A x \in fl \ {r} : n[x] # j /\ q[n[x]].Addr = x.Addr
    BY <1>1, <1>2, <1>3, <2>2
  <2>4. \A x, y \in fl \ {r} : n[x] = n[y] => x = y
    BY <1>2, <1>3, <2>2
  <2>5. ASSUME NEW k \in 1 .. Len(q), k # j PROVE \E x \in fl \ {r} : n[x] = k
    <3>1. PICK x \in fl : m[x] = k
      BY <1>2
    <3>2. CASE x = r
      <4>1. s # r /\ n[s] = k
        BY <1>3, <2>2, <2>5, <3>1, <3>2
      <4> QED
        BY <1>3, <4>1
    <3>3. CASE x # r
      BY <1>3, <2>2, <2>5, <3>1, <3>3
    <3> QED
      BY <3>2, <3>3
  <2> QED
    BY <2>1, <2>3, <2>4, <2>5
<1>8. PICK p : p = [x \in fl \ {r} |-> IF n[x] < j THEN n[x] ELSE n[x] - 1]
  BY Zenon
<1>9. \A x \in fl \ {r} : /\ p[x] = IF n[x] < j THEN n[x] ELSE n[x] - 1
                          /\ p[x] \in DOMAIN w /\ w[p[x]] = q[n[x]]
  <2> SUFFICES ASSUME NEW x \in fl \ {r}
               PROVE  /\ p[x] = IF n[x] < j THEN n[x] ELSE n[x] - 1
                      /\ p[x] \in DOMAIN w /\ w[p[x]] = q[n[x]]
    OBVIOUS
  <2>1. p[x] = IF n[x] < j THEN n[x] ELSE n[x] - 1
    BY <1>8
  <2>2. n[x] \in 1 .. Len(q) /\ n[x] # j
    BY <1>7
  <2>3. CASE n[x] < j
    BY <1>5, <2>1, <2>2, <2>3
  <2>4. CASE ~(n[x] < j)
    <3>1. p[x] \in j .. Len(q) - 1 /\ p[x] + 1 = n[x]
      BY <1>5, <2>1, <2>2, <2>4
    <3> QED
      BY <1>5, <2>1, <2>2, <3>1
  <2> QED
    BY <2>3, <2>4
<1>10. \A x, y \in fl \ {r} : p[x] = p[y] => x = y
  BY <1>5, <1>7, <1>9
<1>11. ASSUME NEW k \in DOMAIN w PROVE \E x \in fl \ {r} : p[x] = k
  <2>1. PICK i : i = IF k < j THEN k ELSE k + 1
    OBVIOUS
  <2>2. i \in 1 .. Len(q) /\ i # j /\ k = IF i < j THEN i ELSE i - 1
    BY <1>5, <2>1
  <2>3. PICK x \in fl \ {r} : n[x] = i
    BY Zenon, <1>7, <2>2
  <2>4. p[x] = k
    BY Zenon, <1>9, <2>2, <2>3
  <2> QED
    BY Zenon, <2>4
<1>12. p \in Bijection(fl \ {r}, DOMAIN w)
  <2>1. p \in [fl \ {r} -> DOMAIN w]
    BY <1>8, <1>9
  <2> QED
    BY Zenon, <1>10, <1>11, <2>1, IsBijection
<1> QED
  BY <1>4, <1>7, <1>9, <1>12 DEF Paired

-----------------------------------------------------------------------------
(* The streams.                                                            *)

\* A new buffer is one that no stream has and no read points into.
LEMMA FreshFacts ==
  ASSUME NEW f, f.streams \in Seq(Stream), f.inflight \subseteq Read, IsFiniteSet(f.inflight)
  PROVE  /\ FreshId(f) \in Nat
         /\ \A i \in DOMAIN f.streams : f.streams[i].id # FreshId(f)
         /\ \A r \in f.inflight : r.id # FreshId(f)
<1>1. PICK A : A = {f.streams[i].id : i \in DOMAIN f.streams}
  BY Zenon
<1>2. PICK B : B = {r.id : r \in f.inflight}
  BY Zenon
<1>3. IsFiniteSet(A)
  <2>1. PICK g : g = [i \in DOMAIN f.streams |-> f.streams[i].id]
    BY Zenon
  <2>2. g \in Surjection(DOMAIN f.streams, A)
    BY <1>1, <2>1 DEF Surjection
  <2>3. IsFiniteSet(DOMAIN f.streams)
    <3>1. DOMAIN f.streams = 1 .. Len(f.streams) /\ Len(f.streams) \in Int
      OBVIOUS
    <3> QED
      BY <3>1, FS_Interval
  <2> QED
    BY Zenon, <2>2, <2>3, FS_Surjection
<1>4. IsFiniteSet(B)
  <2>1. PICK g : g = [r \in f.inflight |-> r.id]
    BY Zenon
  <2>2. g \in Surjection(f.inflight, B)
    BY <1>2, <2>1 DEF Surjection
  <2> QED
    BY Zenon, <2>2, FS_Surjection
<1>5. PICK n : n = Cardinality(A \cup B)
  BY Zenon
<1>6. IsFiniteSet(A \cup B) /\ n \in Nat
  BY Zenon, <1>3, <1>4, <1>5, FS_Union, FS_CardinalityType
<1>7. \E k \in 0 .. n : k \notin A \cup B
  <2> SUFFICES ASSUME 0 .. n \in SUBSET (A \cup B) PROVE FALSE
    OBVIOUS
  <2>1. Cardinality(0 .. n) <= n
    BY Zenon, <1>5, <1>6, FS_Subset
  <2>2. Cardinality(0 .. n) = n + 1
    BY <1>6, FS_Interval
  <2> QED
    BY <1>6, <2>1, <2>2
<1>8. FreshId(f) \in 0 .. n /\ FreshId(f) \notin A \cup B
  BY Zenon, <1>1, <1>2, <1>5, <1>7 DEF FreshId
<1> QED
  BY <1>1, <1>2, <1>6, <1>8

\* Fill adds a stream of words to come, and a read for each.
LEMMA FillFacts ==
  ASSUME Sizes, NEW f, Sound(f.streams, f.Q, f.inflight), NEW h \in HartIDs, NEW a \in Nat,
         NEW g, g = Fill(f, h, a)
  PROVE  /\ Sound(g.streams, g.Q, g.inflight)
         /\ Owned(f.streams, f.inflight) => Owned(g.streams, g.inflight)
<1>1. PICK base : base = a - (a % 2)
  OBVIOUS
<1>2. base \in Nat /\ base % 2 = 0
  BY <1>1
<1>3. PICK id : id = FreshId(f)
  OBVIOUS
<1>4. /\ f.streams \in Seq(Stream) /\ f.Q \in Seq(Fetch) /\ f.inflight \subseteq Read
      /\ Exact(f.streams) /\ Aimed(f.streams, f.inflight) /\ Paired(f.inflight, f.Q)
  BY Zenon DEF Sound
<1>5. /\ id \in Nat /\ \A i \in DOMAIN f.streams : f.streams[i].id # id
      /\ \A r \in f.inflight : r.id # id
  BY Zenon, <1>3, <1>4, PairedFinite, FreshFacts
<1>6. depth \in Nat \ {0} /\ Offs = 0 .. depth - 1
  BY DEF Sizes, Offs
<1>7. PICK s : s = [id |-> id, base |-> base, iStack |-> [o \in Offs |-> REVPREF_INIT_ADDR]]
  BY Zenon
<1>8. /\ s \in Stream /\ s.id = id /\ s.base = base
      /\ \A o \in Offs : s.iStack[o] = REVPREF_INIT_ADDR
  BY <1>2, <1>5, <1>7 DEF Stream
<1>9. PICK w : w = [k \in 1 .. depth |-> [Hart |-> h, Addr |-> base + 2 * (k - 1)]]
  BY Zenon
<1>10. /\ w \in Seq(Fetch) /\ DOMAIN w = 1 .. depth
       /\ \A k \in 1 .. depth : w[k].Addr = base + 2 * (k - 1)
  <2>1. \A k \in 1 .. depth : [Hart |-> h, Addr |-> base + 2 * (k - 1)] \in Fetch
    BY <1>2, <1>6 DEF Fetch
  <2> QED
    BY <1>6, <1>9, <2>1
<1>11. PICK new : new = {[Hart |-> h, Addr |-> base + 2 * o, id |-> id, Off |-> o] : o \in Offs}
  BY Zenon
<1>12. /\ new \subseteq Read
       /\ \A r \in new : r.id = id /\ r.Off \in Offs /\ r.Addr = base + 2 * r.Off
       /\ \A r, x \in new : r.Off = x.Off => r = x
       /\ \A o \in Offs : \E r \in new : r.Off = o
  <2> DEFINE R(o) == [Hart |-> h, Addr |-> base + 2 * o, id |-> id, Off |-> o]
  <2>1. \A o \in Offs : R(o) \in Read /\ R(o).id = id /\ R(o).Off = o /\ R(o).Addr = base + 2 * o
    BY <1>2, <1>5, <1>6 DEF Read
  <2>2. \A r : r \in new <=> \E o \in Offs : r = R(o)
    BY Zenon, <1>11
  <2> HIDE DEF R
  <2>3. new \subseteq Read /\ \A o \in Offs : \E r \in new : r.Off = o
    BY <2>1, <2>2
  <2>4. \A r \in new : r.Off \in Offs /\ r = R(r.Off)
    BY <2>1, <2>2
  <2>5. \A r \in new : r.id = id /\ r.Addr = base + 2 * r.Off
    BY Zenon, <2>1, <2>4
  <2>6. \A r, x \in new : r.Off = x.Off => r = x
    BY Zenon, <2>4
  <2> QED
    BY Zenon, <2>3, <2>4, <2>5, <2>6
<1>13. Paired(new, w)
  <2>1. PICK m : m = [r \in new |-> r.Off + 1]
    BY Zenon
  <2>2. m \in [new -> DOMAIN w] /\ \A r \in new : m[r] = r.Off + 1
    BY <1>6, <1>10, <1>12, <2>1
  <2>3. \A k \in DOMAIN w : \E r \in new : m[r] = k
    <3> SUFFICES ASSUME NEW k \in 1 .. depth PROVE \E r \in new : m[r] = k
      BY <1>10
    <3>1. PICK r \in new : r.Off = k - 1
      BY <1>6, <1>12
    <3> QED
      BY <2>2, <3>1
  <2>4. ASSUME NEW r \in new, NEW x \in new, m[r] = m[x] PROVE r = x
    <3>1. r.Off \in Int /\ x.Off \in Int
      BY <1>6, <1>12
    <3>2. r.Off + 1 = x.Off + 1
      BY Zenon, <2>2, <2>4
    <3>3. r.Off = x.Off
      BY ONLY <3>1, <3>2
    <3> QED
      BY Zenon, <1>12, <3>3
  <2>5. m \in Bijection(new, DOMAIN w)
    BY Zenon, <2>2, <2>3, <2>4, IsBijection
  <2>6. ASSUME NEW r \in new PROVE w[m[r]].Addr = r.Addr
    <3>1. PICK o : o = r.Off
      OBVIOUS
    <3>2. o \in 0 .. depth - 1 /\ m[r] = o + 1 /\ r.Addr = base + 2 * o
      BY Zenon, <1>6, <1>12, <2>2, <3>1
    <3>3. o + 1 \in 1 .. depth /\ (o + 1) - 1 = o
      BY <1>6, <3>2
    <3> QED
      BY Zenon, <1>10, <3>2, <3>3
  <2> QED
    BY <2>5, <2>6 DEF Paired
<1>14. f.inflight \cap new = {}
  BY <1>5, <1>12
<1>15. PICK st : st = Append(f.streams, s)
  BY Zenon
<1>16. g.streams = st /\ g.Q = f.Q \o w /\ g.inflight = f.inflight \cup new
  <2>1. g = [streams |-> st, Q |-> f.Q \o w, inflight |-> f.inflight \cup new]
    BY Zenon, <1>1, <1>3, <1>7, <1>9, <1>11, <1>15 DEF Fill
  <2> QED
    BY ONLY Zenon, <2>1
<1>17. /\ st \in Seq(Stream) /\ DOMAIN st = DOMAIN f.streams \cup {Len(f.streams) + 1}
       /\ \A i \in DOMAIN f.streams : st[i] = f.streams[i]
       /\ st[Len(f.streams) + 1] = s
  BY <1>4, <1>8, <1>15
<1>18. Exact(st)
  BY <1>2, <1>4, <1>8, <1>17 DEF Exact
<1>19. Aimed(st, f.inflight \cup new)
  BY <1>4, <1>5, <1>8, <1>12, <1>17 DEF Aimed
<1>20. Paired(f.inflight \cup new, f.Q \o w)
  BY Zenon, <1>4, <1>10, <1>13, <1>14, PairedConcat
<1>21. f.Q \o w \in Seq(Fetch)
  BY <1>4, <1>10
<1>22. Sound(g.streams, g.Q, g.inflight)
  BY Zenon, <1>4, <1>12, <1>16, <1>17, <1>18, <1>19, <1>20, <1>21 DEF Sound
<1>23. Owned(f.streams, f.inflight) => Owned(g.streams, g.inflight)
  BY <1>8, <1>12, <1>16, <1>17 DEF Owned
<1> QED
  BY <1>22, <1>23

\* DeleteStream takes a stream away, and leaves the reads into it.
LEMMA DeleteFacts ==
  ASSUME NEW st, NEW q, NEW fl, Sound(st, q, fl), NEW i \in DOMAIN st, NEW f,
         f = [streams |-> st, Q |-> q, inflight |-> fl], NEW g, g = DeleteStream(f, i)
  PROVE  g.Q = q /\ g.inflight = fl /\ Sound(g.streams, g.Q, g.inflight)
<1>1. /\ st \in Seq(Stream) /\ q \in Seq(Fetch) /\ fl \subseteq Read
      /\ Exact(st) /\ Aimed(st, fl) /\ Paired(fl, q)
  BY Zenon DEF Sound
<1>2. PICK e : e = Erase(st, i)
  OBVIOUS
<1>3. g.streams = e /\ g.Q = q /\ g.inflight = fl
  BY <1>2 DEF DeleteStream
<1>4. i \in 1 .. Len(st)
  BY <1>1
<1>5. e \in Seq(Stream) /\ Range(st) = Range(e) \cup {st[i]}
  BY Zenon, <1>1, <1>2, <1>4, EraseFacts
<1>6. \A j \in DOMAIN e : \E k \in DOMAIN st : e[j] = st[k]
  BY Zenon, <1>5 DEF Range
<1>7. Exact(e)
  BY Zenon, <1>1, <1>6 DEF Exact
<1>8. Aimed(e, fl)
  BY Zenon, <1>1, <1>6 DEF Aimed
<1> QED
  BY Zenon, <1>1, <1>3, <1>5, <1>7, <1>8 DEF Sound

\* The stream found for an address has it.
LEMMA FindFacts ==
  ASSUME Sizes, NEW f, f.streams \in Seq(Stream), NEW a \in Nat, NEW i, i = Find(f, a), i # 0
  PROVE  /\ i \in DOMAIN f.streams /\ f.streams[i] \in Stream
         /\ f.streams[i].base <= a /\ a < f.streams[i].base + 2 * depth
         /\ OffOf(f, i, a) \in Offs
<1>1. PICK holds : holds = {k \in DOMAIN f.streams :
                       f.streams[k].base <= a /\ a < f.streams[k].base + 2 * depth}
  BY Zenon
<1>2. holds # {} /\ i = CHOOSE k \in holds : \A j \in holds : k <= j
  BY Zenon, <1>1 DEF Find
<1>3. holds \subseteq Nat
  BY <1>1
<1>4. i \in holds
  BY Zenon, <1>2, <1>3, Least
<1>5. /\ i \in DOMAIN f.streams /\ f.streams[i] \in Stream
      /\ f.streams[i].base <= a /\ a < f.streams[i].base + 2 * depth
  BY <1>1, <1>4
<1>6. PICK b : b = f.streams[i].base
  OBVIOUS
<1>7. b \in Nat /\ depth \in Nat /\ b <= a /\ a < b + 2 * depth
  BY <1>5, <1>6 DEF Stream, Sizes
<1>8. (a - b) \div 2 \in 0 .. depth - 1
  BY ONLY <1>7, a \in Nat
<1> QED
  BY Zenon, <1>5, <1>6, <1>8 DEF OffOf, Offs

\* The word found for an address is the one that has it.
LEMMA AtFacts ==
  ASSUME Sizes, NEW f, f.streams \in Seq(Stream), Exact(f.streams), NEW a \in Nat,
         NEW i, i = Find(f, a), i # 0, Filled(f, i, a)
  PROVE  At(f, i, a) = Word(a - (a % 2))
<1>1. PICK b : b = f.streams[i].base
  OBVIOUS
<1>2. PICK o : o = OffOf(f, i, a)
  OBVIOUS
<1>3. i \in DOMAIN f.streams /\ f.streams[i] \in Stream /\ b <= a /\ o \in Offs
  BY Zenon, <1>1, <1>2, FindFacts
<1>4. At(f, i, a) = Word(b + 2 * o) /\ b % 2 = 0
  BY Zenon, <1>1, <1>2, <1>3 DEF Exact, Filled, At
<1>5. b \in Nat /\ o = (a - b) \div 2
  BY <1>1, <1>2, <1>3 DEF Stream, OffOf
<1>6. b + 2 * o = a - (a % 2)
  BY ONLY <1>3, <1>4, <1>5, a \in Nat
<1> QED
  BY Zenon, <1>4, <1>6

\* What InstFetch returns, aligned or not
LEMMA InstExact ==
  ASSUME Sizes, NEW f, f.streams \in Seq(Stream), Exact(f.streams), NEW h, NEW a \in Nat,
         IsAvail(f, h, a)
  PROVE  Inst(f, a) = Word(a)
<1>1. Find(f, a) # 0 /\ Filled(f, Find(f, a), a)
  BY Zenon DEF IsAvail
<1>2. At(f, Find(f, a), a) = Word(a - (a % 2))
  BY Zenon, <1>1, AtFacts
<1>3. CASE Unaligned(a)
  <2>1. a % 2 = 1 /\ a + 1 \in Nat /\ (a + 1) % 2 = 0
    BY <1>3 DEF Unaligned
  <2>2. Find(f, a + 1) # 0 /\ Filled(f, Find(f, a + 1), a + 1)
    BY Zenon, <1>3 DEF IsAvail, UpperFetched
  <2>3. At(f, Find(f, a + 1), a + 1) = Word((a + 1) - ((a + 1) % 2))
    BY Zenon, <2>1, <2>2, AtFacts
  <2>4. Word(a - (a % 2))[2] = a /\ Word((a + 1) - ((a + 1) % 2))[1] = a + 1
    BY <2>1 DEF Word
  <2> QED
    BY <1>2, <1>3, <2>3, <2>4 DEF Inst, Word
<1>4. CASE ~Unaligned(a)
  BY <1>2, <1>4 DEF Inst, Unaligned
<1> QED
  BY <1>3, <1>4

-----------------------------------------------------------------------------
(* The steps.                                                              *)

ITypes ==
  /\ PC \in [HartIDs -> Nat]
  /\ left \in [HartIDs -> 0 .. MaxInst]
  /\ HartToDecodeID \in HartIDs
  /\ loads \subseteq [Hart : HartIDs, Addr : DataAddrs, DestReg : DataRegs, n : 1 .. MaxInst]
  /\ InstQ \in Seq(CoProcInsts)
  /\ CoProcStallReq \in [HartIDs -> BOOLEAN]
  /\ waited \in 0 .. StallCycles + 1

ISound == Sound(streams, OutstandingFetchQ, inflight)
IOwned == Owned(streams, inflight)

IExact == fetched.inst = Word(fetched.at)

IFetch == ITypes /\ ISound /\ IOwned /\ IExact

\* The co-processor keeps to its own state.
LEMMA CoProcFacts ==
  ASSUME Sizes, ITypes, NEW q \in Seq(CoProcInsts), CoProcTick(q)
  PROVE  /\ InstQ' \in Seq(CoProcInsts) /\ CoProcStallReq' \in [HartIDs -> BOOLEAN]
         /\ waited' \in 0 .. StallCycles + 1
<1>1. InstQ' \in Seq(CoProcInsts)
  BY DEF CoProcTick
<1>2. waited' \in 0 .. StallCycles + 1
  BY DEF CoProcTick, ITypes, Sizes
<1>3. PICK b \in BOOLEAN : CoProcStallReq' = [CoProcStallReq EXCEPT ![0] = b]
  BY Zenon DEF CoProcTick
<1>4. CoProcStallReq' \in [HartIDs -> BOOLEAN]
  BY Zenon, <1>3 DEF ITypes
<1> QED
  BY <1>1, <1>2, <1>4

\* IsAvail fills what is missing, and deletes nothing.
LEMMA StallInv ==
  ASSUME Sizes, IFetch, NEW h \in HartIDs, Stall(h)
  PROVE  IFetch'
<1>1. PICK f : f = Prefetcher
  OBVIOUS
<1>2. f.streams = streams /\ f.Q = OutstandingFetchQ /\ f.inflight = inflight
  BY <1>1 DEF Prefetcher
<1>3. PC[h] \in Nat /\ PC[h] + 1 \in Nat
  BY DEF IFetch, ITypes
<1>4. Sound(f.streams, f.Q, f.inflight) /\ Owned(f.streams, f.inflight)
  BY Zenon, <1>2 DEF IFetch, ISound, IOwned
<1>5. PICK g : /\ g \in {f, Fill(f, h, PC[h]), Fill(f, h, PC[h] + 1)}
               /\ SetPrefetcher(g)
  BY Zenon, <1>1 DEF Stall, Started, FetchUpper
<1>6. Sound(g.streams, g.Q, g.inflight) /\ Owned(g.streams, g.inflight)
  <2>1. CASE g = f
    BY Zenon, <1>4, <2>1
  <2>2. CASE g = Fill(f, h, PC[h])
    BY Zenon, <1>3, <1>4, <2>2, FillFacts
  <2>3. CASE g = Fill(f, h, PC[h] + 1)
    <3>1. PICK a \in Nat : a = PC[h] + 1
      BY Zenon, <1>3
    <3>2. g = Fill(f, h, a)
      BY <2>3, <3>1
    <3> QED
      BY Zenon, <1>4, <3>2, FillFacts
  <2> QED
    BY Zenon, <1>5, <2>1, <2>2, <2>3
<1>7. ISound' /\ IOwned'
  BY Zenon, <1>5, <1>6 DEF SetPrefetcher, ISound, IOwned
<1>8. CoProcTick(InstQ) /\ UNCHANGED <<PC, left, HartToDecodeID, loads, fetched>>
  BY Zenon DEF Stall
<1>9. ITypes'
  <2>1. /\ InstQ' \in Seq(CoProcInsts) /\ CoProcStallReq' \in [HartIDs -> BOOLEAN]
        /\ waited' \in 0 .. StallCycles + 1
    BY Zenon, <1>8, CoProcFacts DEF IFetch, ITypes
  <2> QED
    BY Zenon, <1>8, <2>1 DEF IFetch, ITypes
<1>10. IExact'
  BY Zenon, <1>8 DEF IFetch, IExact
<1> QED
  BY Zenon, <1>7, <1>9, <1>10 DEF IFetch

\* With one hart, IsAvail lets an instruction through when no read is under way.
LEMMA NothingUnderWay ==
  ASSUME NumHarts = 1, IFetch, NEW h, NEW a, IsAvail(Prefetcher, h, a)
  PROVE  inflight = {}
<1>1. /\ OutstandingFetchQ \in Seq(Fetch) /\ inflight \subseteq Read
      /\ Paired(inflight, OutstandingFetchQ)
  BY Zenon DEF IFetch, ISound, Sound
<1>2. CASE OutstandingFetchQ = <<>>
  BY Zenon, <1>1, <1>2, PairedBack
<1>3. CASE OutstandingFetchQ # <<>>
  <2>1. PICK back : back = OutstandingFetchQ[Len(OutstandingFetchQ)]
    OBVIOUS
  <2>2. back \in Fetch
    BY <1>1, <1>3, <2>1
  <2>3. PICK r \in inflight : r.Addr = back.Addr
    BY Zenon, <1>1, <1>3, <2>1, PairedBack
  <2>4. \A x \in HartIDs : x = 0
    BY DEF HartIDs
  <2>5. r.Hart = 0 /\ back.Hart = 0
    BY <1>1, <2>2, <2>4 DEF Fetch, Read
  <2>6. ~LastFetchPending(Prefetcher)
    BY Zenon DEF IsAvail
  <2> QED
    BY <1>3, <2>1, <2>3, <2>5, <2>6 DEF LastFetchPending, Prefetcher
<1> QED
  BY <1>2, <1>3

\* The instruction moves its hart on, and perhaps sends a load.
LEMMA ExecuteFacts ==
  ASSUME Sizes, ITypes, NEW h \in HartIDs, h \in Busy, Execute(h)
  PROVE  /\ PC' \in [HartIDs -> Nat] /\ left' \in [HartIDs -> 0 .. MaxInst]
         /\ HartToDecodeID' \in HartIDs
         /\ loads' \subseteq [Hart : HartIDs, Addr : DataAddrs, DestReg : DataRegs, n : 1 .. MaxInst]
<1>1. PICK to : to \in {PC[h] + 1, PC[h] + 2} \cup Targets /\ PC' = [PC EXCEPT ![h] = to]
  BY Zenon DEF Execute
<1>2. PC' \in [HartIDs -> Nat]
  <2>1. to \in Nat
    BY <1>1 DEF ITypes, Sizes
  <2> QED
    BY Zenon, <1>1, <2>1 DEF ITypes
<1>3. left[h] \in 1 .. MaxInst /\ left' = [left EXCEPT ![h] = left[h] - 1]
  BY DEF Execute, Busy, ITypes, Sizes
<1>4. left' \in [HartIDs -> 0 .. MaxInst]
  <2>1. left[h] - 1 \in 0 .. MaxInst
    BY <1>3 DEF Sizes
  <2> QED
    BY Zenon, <1>3, <2>1 DEF ITypes
<1>5. HartToDecodeID' \in HartIDs
  BY Zenon DEF Execute, Busy, ITypes
<1>6. loads' \subseteq [Hart : HartIDs, Addr : DataAddrs, DestReg : DataRegs, n : 1 .. MaxInst]
  <2>1. CASE loads' = loads
    BY Zenon, <2>1 DEF ITypes
  <2>2. CASE \E a \in DataAddrs, d \in DataRegs :
               loads' = loads \cup {[Hart |-> h, Addr |-> a, DestReg |-> d, n |-> left[h]]}
    BY <1>3, <2>2 DEF ITypes
  <2> QED
    BY Zenon, <2>1, <2>2 DEF Execute, SendLoad
<1> QED
  BY <1>2, <1>4, <1>5, <1>6

\* The fetch of an instruction, which may delete the stream it came from
LEMMA DecodeInv ==
  ASSUME Sizes, NumHarts = 1, IFetch, NEW h \in HartIDs, h \in Busy, FetchAndDecodeInst(h)
  PROVE  IFetch'
<1>1. PICK f : f = Prefetcher
  OBVIOUS
<1>2. /\ f = [streams |-> streams, Q |-> OutstandingFetchQ, inflight |-> inflight]
      /\ f.streams = streams /\ f.Q = OutstandingFetchQ /\ f.inflight = inflight
  BY <1>1 DEF Prefetcher
<1>3. PC[h] \in Nat /\ PC[h] + 1 \in Nat /\ PC[h] + 2 \in Nat
  BY DEF IFetch, ITypes
<1>4. /\ Sound(f.streams, f.Q, f.inflight) /\ streams \in Seq(Stream) /\ Exact(streams)
      /\ Sound(streams, OutstandingFetchQ, inflight)
  BY Zenon, <1>2 DEF IFetch, ISound, Sound
<1>5. IsAvail(f, h, PC[h]) /\ SetPrefetcher(InstFetch(f, h, PC[h]))
  BY Zenon, <1>1 DEF FetchAndDecodeInst
<1>6. inflight = {}
  BY Zenon, <1>1, <1>5, NothingUnderWay
<1>7. PICK i : i = Find(f, PC[h])
  OBVIOUS
<1>8. i \in DOMAIN streams
  BY Zenon, <1>2, <1>3, <1>4, <1>5, <1>7, FindFacts DEF IsAvail
<1>9. PICK g : g = DeleteStream(f, i)
  OBVIOUS
<1>10. g.inflight = {} /\ Sound(g.streams, g.Q, g.inflight)
  <2>1. g.inflight = inflight /\ Sound(g.streams, g.Q, g.inflight)
    BY <1>2, <1>4, <1>8, <1>9, DeleteFacts
  <2> QED
    BY Zenon, <1>6, <2>1
<1>11. PICK n : n \in {f, Fill(g, h, PC[h] + 1)} /\ SetPrefetcher(n)
  BY Zenon, <1>5, <1>7, <1>9 DEF InstFetch
<1>12. Sound(n.streams, n.Q, n.inflight) /\ Owned(n.streams, n.inflight)
  <2>1. CASE n = f
    BY Zenon, <1>2, <1>4, <1>6, <2>1 DEF Owned
  <2>2. CASE n = Fill(g, h, PC[h] + 1)
    <3>1. Owned(g.streams, g.inflight)
      BY Zenon, <1>10 DEF Owned
    <3>2. PICK a \in Nat : a = PC[h] + 1
      BY Zenon, <1>3
    <3>3. n = Fill(g, h, a)
      BY <2>2, <3>2
    <3> QED
      BY Zenon, <1>10, <3>1, <3>3, FillFacts
  <2> QED
    BY Zenon, <1>11, <2>1, <2>2
<1>13. ISound' /\ IOwned'
  BY Zenon, <1>11, <1>12 DEF SetPrefetcher, ISound, IOwned
<1>14. IExact'
  <2>1. Inst(f, PC[h]) = Word(PC[h])
    BY Zenon, <1>2, <1>3, <1>4, <1>5, InstExact
  <2>2. fetched' = [at |-> PC[h], inst |-> Inst(f, PC[h])]
    BY Zenon, <1>1 DEF FetchAndDecodeInst
  <2> QED
    BY <2>1, <2>2 DEF IExact
<1>15. ITypes'
  <2>1. /\ PC' \in [HartIDs -> Nat] /\ left' \in [HartIDs -> 0 .. MaxInst]
        /\ HartToDecodeID' \in HartIDs
        /\ loads' \subseteq [Hart : HartIDs, Addr : DataAddrs, DestReg : DataRegs, n : 1 .. MaxInst]
    <3>1. CASE Depends(h)
      BY Zenon, <3>1 DEF Depends, IFetch, ITypes
    <3>2. CASE Execute(h)
      BY Zenon, <3>2, ExecuteFacts DEF IFetch
    <3> QED
      BY Zenon, <3>1, <3>2 DEF FetchAndDecodeInst
  <2>6. IssueInst(PC[h]) \in Seq(CoProcInsts)
    BY DEF IssueInst, IFetch, ITypes
  <2>7. /\ InstQ' \in Seq(CoProcInsts) /\ CoProcStallReq' \in [HartIDs -> BOOLEAN]
        /\ waited' \in 0 .. StallCycles + 1
    BY Zenon, <2>6, CoProcFacts DEF FetchAndDecodeInst, IFetch
  <2> QED
    BY Zenon, <2>1, <2>7 DEF ITypes
<1> QED
  BY Zenon, <1>13, <1>14, <1>15 DEF IFetch

\* An answer fills its word, and one entry with its address goes.
LEMMA AnswerInv ==
  ASSUME Sizes, IFetch, NEW r \in inflight, MarkFetchComplete(r)
  PROVE  IFetch'
<1>1. /\ streams \in Seq(Stream) /\ OutstandingFetchQ \in Seq(Fetch) /\ inflight \subseteq Read
      /\ Exact(streams) /\ Aimed(streams, inflight) /\ Paired(inflight, OutstandingFetchQ)
  BY Zenon DEF IFetch, ISound, Sound
<1>2. r.Off \in Offs /\ r.Addr \in Nat
  BY <1>1 DEF Read
<1>3. /\ inflight' = inflight \ {r}
      /\ streams' = [i \in DOMAIN streams |->
                       IF streams[i].id = r.id
                         THEN [streams[i] EXCEPT !.iStack[r.Off] = Word(r.Addr)]
                         ELSE streams[i]]
      /\ OutstandingFetchQ' = MarkInstructionLoadComplete(r.Addr)
      /\ UNCHANGED <<PC, left, HartToDecodeID, loads, fetched, InstQ, CoProcStallReq, waited>>
  BY Zenon DEF MarkFetchComplete
<1>4. PICK j \in DOMAIN OutstandingFetchQ : /\ OutstandingFetchQ[j].Addr = r.Addr
                                            /\ OutstandingFetchQ' = Erase(OutstandingFetchQ, j)
  <2>1. PICK same : same = {i \in DOMAIN OutstandingFetchQ : OutstandingFetchQ[i].Addr = r.Addr}
    BY Zenon
  <2>2. same # {}
    <3>1. PICK m \in Bijection(inflight, DOMAIN OutstandingFetchQ) :
                \A x \in inflight : OutstandingFetchQ[m[x]].Addr = x.Addr
      BY <1>1 DEF Paired
    <3>2. m[r] \in DOMAIN OutstandingFetchQ
      BY <3>1 DEF Bijection, Surjection
    <3> QED
      BY <2>1, <3>1, <3>2
  <2>3. same \subseteq Nat
    BY <1>1, <2>1
  <2>4. PICK j : j = CHOOSE i \in same : \A k \in same : i <= k
    OBVIOUS
  <2>5. j \in same
    BY Zenon, <2>2, <2>3, <2>4, Least
  <2>6. OutstandingFetchQ' = Erase(OutstandingFetchQ, j)
    BY Zenon, <1>3, <2>1, <2>2, <2>4 DEF MarkInstructionLoadComplete
  <2> QED
    BY <2>1, <2>5, <2>6
<1>5. Paired(inflight', OutstandingFetchQ')
  <2>1. Paired(inflight \ {r}, Erase(OutstandingFetchQ, j))
    BY Zenon, <1>1, <1>4, PairedErase
  <2> QED
    BY Zenon, <1>3, <1>4, <2>1
<1>6. OutstandingFetchQ' \in Seq(Fetch)
  <2>1. j \in 1 .. Len(OutstandingFetchQ)
    BY <1>1
  <2> QED
    BY Zenon, <1>1, <1>4, <2>1, EraseElements
<1>7. ASSUME NEW i \in DOMAIN streams
      PROVE  /\ streams'[i] \in Stream
             /\ streams'[i].id = streams[i].id /\ streams'[i].base = streams[i].base
             /\ \A o \in Offs : streams'[i].iStack[o]
                                 \in {REVPREF_INIT_ADDR, Word(streams[i].base + 2 * o)}
  <2>1. streams[i] \in Stream
    BY <1>1
  <2>2. \A o \in Offs : streams[i].iStack[o] \in {REVPREF_INIT_ADDR, Word(streams[i].base + 2 * o)}
    BY Zenon, <1>1 DEF Exact
  <2>3. CASE streams[i].id # r.id
    BY <1>3, <2>1, <2>2, <2>3
  <2>4. CASE streams[i].id = r.id
    <3>1. r.Addr = streams[i].base + 2 * r.Off
      BY Zenon, <1>1, <2>4 DEF Aimed
    <3>2. PICK s : s = streams[i]
      OBVIOUS
    <3>3. PICK t : t = [s EXCEPT !.iStack[r.Off] = Word(r.Addr)]
      BY Zenon
    <3>4. streams'[i] = t
      BY Zenon, <1>3, <2>4, <3>2, <3>3
    <3>5. Word(r.Addr) \in Nat \X Nat
      BY <1>2 DEF Word
    <3>6. /\ t \in Stream /\ t.id = s.id /\ t.base = s.base
          /\ \A o \in Offs : t.iStack[o] = IF o = r.Off THEN Word(r.Addr) ELSE s.iStack[o]
      BY <1>2, <2>1, <3>2, <3>3, <3>5 DEF Stream
    <3>7. \A o \in Offs : t.iStack[o] \in {REVPREF_INIT_ADDR, Word(streams[i].base + 2 * o)}
      BY Zenon, <2>2, <3>1, <3>2, <3>6
    <3> QED
      BY Zenon, <3>2, <3>4, <3>6, <3>7
  <2> QED
    BY Zenon, <2>3, <2>4
<1>8. streams' \in Seq(Stream) /\ DOMAIN streams' = DOMAIN streams
  <2>1. /\ DOMAIN streams' = 1 .. Len(streams) /\ Len(streams) \in Nat
        /\ DOMAIN streams = 1 .. Len(streams)
    BY <1>1, <1>3
  <2>2. streams' = [i \in 1 .. Len(streams) |-> streams'[i]]
    BY <1>3, <2>1
  <2>3. \A i \in 1 .. Len(streams) : streams'[i] \in Stream
    BY Zenon, <1>7, <2>1
  <2> QED
    BY <2>1, <2>2, <2>3
<1>9. Exact(streams')
  BY Zenon, <1>1, <1>7, <1>8 DEF Exact
<1>10. Aimed(streams', inflight')
  <2> SUFFICES ASSUME NEW x \in inflight', NEW i \in DOMAIN streams', streams'[i].id = x.id
               PROVE  x.Addr = streams'[i].base + 2 * x.Off
    BY Zenon DEF Aimed
  <2>1. x \in inflight /\ i \in DOMAIN streams
    BY <1>3, <1>8
  <2>2. streams[i].id = x.id /\ streams'[i].base = streams[i].base
    BY Zenon, <1>7, <2>1
  <2> QED
    BY Zenon, <1>1, <2>1, <2>2 DEF Aimed
<1>11. ISound'
  BY Zenon, <1>1, <1>3, <1>5, <1>6, <1>8, <1>9, <1>10 DEF ISound, Sound
<1>12. IOwned'
  <2> SUFFICES ASSUME NEW x \in inflight'
               PROVE  \E i \in DOMAIN streams' : streams'[i].id = x.id
    BY Zenon DEF IOwned, Owned
  <2>1. x \in inflight
    BY <1>3
  <2>2. PICK i \in DOMAIN streams : streams[i].id = x.id
    BY Zenon, <2>1 DEF IFetch, IOwned, Owned
  <2> QED
    BY Zenon, <1>7, <1>8, <2>2
<1>13. ITypes' /\ IExact'
  BY Zenon, <1>3 DEF IFetch, ITypes, IExact
<1> QED
  BY Zenon, <1>11, <1>12, <1>13 DEF IFetch

\* The answer to a data load that leaves OutstandingFetchQ alone
LEMMA DataInv ==
  ASSUME IFetch, NEW l \in loads, MarkDataComplete(l), ~clash'
  PROVE  IFetch'
<1>1. OutstandingFetchQ' = OutstandingFetchQ
  BY Zenon DEF MarkDataComplete
<1>2. loads' \subseteq [Hart : HartIDs, Addr : DataAddrs, DestReg : DataRegs, n : 1 .. MaxInst]
  BY Zenon DEF MarkDataComplete, IFetch, ITypes
<1>3. ITypes'
  BY Zenon, <1>2 DEF MarkDataComplete, IFetch, ITypes
<1> QED
  BY Zenon, <1>1, <1>3 DEF MarkDataComplete, IFetch, ISound, IOwned, IExact

\* The core and the memory system keep the invariant until a data load erases the
\* entry of a fetch, and the record of that stays.
LEMMA FetchInductive ==
  ASSUME Sizes, NumHarts = 1, ~clash => IFetch, [FetchNext]_procVars
  PROVE  ~clash' => IFetch'
<1> SUFFICES ASSUME ~clash' PROVE IFetch'
  OBVIOUS
<1>1. CASE UNCHANGED procVars
  BY Zenon, <1>1 DEF procVars, fetchVars, IFetch, ITypes, ISound, IOwned, IExact
<1>2. CASE ClockTick
  <2>1. ~clash
    BY Zenon, <1>2 DEF ClockTick, Stall, FetchAndDecodeInst
  <2> QED
    BY Zenon, <1>2, <2>1, StallInv, DecodeInv DEF ClockTick, Busy
<1>3. ASSUME NEW r \in inflight, MarkFetchComplete(r) PROVE IFetch'
  <2>1. ~clash
    BY Zenon, <1>3 DEF MarkFetchComplete
  <2> QED
    BY Zenon, <1>3, <2>1, AnswerInv
<1>4. ASSUME NEW l \in loads, MarkDataComplete(l) PROVE IFetch'
  <2>1. ~clash
    BY Zenon, <1>4 DEF MarkDataComplete
  <2> QED
    BY Zenon, <1>4, <2>1, DataInv
<1> QED
  BY Zenon, <1>1, <1>2, <1>3, <1>4 DEF FetchNext

LEMMA InitFetch ==
  ASSUME Sizes, NumHarts = 1, FetchInit
  PROVE  IFetch
<1>1. ITypes
  <2>1. PC \in [HartIDs -> Nat]
    <3>1. PC \in [HartIDs -> Targets] /\ Targets \subseteq Nat
      BY Zenon DEF FetchInit, Sizes
    <3>2. /\ \A h \in HartIDs : PC[h] \in Nat
          /\ DOMAIN PC = HartIDs /\ PC = [h \in DOMAIN PC |-> PC[h]]
      BY Zenon, <3>1
    <3> QED
      BY Zenon, <3>2
  <2>2. left \in [HartIDs -> 0 .. MaxInst]
    BY DEF FetchInit, Sizes
  <2>3. HartToDecodeID \in HartIDs
    BY DEF FetchInit, HartIDs
  <2>6. loads \subseteq [Hart : HartIDs, Addr : DataAddrs, DestReg : DataRegs, n : 1 .. MaxInst]
    BY Zenon DEF FetchInit
  <2>4. InstQ \in Seq(CoProcInsts) /\ CoProcStallReq \in [HartIDs -> BOOLEAN]
    BY DEF FetchInit
  <2>5. waited \in 0 .. StallCycles + 1
    BY DEF FetchInit, Sizes
  <2> QED
    BY Zenon, <2>1, <2>2, <2>3, <2>4, <2>5, <2>6 DEF ITypes
<1>2. ISound
  <2>1. Exact(<<>>) /\ Aimed(<<>>, {})
    BY DEF Exact, Aimed
  <2> QED
    BY <2>1, PairedNone DEF FetchInit, ISound, Sound
<1>3. IOwned /\ IExact
  BY DEF FetchInit, IOwned, Owned, IExact
<1> QED
  BY <1>1, <1>2, <1>3 DEF IFetch

LEMMA FetchHolds == ASSUME NumHarts = 1 PROVE FetchSpec => [](~clash => IFetch)
<1>1. FetchInit => (~clash => IFetch)
  BY SizeAssumption, InitFetch
<1>2. (~clash => IFetch) /\ [FetchNext]_procVars => (~clash => IFetch)'
  BY SizeAssumption, FetchInductive
<1> QED
  BY <1>1, <1>2, PTL DEF FetchSpec

-----------------------------------------------------------------------------
(* What it gives.                                                          *)

\* With one hart InstFetch hands the decoder the instruction at the PC, for any depth
\* of the streams, any jumps, any data loads and any order of the answers, until a data
\* load is answered that shares its address with a fetch under way.
THEOREM FetchCorrect == ASSUME NumHarts = 1 PROVE FetchSpec => []FetchExact
<1>1. (~clash => IFetch) => FetchExact
  BY Zenon DEF IFetch, IExact, FetchExact
<1> QED
  BY <1>1, FetchHolds, PTL

\* With one hart InstFetch deletes no stream while a read into it is under way: the
\* wait of IsAvail for the last entry of OutstandingFetchQ is a wait for all, unless
\* MarkInstructionLoadComplete took a data load for a fetch.
THEOREM StreamsKept == ASSUME NumHarts = 1 PROVE FetchSpec => []NoDangling
<1>1. (~clash => IFetch) => NoDangling
  BY Zenon DEF IFetch, IOwned, Owned, NoDangling
<1> QED
  BY <1>1, FetchHolds, PTL

\* With one hart OutstandingFetchQ has one entry for each read under way: the answer
\* to a read erases an entry of its address, and there are as many of each, unless a
\* data load erased one before.
THEOREM QueueCorrect == ASSUME NumHarts = 1 PROVE FetchSpec => []QueueExact
<1>1. ASSUME IFetch PROVE FetchTypeOK
  <2>1. streams \in Seq(Stream) /\ Exact(streams) /\ OutstandingFetchQ \in Seq(Fetch)
        /\ inflight \subseteq Read
    BY Zenon, <1>1 DEF IFetch, ISound, Sound
  <2>2. ASSUME NEW i \in DOMAIN streams
        PROVE  streams[i].id \in Nat /\ streams[i].base \in {2 * n : n \in 0 .. streams[i].base}
    <3>1. PICK b : b = streams[i].base
      OBVIOUS
    <3>2. streams[i].id \in Nat /\ b \in Nat /\ b % 2 = 0
      <4>1. streams[i] \in Stream
        BY <2>1
      <4>2. b % 2 = 0
        BY Zenon, <2>1, <3>1 DEF Exact
      <4> QED
        BY <3>1, <4>1, <4>2 DEF Stream
    <3>3. b \div 2 \in 0 .. b /\ b = 2 * (b \div 2)
      BY ONLY <3>2
    <3> QED
      BY Zenon, <3>1, <3>2, <3>3
  <2> QED
    BY Zenon, <1>1, <2>1, <2>2 DEF IFetch, ITypes, FetchTypeOK, Exact, Fetch, Read
<1>2. ASSUME IFetch, NEW h \in HartIDs, NEW a
      PROVE  Cardinality({r \in inflight : r.Hart = h /\ r.Addr = a})
               = Cardinality({i \in DOMAIN OutstandingFetchQ :
                                OutstandingFetchQ[i] = [Hart |-> h, Addr |-> a]})
  <2>1. PICK S : S = {r \in inflight : r.Hart = h /\ r.Addr = a}
    BY Zenon
  <2>2. PICK T : T = {i \in DOMAIN OutstandingFetchQ :
                        OutstandingFetchQ[i] = [Hart |-> h, Addr |-> a]}
    BY Zenon
  <2>3. /\ OutstandingFetchQ \in Seq(Fetch) /\ inflight \subseteq Read
        /\ Paired(inflight, OutstandingFetchQ)
    BY Zenon, <1>2 DEF IFetch, ISound, Sound
  <2>4. PICK m \in Bijection(inflight, DOMAIN OutstandingFetchQ) :
              \A r \in inflight : OutstandingFetchQ[m[r]].Addr = r.Addr
    BY <2>3 DEF Paired
  <2>5. /\ m \in [inflight -> DOMAIN OutstandingFetchQ]
        /\ \A r, s \in inflight : m[r] = m[s] => r = s
        /\ \A k \in DOMAIN OutstandingFetchQ : \E r \in inflight : m[r] = k
    BY <2>4, BijectionFacts
  <2>6. /\ \A r \in inflight : r.Hart = h
        /\ \A i \in DOMAIN OutstandingFetchQ :
             OutstandingFetchQ[i] = [Hart |-> h, Addr |-> a] <=> OutstandingFetchQ[i].Addr = a
    <3>1. \A x \in HartIDs : x = h
      BY <1>2 DEF HartIDs
    <3>2. \A i \in DOMAIN OutstandingFetchQ : OutstandingFetchQ[i] \in Fetch
      BY <2>3
    <3>3. \A e \in Fetch : e = [Hart |-> h, Addr |-> a] <=> e.Addr = a
      BY <3>1 DEF Fetch
    <3>4. \A r \in inflight : r.Hart = h
      BY <2>3, <3>1 DEF Read
    <3> QED
      BY Zenon, <3>2, <3>3, <3>4
  <2>7. PICK n : n = [r \in S |-> m[r]]
    BY Zenon
  <2>8. n \in Bijection(S, T)
    <3>1. n \in [S -> T] /\ \A r \in S : n[r] = m[r]
      BY <2>1, <2>2, <2>4, <2>5, <2>6, <2>7
    <3>2. \A r, s \in S : n[r] = n[s] => r = s
      BY ONLY <2>1, <2>5, <3>1
    <3>3. \A k \in T : \E r \in S : n[r] = k
      BY <2>1, <2>2, <2>4, <2>5, <2>6, <3>1
    <3> QED
      BY Zenon, <3>1, <3>2, <3>3, IsBijection
  <2>9. IsFiniteSet(S)
    <3>1. IsFiniteSet(inflight)
      BY Zenon, <2>3, PairedFinite
    <3> QED
      BY <2>1, <3>1, FS_Subset
  <2> QED
    BY Zenon, <2>1, <2>2, <2>8, <2>9, FS_Bijection DEF ExistsBijection
<1>3. (~clash => IFetch) => QueueExact
  BY Zenon, <1>1, <1>2 DEF QueueExact
<1> QED
  BY <1>3, FetchHolds, PTL
============================================================================
