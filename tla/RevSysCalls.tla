----------------------------- MODULE RevSysCalls -----------------------------
(***************************************************************************)
(* The system calls that use the host (src/RevSysCalls.cc).  A call runs   *)
(* from the exception of an ecall instruction.  While it waits for memory  *)
(* it answers CONTINUE, the PC is rewound, and the same instruction raises *)
(* the same exception again; what was read so far is kept in the hart's    *)
(* EcallState.  Each read pretends to load a0, so that it has an entry in  *)
(* the load/store queue and sets the scoreboard bit of a0.  The calls      *)
(* about threads are in RevThreads, the ones about memory in RevHeap.      *)
(*                                                                         *)
(* The operating system of the host is external: its answers are chosen    *)
(* freely, except that a new file descriptor is the lowest free one.       *)
(***************************************************************************)
EXTENDS RevLoader

CONSTANTS
  Harts,     \* the harts, each with a thread of its own
  MaxCalls   \* bound: calls of each hart

VARIABLES
  X,          \* registers a0, a1, a2 and a7 of each hart
  atEcall,    \* the PC of the hart is at an ecall instruction
  EcallState, \* of each hart: string, bytesRead and buf
  LSQueue,    \* loads of a0 that are outstanding, of each hart
  Scoreboard, \* the harts with the bit of a0 set
  fildes,     \* file descriptors of each hart's thread
  completed,  \* and of the threads in CompletedThreads
  host,       \* open file descriptors and current directory of the host
  fatal,      \* output->fatal was called
  asked,      \* what each hart's program asked for in its last call
  served,     \* what the host was asked for in that call
  ncalls
callVars == <<X, atEcall, EcallState, LSQueue, Scoreboard, fildes, completed, host,
              fatal, asked, served, ncalls>>

NUL == <<"char", 0, 0>>
NoEcall == [string |-> <<>>, bytesRead |-> 0, buf |-> <<NUL>>]
NoCall == [code |-> 0, a0 |-> 0, bytes |-> <<>>]

\* InitEcallTable: the codes with a function.
Ecalls ==
  0 .. 138 \cup 140 .. 243 \cup 260 .. 294 \cup 403 .. 412 \cup {416} \cup 418 .. 420
  \cup 422 .. 440 \cup {500, 501, 1000, 1001}

getcwd == 17
mkdirat == 34
chdir == 49
openat == 56
close == 57
read == 63
write == 64
clock_gettime == 113
clock_gettime64 == 403
gettid == 178
cpuinfo == 500
perf_stats == 501

CallsTypeOK ==
  /\ DOMAIN X = Harts /\ atEcall \in [Harts -> BOOLEAN]
  /\ \A h \in Harts : EcallState[h].bytesRead \in {0, 1, 2, 4, 8}
  /\ \A h \in Harts : \A r \in LSQueue[h] : r.dest \in {"buf", "a0"} /\ r.size \in {1, 2, 4, 8}
  /\ Scoreboard \subseteq Harts /\ fatal \in BOOLEAN
  /\ \A h \in Harts : \A fd \in fildes[h] : fd \in Nat \cup {-1}

CallsInit ==
  /\ X = [h \in Harts |-> [a0 |-> 0, a1 |-> 0, a2 |-> 0, a7 |-> 0]]
  /\ atEcall = [h \in Harts |-> FALSE]
  /\ EcallState = [h \in Harts |-> NoEcall]
  /\ LSQueue = [h \in Harts |-> {}] /\ Scoreboard = {}
  /\ fildes = [h \in Harts |-> 0 .. 2] /\ completed = {}
  /\ host = [fds |-> 0 .. 2, cwd |-> <<>>]
  /\ fatal = FALSE
  /\ asked = [h \in Harts |-> NoCall] /\ served = [h \in Harts |-> NoCall]
  /\ ncalls = [h \in Harts |-> 0]

-----------------------------------------------------------------------------
Bytes(addr, n) == [k \in 1 .. n |-> At(addr + k - 1)]
Poke(addr, data) == Memory' = Arrived(Memory, buildStandardMemRqst(addr, Len(data)), addr, data)

Result(h, v) == X' = [X EXCEPT ![h].a0 = v]

\* What every call that succeeds does to the PC; in a call that reads memory,
\* also to EcallState and to the bit of a0.
Succeed(h) == atEcall' = [atEcall EXCEPT ![h] = FALSE]
Serve(h, fd, bytes) ==
  served' = [served EXCEPT ![h] = [code |-> X[h].a7, a0 |-> fd, bytes |-> bytes]]

DependencyClear(h) == Scoreboard' = Scoreboard \ {h}

clear(h) == EcallState' = [EcallState EXCEPT ![h].string = <<>>, ![h].bytesRead = 0]

\* A read of n bytes at addr into buf, after the string got to be s.
\* Without a controller it is over at once, and the bit of a0 is set after.
ReadVal(h, addr, n, s) ==
  /\ EcallState' = [EcallState EXCEPT ![h] =
       [string |-> s, bytesRead |-> n, buf |-> IF ctrl THEN @.buf ELSE Bytes(addr, n)]]
  /\ LSQueue' = IF ctrl
                THEN [LSQueue EXCEPT ![h] = @ \cup {[addr |-> addr, size |-> n, dest |-> "buf", val |-> 0]}]
                ELSE LSQueue
  /\ Scoreboard' = Scoreboard \cup {h}
  /\ UNCHANGED <<X, atEcall, fildes, host, served, Memory>>

Continue == UNCHANGED <<X, atEcall, EcallState, LSQueue, Scoreboard, fildes, host, served, Memory>>

Sofar(h) == EcallState[h].string \o SubSeq(EcallState[h].buf, 1, EcallState[h].bytesRead)

\* The host

LowestFD(fds) == Min((0 .. 1 + Cardinality(fds)) \ fds)

-----------------------------------------------------------------------------
\* What the calls with a path do once they have it.

\* Whatever descriptor the program passes, openat opens the current directory of
\* the host and asks for the file with that; the descriptor stays open.
CurrentDir == -100
doOpenat(h) ==
  \E dirfd \in {-1, LowestFD(host.fds)} :
    LET fds == host.fds \cup ({dirfd} \ {-1})
    IN  \E fd \in {-1, LowestFD(fds)} :
          /\ host' = [host EXCEPT !.fds = fds \cup ({fd} \ {-1})]
          /\ fildes' = [fildes EXCEPT ![h] = @ \cup {fd}]
          /\ Result(h, fd)

doMkdirat(h) == (\E rc \in {-1, 0} : Result(h, rc)) /\ UNCHANGED <<host, fildes>>

doChdir(h, path) ==
  /\ \/ Result(h, -1) /\ UNCHANGED host
     \/ Result(h, 0) /\ host' = [host EXCEPT !.cwd = path]
  /\ UNCHANGED fildes

action(h, path) ==
  /\ Serve(h, IF X[h].a7 = openat THEN CurrentDir ELSE X[h].a0, path)
  /\ \/ X[h].a7 = openat /\ doOpenat(h)
     \/ X[h].a7 = mkdirat /\ doMkdirat(h)
     \/ X[h].a7 = chdir /\ doChdir(h, path)

\* A plausible slip: a read is taken to be over when the call is run again.
EcallLoadAndParseStringNoWait(h, straddr) ==
  LET s == Sofar(h)
  IN  IF s # <<>> /\ Last(s) = NUL
      THEN action(h, Front(s)) /\ clear(h) /\ DependencyClear(h) /\ Succeed(h) /\ UNCHANGED <<LSQueue, Memory>>
      ELSE ReadVal(h, straddr + Len(s), 1, s)

EcallLoadAndParseString(h, straddr) ==
  LET s == Sofar(h)
  IN  IF LSQueue[h] # {} THEN Continue
      ELSE IF s # <<>> /\ Last(s) = NUL
      THEN action(h, Front(s)) /\ clear(h) /\ DependencyClear(h) /\ Succeed(h) /\ UNCHANGED <<LSQueue, Memory>>
      ELSE ReadVal(h, straddr + Len(s), 1, s)

ECALL_path(h) ==
  \/ X[h].a7 \in {openat, mkdirat} /\ EcallLoadAndParseString(h, X[h].a1)
  \/ X[h].a7 = chdir /\ EcallLoadAndParseString(h, X[h].a0)

ECALL_write(h) ==
  LET s == Sofar(h)
      nleft == X[h].a2 - Len(s)
  IN  /\ X[h].a7 = write
      /\ IF LSQueue[h] # {} THEN Continue
         ELSE IF nleft = 0
         THEN /\ Serve(h, X[h].a0, s)
              /\ \E rc \in {-1, Len(s)} : Result(h, rc)
              /\ clear(h) /\ DependencyClear(h) /\ Succeed(h)
              /\ UNCHANGED <<LSQueue, fildes, host, Memory>>
         ELSE ReadVal(h, X[h].a1 + Len(s), Max({n \in {1, 2, 4, 8} : n <= nleft}), s)

-----------------------------------------------------------------------------
\* The calls that are over at once.

Misuse(h) == X[h].a7 \in {close, read} /\ X[h].a0 \notin fildes[h]

\* A plausible slip: the thread keeps the descriptor it has closed.
ECALL_closeKeepsFD(h) ==
  /\ X[h].a7 = close /\ X[h].a0 \in fildes[h]
  /\ Serve(h, X[h].a0, <<>>)
  /\ host' = [host EXCEPT !.fds = @ \ {X[h].a0}]
  /\ Result(h, IF X[h].a0 \in host.fds THEN 0 ELSE -1)
  /\ Succeed(h)
  /\ UNCHANGED <<EcallState, LSQueue, Scoreboard, fildes, Memory>>

ECALL_close(h) ==
  /\ X[h].a7 = close /\ X[h].a0 \in fildes[h]
  /\ Serve(h, X[h].a0, <<>>)
  /\ host' = [host EXCEPT !.fds = @ \ {X[h].a0}]
  /\ fildes' = [fildes EXCEPT ![h] = @ \ {X[h].a0}]
  /\ Result(h, IF X[h].a0 \in host.fds THEN 0 ELSE -1)
  /\ Succeed(h)
  /\ UNCHANGED <<EcallState, LSQueue, Scoreboard, Memory>>

\* The whole buffer is written, whatever the host returned.
ECALL_read(h) ==
  /\ X[h].a7 = read /\ X[h].a0 \in fildes[h]
  /\ Serve(h, X[h].a0, <<>>)
  /\ \E rc \in {-1, X[h].a2} :
       /\ Poke(X[h].a1, [k \in 1 .. X[h].a2 |-> IF k <= rc THEN <<"input", k, 0>> ELSE NUL])
       /\ Result(h, rc)
  /\ Succeed(h)
  /\ UNCHANGED <<EcallState, LSQueue, Scoreboard, fildes, host>>

ECALL_getcwd(h) ==
  LET cwd == CString([k \in DOMAIN host.cwd |-> host.cwd[k][2]])
  IN  /\ X[h].a7 = getcwd
      /\ Poke(X[h].a0, [k \in 1 .. X[h].a1 |-> IF k <= Len(cwd) THEN cwd[k] ELSE <<"any", 0, 0>>])
      /\ UNCHANGED X

\* clock_gettime, cpuinfo and perf_stats fill a structure of 16 bytes (8 for
\* cpuinfo) and return 0.  (The constructor of RevCPU gives every core the time
\* converter without which clock_gettime returns EINVAL.)
ECALL_info(h) ==
  /\ X[h].a7 \in {clock_gettime, clock_gettime64, cpuinfo, perf_stats}
  /\ Poke(IF X[h].a7 \in {clock_gettime, clock_gettime64} THEN X[h].a1 ELSE X[h].a0,
          Word(X[h].a7, IF X[h].a7 = cpuinfo THEN 8 ELSE 16))
  /\ Result(h, 0)

ECALL_gettid(h) == X[h].a7 = gettid /\ Result(h, h + 1) /\ UNCHANGED Memory

\* Every other function of the table, but for the ones of RevThreads and
\* RevHeap: exit, brk, munmap, mmap, pthread_create and pthread_join.
Elsewhere == {93, 214, 215, 222, 1000, 1001}
Stub(h) ==
  /\ X[h].a7 \in Ecalls \ (Elsewhere \cup
       {getcwd, mkdirat, chdir, openat, close, read, write, clock_gettime, gettid,
        clock_gettime64, cpuinfo, perf_stats})
  /\ UNCHANGED <<X, Memory>>

ECALL_local(h) ==
  /\ ECALL_getcwd(h) \/ ECALL_info(h) \/ ECALL_gettid(h) \/ Stub(h)
  /\ Serve(h, X[h].a0, <<>>) /\ Succeed(h)
  /\ UNCHANGED <<EcallState, LSQueue, Scoreboard, fildes, host>>

\* The exception of the ecall instruction in ClockTick.
ExecEcall(h) ==
  /\ atEcall[h] /\ ~fatal
  /\ \/ ECALL_path(h) /\ UNCHANGED fatal
     \/ ECALL_write(h) /\ UNCHANGED fatal
     \/ ECALL_close(h) /\ UNCHANGED fatal
     \/ ECALL_read(h) /\ UNCHANGED fatal
     \/ ECALL_local(h) /\ UNCHANGED fatal
     \/ /\ Misuse(h) \/ X[h].a7 \notin Ecalls
        /\ fatal' = TRUE
        /\ Continue
  /\ UNCHANGED <<asked, ncalls, completed>>

-----------------------------------------------------------------------------
\* A plausible slip: the entry of the queue stays while its bit is cleared.
MarkLoadCompleteKeeps(h) ==
  /\ ~fatal
  /\ \E r \in LSQueue[h] :
       /\ LSQueue' = LSQueue
       /\ Scoreboard' = IF LSQueue[h] = {r} THEN Scoreboard \ {h} ELSE Scoreboard
       /\ IF r.dest = "buf"
          THEN EcallState' = [EcallState EXCEPT ![h].buf = Bytes(r.addr, r.size)] /\ UNCHANGED X
          ELSE Result(h, r.val) /\ UNCHANGED EcallState
  /\ UNCHANGED <<atEcall, fildes, completed, host, fatal, asked, served, ncalls, Memory>>

\* An answer of the memory controller.
MarkLoadComplete(h) ==
  /\ ~fatal
  /\ \E r \in LSQueue[h] :
       /\ LSQueue' = [LSQueue EXCEPT ![h] = @ \ {r}]
       /\ Scoreboard' = IF LSQueue[h] = {r} THEN Scoreboard \ {h} ELSE Scoreboard
       /\ IF r.dest = "buf"
          THEN EcallState' = [EcallState EXCEPT ![h].buf = Bytes(r.addr, r.size)] /\ UNCHANGED X
          ELSE Result(h, r.val) /\ UNCHANGED EcallState
  /\ UNCHANGED <<atEcall, fildes, completed, host, fatal, asked, served, ncalls, Memory>>

\* The program gets to an ecall instruction with its registers set for the
\* call c; an instruction that sets a0 waits for its bit.  A call that is
\* late has its a0 still on the way from memory: an ecall waits for nothing.
Enter(h, c, late) ==
  /\ ~atEcall[h] /\ ~fatal /\ ncalls[h] < MaxCalls[h]
  /\ LSQueue[h] = {} /\ h \notin Scoreboard
  /\ late => ctrl
  /\ X' = [X EXCEPT ![h] = [a0 |-> IF late THEN 0 ELSE c.a0, a1 |-> c.a1, a2 |-> c.a2, a7 |-> c.a7]]
  /\ LSQueue' = [LSQueue EXCEPT ![h] =
       IF late THEN {[addr |-> 0, size |-> 8, dest |-> "a0", val |-> c.a0]} ELSE {}]
  /\ Scoreboard' = IF late THEN Scoreboard \cup {h} ELSE Scoreboard
  /\ atEcall' = [atEcall EXCEPT ![h] = TRUE]
  /\ asked' = [asked EXCEPT ![h] = [code |-> c.a7, a0 |-> c.a0, bytes |-> c.bytes]]
  /\ ncalls' = [ncalls EXCEPT ![h] = @ + 1]
  /\ UNCHANGED <<EcallState, fildes, completed, host, fatal, served, Memory>>

\* The thread of the hart is done and kept among the completed ones, its
\* files with it; the hart gets another thread.
ThreadDone(h) ==
  /\ ~atEcall[h] /\ ~fatal /\ LSQueue[h] = {} /\ fildes[h] # 0 .. 2
  /\ completed' = completed \cup (fildes[h] \ 0 .. 2)
  /\ fildes' = [fildes EXCEPT ![h] = 0 .. 2]
  /\ UNCHANGED <<X, atEcall, EcallState, LSQueue, Scoreboard, host, fatal, asked, served, ncalls, Memory>>
=============================================================================
