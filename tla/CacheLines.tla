----------------------------- MODULE CacheLines -----------------------------
(***************************************************************************)
(* How a write is cut into pieces on its way to memory: by the loader,     *)
(* which writes cache lines (src/RevLoader.cc), and by the memory          *)
(* controller, which sends one request for each line (src/RevMemCtrl.cc).  *)
(* A piece is an offset into the data and a size.                          *)
(***************************************************************************)
EXTENDS Integers

VARIABLES    \* the configuration, which does not change
  lineSize,  \* size of a cache line that init finds, 0 when there is no cache
  ctrl       \* whether RevMem has a memory controller

hasCache == lineSize > 0
Smaller(a, b) == IF a < b THEN a ELSE b

getBaseCacheLineSize(Addr, Size) ==
  Smaller(Size, lineSize - (Addr % lineSize))

getNumCacheLines(Addr, Size) ==
  LET off == Addr % lineSize
  IN  IF off = 0
      THEN IF Size <= lineSize THEN 1 ELSE Size \div lineSize + 1
      ELSE IF Size <= lineSize - off THEN 1
      ELSE IF Size < lineSize THEN 2
      ELSE Size \div lineSize + (IF off > 1 THEN 1 ELSE 0)

\* The requests that one write becomes.  The first one ends with its line,
\* the others start where the one before ended.
buildCacheMemRqst(Addr, Size) ==
  LET NumLines == getNumCacheLines(Addr, Size)
      base == IF NumLines > 1 THEN getBaseCacheLineSize(Addr, Size) ELSE Size
      from(i) == Smaller(base + (i - 1) * lineSize, Size)
  IN  {<<0, base>>} \cup
      {<<from(i), Smaller(Size - from(i), lineSize)>> : i \in 1 .. NumLines - 1}

buildStandardMemRqst(Addr, Size) ==
  IF ctrl /\ hasCache THEN buildCacheMemRqst(Addr, Size) ELSE {<<0, Size>>}

\* The pieces the loader writes.  It runs in the constructor of RevCPU, before
\* init tells the controller the size of a line, so it always takes the default;
\* the requests wait in the controller, which cuts them with the real size.
Line == 64

\* The lines are not smaller than the loader takes them to be.  With smaller ones
\* a piece may be cut into more than two requests, and getNumCacheLines may be one
\* short: the end of the piece is then never sent.
LinesSuffice == ctrl /\ hasCache => lineSize >= Line

\* A plausible slip: the last line is left out when it is not full.
WriteCacheLineFullOnly(Addr, Size) ==
  LET first == Line - (Addr % Line)
  IN  IF Size = 0 THEN {}
      ELSE IF Size <= Line THEN {<<0, Size>>}
      ELSE {<<0, first>>} \cup
           {<<first + k * Line, Line>> : k \in 0 .. (Size - first) \div Line - 1}

WriteCacheLine(Addr, Size) ==
  LET first == Line - (Addr % Line)
      more == (Size - first + Line - 1) \div Line
  IN  IF Size = 0 THEN {}
      ELSE IF Size <= Line THEN {<<0, Size>>}
      ELSE {<<0, first>>} \cup
           {<<first + k * Line, Smaller(Line, Size - first - k * Line)>> :
              k \in 0 .. more - 1}

\* What reaches memory of a write of the loader, request by request.
Requests(Addr, Size) ==
  UNION {{<<p[1] + r[1], r[2]>> : r \in buildStandardMemRqst(Addr + p[1], p[2])} :
           p \in WriteCacheLine(Addr, Size)}
=============================================================================
