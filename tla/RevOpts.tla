------------------------------- MODULE RevOpts -------------------------------
(***************************************************************************)
(* The options of the cores (src/RevOpts.cc): lists of strings such as     *)
(* "1:RV64GC" that RevCPU reads from its parameters.  A string is a        *)
(* sequence of tokens; a token is a colon or what stands between colons.   *)
(* The result of an Init function is the map from cores to values, or      *)
(* Fatal when it returns false or throws, which ends the program.          *)
(***************************************************************************)
EXTENDS Integers, Sequences, SequencesExt

CONSTANTS
  numCores,  \* number of cores
  Number     \* the value of every token that is a number

ASSUME CoresAssumption == numCores \in Nat \ {0}

OptCores == 0 .. numCores - 1
Fatal == [ok |-> FALSE, val |-> <<>>]
Done(val) == [ok |-> TRUE, val |-> val]

splitStr(s, c) ==
  IF s = <<>> THEN <<>>
  ELSE FoldLeft(LAMBDA v, x : IF x = c THEN Append(v, <<>>)
                              ELSE [v EXCEPT ![Len(v)] = Append(@, x)],
                <<<<>>>>, s)

Field(s, i) == splitStr(s, ":")[i]
IsNumber(f) == Len(f) = 1 /\ f[1] \in DOMAIN Number
stoul(f) == Number[f[1]]

\* The defaults of the constructor.
Defaults == [machine |-> [c \in OptCores |-> <<"G">>],
             table |-> [c \in OptCores |-> <<"_REV_INTERNAL_">>],
             startAddr |-> [c \in OptCores |-> <<"0">>],
             startSym |-> <<>>,
             prefetchDepth |-> [c \in OptCores |-> <<"16">>],
             memCosts |-> [c \in OptCores |-> <<0, 10>>]]

\* "core:value" for one core after the other; a later one replaces an
\* earlier one.  The test lets numCores itself through, for which machine and
\* table throw; what startAddr and prefetchDepth do then is undefined, and no
\* list for them names that core.
SetEach(map, list) ==
  FoldLeft(LAMBDA r, s :
             IF \/ ~r.ok
                \/ Len(splitStr(s, ":")) # 2
                \/ ~IsNumber(Field(s, 1))
                \/ stoul(Field(s, 1)) > numCores
                \/ stoul(Field(s, 1)) = numCores
             THEN Fatal
             ELSE Done([r.val EXCEPT ![stoul(Field(s, 1))] = Field(s, 2)]),
           Done(map), list)

\* "CORES:value" for all cores.
ForAll(list) ==
  Len(list) = 1 /\ Len(splitStr(list[1], ":")) = 2 /\ Field(list[1], 1) = <<"CORES">>

\* A plausible slip: only the first core gets the value.
SetAllFirst(map, list) == Done([map EXCEPT ![0] = Field(list[1], 2)])

SetAll(map, list) == Done([c \in DOMAIN map |-> Field(list[1], 2)])

InitMachineModels(list) ==
  IF ForAll(list) THEN SetAll(Defaults.machine, list)
  ELSE SetEach(Defaults.machine, list)

InitStartAddrs(list) ==
  IF ForAll(list)
  THEN IF IsNumber(Field(list[1], 2)) THEN SetAll(Defaults.startAddr, list) ELSE Fatal
  ELSE IF \E i \in DOMAIN list : Len(splitStr(list[i], ":")) = 2 /\ ~IsNumber(Field(list[i], 2))
       THEN Fatal ELSE SetEach(Defaults.startAddr, list)

InitInstTables(list) == SetEach(Defaults.table, list)

InitPrefetchDepth(list) ==
  IF \E i \in DOMAIN list : Len(splitStr(list[i], ":")) = 2 /\ ~IsNumber(Field(list[i], 2))
  THEN Fatal ELSE SetEach(Defaults.prefetchDepth, list)

\* The symbols are inserted: the first one for a core stays.
InitStartSymbols(list) ==
  FoldLeft(LAMBDA r, s :
             IF \/ ~r.ok
                \/ Len(splitStr(s, ":")) # 2
                \/ ~IsNumber(Field(s, 1))
                \/ stoul(Field(s, 1)) > numCores
             THEN Fatal
             ELSE Done([c \in DOMAIN r.val \cup {stoul(Field(s, 1))} |->
                          IF c \in DOMAIN r.val THEN r.val[c] ELSE Field(s, 2)]),
           Done(Defaults.startSym), list)

\* A core behind the last one is not tested for: its costs are written behind the
\* vector, which is undefined, and no list names such a core.
InitMemCosts(list) ==
  FoldLeft(LAMBDA r, s :
             IF \/ ~r.ok
                \/ Len(splitStr(s, ":")) # 3
                \/ \E i \in 1 .. 3 : ~IsNumber(Field(s, i))
                \/ \E i \in 2 .. 3 : stoul(Field(s, i)) = 0
             THEN Fatal
             ELSE Done([r.val EXCEPT ![stoul(Field(s, 1))] =
                          <<stoul(Field(s, 2)), stoul(Field(s, 3))>>]),
           Done(Defaults.memCosts), list)

Given(map, core) == core <= numCores /\ core \in DOMAIN map
=============================================================================
