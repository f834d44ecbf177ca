--------------------------- MODULE PlatformProofs ---------------------------
(***************************************************************************)
(* Proofs about what a configuration is made of: its build, health,        *)
(* metrics, buses, and the editors of its files. Every component is an     *)
(* instance by the names of its variables, in a section of its own, and    *)
(* its theorems hold of every value of its constants that its "...OK"      *)
(* admits.                                                                 *)
(***************************************************************************)
EXTENDS Integers, Sequences, FiniteSets, FiniteSetTheorems, WellFoundedInduction, TLAPS

CONSTANTS Configurations, Plugins, Contributors, Live, Notifiers, Readers,
  Asked, Main, Nobody, Process, Concurrent, Flaky, CacheTTL, MaxNow,
  Readyables, Lives, Listeners, ProbeRequests, ProbeOptions, ViewFlips,
  MetricConfigs, Callers, MaxValue, MaxPolls, BusConfigs, Messages, Hashes,
  MaxSends, MaxBusDrops, Edits, Editors, Files, MaxCrashes

VARIABLES cfg, phase, loaded, functions, consts, left, sorted, processed,
  alive, errors, h, handle, tasks, up, now, told, mount, served, meters,
  cache, view, series, waiting, flips, names, done, published, started, val,
  exported, call, poll, fault, polls, built, handles, subscribed, hash,
  sent, busq, current, queues, working, ended, dropped, busDropped,
  undelivered, editor, pc, base, work, temp, file, backup, version, lock,
  result, crashes, lost

-----------------------------------------------------------------------------
(* Numbers and sequences.                                                  *)

\* A set of naturals that is not empty has a least element.
LEMMA LeastOf ==
  ASSUME NEW C, C \subseteq Nat, C # {}
  PROVE  \E m \in C : \A j \in C : m <= j
<1>1. PICK m \in C : \A t \in C : ~(<<t, m>> \in OpToRel(<, Nat))
  BY NatLessThanWellFounded, WFMin
<1>2. \A j \in C : m <= j
  <2> SUFFICES ASSUME NEW j \in C, ~(m <= j) PROVE FALSE  OBVIOUS
  <2>1. j < m /\ j \in Nat /\ m \in Nat  OBVIOUS
  <2>2. <<j, m>> \in OpToRel(<, Nat)  BY <2>1, Zenon DEF OpToRel
  <2> QED BY <1>1, <2>2
<1> QED BY <1>2

\* What Head and Tail of a queue are.
LEMMA HeadOf ==
  ASSUME NEW S, NEW q \in Seq(S), q # << >>
  PROVE  /\ Head(q) = q[1] /\ Head(q) \in S /\ Tail(q) \in Seq(S) /\ Len(Tail(q)) = Len(q) - 1
         /\ \A i \in 1..Len(Tail(q)) : Tail(q)[i] = q[i + 1]
OBVIOUS

\* What a queue is after Append.
LEMMA AppendOf ==
  ASSUME NEW S, NEW q \in Seq(S), NEW x \in S
  PROVE  /\ Append(q, x) \in Seq(S) /\ Len(q) \in Nat /\ Len(Append(q, x)) = Len(q) + 1
         /\ \A i \in 1..(Len(q) + 1) : Append(q, x)[i] = IF i = Len(q) + 1 THEN x ELSE q[i]
OBVIOUS

\* Seq is monotone.
LEMMA SeqMonotone ==
  ASSUME NEW S, NEW T, S \subseteq T
  PROVE  Seq(S) \subseteq Seq(T)
<1>1. ASSUME NEW q \in Seq(S) PROVE q \in Seq(T)
  <2>1. Len(q) \in Nat /\ q \in [1..Len(q) -> T]  OBVIOUS
  <2> QED BY <2>1
<1> QED BY <1>1

-----------------------------------------------------------------------------
(* The build of a configuration.                                           *)

Build == INSTANCE ConfigBuild WITH
  Configs <- Configurations

\* The blocks of the files, in order.
BuildOK ==
  \A c \in Configurations : Len(c.blocks) \in Nat /\ DOMAIN c.blocks = 1..Len(c.blocks)

BuildEarly == {"vinit", "parse", "function", "editor", "procedure", "functy", "merge", "preprocess", "consts", "edges"}
BuildLate == {"process", "finish", "built"}
BuildOurs == {"preprocess", "consts", "edges", "sort"} \cup BuildLate

\* A block of the order stands behind what it waits for, and stands once.
BuildOrdered(s) ==
  /\ s \in Seq(Build!Blocks)
  /\ \A i, j \in 1..Len(s) : s[i] = s[j] => i = j
  /\ \A i \in 1..Len(s) : s[i] \in Build!Ids => \A d \in Build!Deps(s[i]) : \E j \in 1..(i - 1) : s[j] = d

BuildPlaced(s) == {s[i] : i \in 1..Len(s)}

\* What the sort has still before it, and what it ends with.
BuildLeft ==
  phase = "sort" =>
    /\ DOMAIN left = Build!Ids \ BuildPlaced(sorted)
    /\ \A b \in DOMAIN left : left[b] = Build!Deps(b) \ BuildPlaced(sorted)
BuildSorted ==
  phase \in BuildLate =>
    \/ Build!Circular /\ sorted = <<>> /\ errors = TRUE /\ phase = "process"
    \/ ~Build!Circular /\ BuildPlaced(sorted) = Build!Blocks

\* What is alive is what was processed without an error.
BuildAlive ==
  /\ alive \subseteq Build!Blocks
  /\ processed \in Seq(BOOLEAN) /\ Len(processed) <= Len(sorted)
  /\ phase \in BuildEarly \cup {"sort", "refused"} => alive = {}
  /\ phase \in BuildEarly \cup {"sort"} => Len(processed) = 0
  /\ phase \in BuildEarly => Len(sorted) = 0
  /\ phase \in BuildLate /\ errors = FALSE =>
       alive = {b \in {sorted[i] : i \in 1..Len(processed)} : ~cfg.blocks[b].disabled}
  /\ phase \in {"finish", "built"} => errors = FALSE /\ Len(processed) = Len(sorted)
  /\ phase \in {"edges", "sort"} => errors = FALSE

BuildInv ==
  /\ cfg \in Configurations /\ errors \in BOOLEAN
  /\ phase \in BuildEarly \cup BuildLate \cup {"sort", "refused"}
  /\ phase \in BuildOurs => \A n \in Plugins : functions[n] = "plugin"
  /\ BuildOrdered(sorted) /\ BuildLeft /\ BuildSorted /\ BuildAlive

LEMMA BuildFirst ==
  ASSUME NEW C, C \subseteq Nat, C # {}
  PROVE  Build!First(C) \in C
BY LeastOf DEF Build!First

\* The configuration does not change, nor what its blocks wait for.
LEMMA BuildSame ==
  ASSUME cfg' = cfg
  PROVE  /\ Build!Blocks' = Build!Blocks /\ Build!Ids' = Build!Ids /\ Build!Circular' = Build!Circular
         /\ \A b : Build!Deps(b)' = Build!Deps(b)
<1>1. Build!Blocks' = Build!Blocks  BY DEF Build!Blocks
<1>2. Build!Ids' = Build!Ids  BY <1>1 DEF Build!Ids
<1>3. \A n : Build!Owner(n)' = Build!Owner(n)  BY <1>1 DEF Build!Owner, Build!Named
<1>4. \A b : Build!Implicit(b)' = Build!Implicit(b)
  BY <1>1 DEF Build!Implicit, Build!Backends, Build!TracingBackends
<1>5. \A b : Build!Deps(b)' = Build!Deps(b)  BY <1>2, <1>3, <1>4 DEF Build!Deps
<1>6. Build!Circular' = Build!Circular  BY <1>2, <1>5 DEF Build!Circular, Build!HasCircle
<1> QED BY <1>1, <1>2, <1>5, <1>6

LEMMA BuildStays ==
  ASSUME UNCHANGED <<cfg, sorted>>, BuildOrdered(sorted)
  PROVE  BuildOrdered(sorted)'
<1>1. sorted' \in Seq(Build!Blocks') /\ \A i, j \in 1..Len(sorted') : sorted'[i] = sorted'[j] => i = j
  BY BuildSame DEF BuildOrdered
<1>2. ASSUME NEW i \in 1..Len(sorted'), sorted'[i] \in Build!Ids', NEW d \in Build!Deps(sorted[i])'
      PROVE  \E j \in 1..(i - 1) : sorted'[j] = d
  <2>1. d \in Build!Deps(sorted[i])
    BY <1>2, BuildSame
  <2> QED BY <1>2, <2>1, BuildSame DEF BuildOrdered
<1> QED BY <1>1, <1>2 DEF BuildOrdered

LEMMA BuildInit == BuildOK /\ Build!Init => BuildInv
<1> SUFFICES ASSUME Build!Init PROVE BuildInv  OBVIOUS
<1>1. /\ cfg \in Configurations /\ phase = "vinit" /\ sorted = <<>> /\ processed = <<>> /\ alive = {} /\ errors = FALSE
  BY Zenon DEF Build!Init
<1>2. BuildOrdered(sorted)  BY <1>1 DEF BuildOrdered
<1>3. BuildLeft /\ BuildSorted /\ BuildAlive
  BY <1>1 DEF BuildLeft, BuildSorted, BuildAlive, BuildEarly, BuildLate
<1> QED BY <1>1, <1>2, <1>3 DEF BuildInv, BuildEarly, BuildLate, BuildOurs

\* Before the blocks are sorted.
LEMMA BuildBefore ==
  ASSUME BuildInv, phase \in BuildEarly, UNCHANGED <<cfg, sorted, processed, alive>>, errors' \in BOOLEAN,
         phase' \in BuildEarly \cup {"refused"}, phase' = "edges" => errors' = FALSE,
         phase' \in BuildOurs => \A n \in Plugins : functions'[n] = "plugin"
  PROVE  BuildInv'
<1>1. BuildOrdered(sorted)'  BY BuildStays DEF BuildInv
<1>2. BuildLeft' /\ BuildSorted'  BY DEF BuildLeft, BuildSorted, BuildEarly, BuildLate
<1>3. BuildAlive'  BY BuildSame DEF BuildInv, BuildAlive, BuildEarly, BuildLate
<1> QED BY <1>1, <1>2, <1>3 DEF BuildInv

LEMMA BuildOver ==
  ASSUME NEW f, DOMAIN f \cap Plugins = {}
  PROVE  \A n \in Plugins : Build!Over([p \in Plugins |-> "plugin"], f)[n] = "plugin"
BY DEF Build!Over

LEMMA BuildHead ==
  BuildOK /\ BuildInv /\ (Build!Vinit \/ Build!Check \/ Build!Extract \/ Build!Merge \/ Build!SortConsts
                \/ (\E c \in Build!Consts : Build!Const(c)) \/ Build!ConstsEnd) => BuildInv'
<1> SUFFICES ASSUME BuildInv,
                    Build!Vinit \/ Build!Check \/ Build!Extract \/ Build!Merge \/ Build!SortConsts
                      \/ (\E c \in Build!Consts : Build!Const(c)) \/ Build!ConstsEnd
             PROVE  BuildInv'
  OBVIOUS
<1> USE DEF BuildEarly, BuildOurs, BuildLate
<1>1. CASE Build!Vinit
  <2>1. phase = "vinit" /\ phase' \in {"parse", "vinit", "refused"} /\ UNCHANGED <<cfg, sorted, processed, alive, errors>>
    BY <1>1 DEF Build!Vinit
  <2> QED BY <2>1, BuildBefore DEF BuildInv
<1>2. CASE Build!Check
  <2>1. phase \in {"parse", "preprocess"} /\ phase' \in {Build!After(phase), "refused"}
        /\ UNCHANGED <<cfg, functions, sorted, processed, alive, errors>>
    BY <1>2 DEF Build!Check
  <2>2. phase = "parse" => Build!After(phase) = "function"  BY DEF Build!After
  <2>3. phase = "preprocess" => Build!After(phase) = "consts"  BY DEF Build!After
  <2> QED BY <2>1, <2>2, <2>3, BuildBefore DEF BuildInv
<1>3. CASE Build!Extract
  <2>1. phase \in {"function", "editor", "procedure", "functy"} /\ phase' \in {Build!After(phase), "refused"}
        /\ UNCHANGED <<cfg, sorted, processed, alive, errors>>
    BY <1>3 DEF Build!Extract, Build!FunctionStages, Build!ToSet
  <2>2. Build!After(phase) \in {"editor", "procedure", "functy", "merge"}  BY <2>1 DEF Build!After
  <2> QED BY <2>1, <2>2, BuildBefore DEF BuildInv
<1>4. CASE Build!Merge
  <2>1. phase = "merge" /\ Build!After(phase) = "preprocess" /\ UNCHANGED <<cfg, sorted, processed, alive, errors>>
    BY <1>4 DEF Build!Merge, Build!After
  <2>2. \/ phase' = "preprocess" /\ DOMAIN functions \cap Plugins = {} /\ functions' = Build!Over([n \in Plugins |-> "plugin"], functions)
        \/ phase' = "refused"
    BY <1>4, <2>1 DEF Build!Merge, Build!Clashes
  <2>3. phase' \in BuildOurs => \A n \in Plugins : functions'[n] = "plugin"
    BY <2>2, BuildOver
  <2> QED BY <2>1, <2>2, <2>3, BuildBefore DEF BuildInv
<1>5. CASE Build!SortConsts
  <2>1. phase = "consts" /\ phase' = "refused" /\ UNCHANGED <<cfg, sorted, processed, alive, errors>>
    BY <1>5 DEF Build!SortConsts
  <2> QED BY <2>1, BuildBefore DEF BuildInv
<1>6. ASSUME NEW c \in Build!Consts, Build!Const(c) PROVE BuildInv'
  <2>1. phase = "consts" /\ errors' \in {errors, TRUE} /\ UNCHANGED <<cfg, phase, functions, sorted, processed, alive>>
    BY <1>6 DEF Build!Const
  <2> QED BY <2>1, BuildBefore DEF BuildInv
<1>7. CASE Build!ConstsEnd
  <2>1. phase = "consts" /\ Build!After(phase) = "edges" /\ UNCHANGED <<cfg, functions, sorted, processed, alive, errors>>
        /\ phase' = IF errors THEN "refused" ELSE Build!After(phase)
    BY <1>7 DEF Build!ConstsEnd, Build!After
  <2> QED BY <2>1, BuildBefore DEF BuildInv
<1> QED BY <1>1, <1>2, <1>3, <1>4, <1>5, <1>6, <1>7

LEMMA BuildEdges == BuildOK /\ BuildInv /\ Build!Edges => BuildInv'
<1> SUFFICES ASSUME BuildInv, Build!Edges PROVE BuildInv'  OBVIOUS
<1>1. /\ phase = "edges" /\ phase' = "sort" /\ left' = [b \in Build!Ids |-> Build!Deps(b)]
      /\ UNCHANGED <<cfg, functions, sorted, processed, alive, errors>>
  BY DEF Build!Edges, Build!After
<1>2. BuildOrdered(sorted)'  BY <1>1, BuildStays DEF BuildInv
<1>3. BuildPlaced(sorted) = {} /\ BuildPlaced(sorted)' = {}
  BY <1>1 DEF BuildInv, BuildAlive, BuildPlaced, BuildEarly, BuildOrdered
<1>4. BuildLeft'
  <2>1. DOMAIN left' = Build!Ids' /\ \A b \in DOMAIN left' : left'[b] = Build!Deps(b)'
    BY <1>1, BuildSame
  <2> QED BY <2>1, <1>3 DEF BuildLeft
<1>5. BuildSorted'  BY <1>1 DEF BuildSorted, BuildLate
<1>6. BuildAlive'  BY <1>1, BuildSame DEF BuildInv, BuildAlive, BuildEarly, BuildLate
<1> QED BY <1>1, <1>2, <1>4, <1>5, <1>6 DEF BuildInv, BuildEarly, BuildLate, BuildOurs

\* One more block behind those that have their place.
LEMMA BuildAppends ==
  ASSUME NEW s, BuildOrdered(s), NEW b \in Build!Blocks \ BuildPlaced(s),
         b \in Build!Ids => Build!Deps(b) \subseteq BuildPlaced(s)
  PROVE  BuildOrdered(Append(s, b)) /\ BuildPlaced(Append(s, b)) = BuildPlaced(s) \cup {b}
<1> DEFINE t == Append(s, b)
<1>1. /\ t \in Seq(Build!Blocks) /\ Len(s) \in Nat /\ Len(t) = Len(s) + 1
      /\ \A i \in 1..(Len(s) + 1) : t[i] = IF i = Len(s) + 1 THEN b ELSE s[i]
  BY AppendOf DEF BuildOrdered
<1> HIDE DEF t
<1>n. \A n \in Nat : \A i \in 1..(n + 1) : i \in 1..n \/ i = n + 1
  OBVIOUS
<1>m. \A n \in Nat : \A i \in 1..n : i \in 1..(n + 1) /\ i # n + 1 /\ n + 1 \in 1..(n + 1)
  OBVIOUS
<1>k. \A n \in Nat : 1..((n + 1) - 1) = 1..n
  OBVIOUS
<1>2. BuildPlaced(t) = BuildPlaced(s) \cup {b}
  <2>1. \A i \in 1..Len(s) : t[i] = s[i] /\ i \in 1..Len(t)  BY <1>1
  <2>2. t[Len(t)] = b /\ Len(t) \in 1..Len(t)  BY <1>1
  <2>3. \A i \in 1..Len(t) : i \in 1..Len(s) \/ i = Len(t)  BY <1>1, <1>n
  <2> QED BY <2>1, <2>2, <2>3 DEF BuildPlaced
<1>3. ASSUME NEW i \in 1..Len(t), NEW j \in 1..Len(t), t[i] = t[j] PROVE i = j
  <2>1. \A x \in 1..Len(s) : s[x] # b  BY DEF BuildPlaced
  <2> QED BY <1>1, <1>3, <1>n, <2>1 DEF BuildOrdered
<1>4. ASSUME NEW i \in 1..Len(t), t[i] \in Build!Ids, NEW d \in Build!Deps(t[i]) PROVE \E j \in 1..(i - 1) : t[j] = d
  <2>1. CASE i \in 1..Len(s)
    <3>1. t[i] = s[i]  BY <1>1, <2>1, <1>m
    <3>2. PICK j \in 1..(i - 1) : s[j] = d  BY <1>4, <2>1, <3>1 DEF BuildOrdered
    <3>3. j \in 1..Len(s)  BY <2>1, <1>1
    <3> QED BY <3>2, <3>3, <1>1, <1>m
  <2>2. CASE i = Len(s) + 1
    <3>1. t[i] = b  BY <1>1, <2>2
    <3>2. d \in BuildPlaced(s)  BY <1>4, <3>1
    <3>3. PICK j \in 1..Len(s) : s[j] = d  BY <3>2 DEF BuildPlaced
    <3>4. j \in 1..(i - 1)  BY <2>2, <1>1, <1>k
    <3> QED BY <3>3, <3>4, <1>1, <1>m
  <2> QED BY <1>1, <1>n, <2>1, <2>2
<1>5. BuildOrdered(t)  BY <1>1, <1>3, <1>4 DEF BuildOrdered
<1> QED BY <1>2, <1>5 DEF t

\* A turn of the sort appends one block; what is left waits for one less.
LEMMA BuildTurn ==
  ASSUME BuildInv, phase = "sort", UNCHANGED <<cfg, phase, functions, processed, alive, errors>>,
         NEW b \in Build!Blocks \ BuildPlaced(sorted), b \in Build!Ids => Build!Deps(b) \subseteq BuildPlaced(sorted),
         sorted' = Append(sorted, b),
         DOMAIN left' = DOMAIN left \ {b}, \A x \in DOMAIN left' : left'[x] = left[x] \ {b}
  PROVE  BuildInv'
<1>1. BuildOrdered(sorted') /\ BuildPlaced(sorted') = BuildPlaced(sorted) \cup {b}
  BY BuildAppends DEF BuildInv
<1>2. BuildOrdered(sorted)'
  <2> DEFINE t == Append(sorted, b)
  <2>1. BuildOrdered(t) /\ t = sorted'  BY <1>1
  <2> HIDE DEF t
  <2>2. sorted' \in Seq(Build!Blocks') /\ \A i, j \in 1..Len(sorted') : sorted'[i] = sorted'[j] => i = j
    BY <2>1, BuildSame DEF BuildOrdered
  <2>3. ASSUME NEW i \in 1..Len(sorted'), sorted'[i] \in Build!Ids', NEW d \in Build!Deps(sorted[i])'
        PROVE  \E j \in 1..(i - 1) : sorted'[j] = d
    <3>1. t[i] \in Build!Ids /\ i \in 1..Len(t)  BY <2>1, <2>3, BuildSame
    <3>2. \A x : Build!Deps(x)' = Build!Deps(x)  BY BuildSame
    <3>3. Build!Deps(sorted[i])' = Build!Deps(t[i])
      <4>1. cfg' = cfg  OBVIOUS
      <4> QED BY <2>1, <4>1 DEF Build!Deps, Build!Owner, Build!Named, Build!Implicit, Build!Backends, Build!TracingBackends,
                        Build!Ids, Build!Blocks
    <3>4. d \in Build!Deps(t[i])  BY <2>3, <3>3
    <3>5. BuildOrdered(t)  BY <2>1
    <3>6. \E j \in 1..(i - 1) : t[j] = d  BY <3>1, <3>4, <3>5 DEF BuildOrdered
    <3> QED BY <2>1, <3>6
  <2> QED BY <2>2, <2>3 DEF BuildOrdered
<1>3. BuildLeft'
  <2>1. BuildPlaced(sorted)' = BuildPlaced(sorted) \cup {b}
    BY <1>1 DEF BuildPlaced
  <2>2. DOMAIN left = Build!Ids \ BuildPlaced(sorted) /\ \A x \in DOMAIN left : left[x] = Build!Deps(x) \ BuildPlaced(sorted)
    BY DEF BuildInv, BuildLeft
  <2>3. DOMAIN left' = Build!Ids' \ BuildPlaced(sorted)'
    BY <2>1, <2>2, BuildSame
  <2>4. \A x \in DOMAIN left' : left'[x] = Build!Deps(x) \ BuildPlaced(sorted)'
    BY <2>1, <2>2
  <2>5. \A x \in DOMAIN left' : left'[x] = Build!Deps(x)' \ BuildPlaced(sorted)'
    BY <2>4, BuildSame
  <2> QED BY <2>3, <2>5 DEF BuildLeft
<1>4. BuildSorted'  BY DEF BuildSorted, BuildLate
<1>5. BuildAlive'
  <2>1. Len(sorted') = Len(sorted) + 1 /\ Len(sorted) \in Nat
    BY DEF BuildInv, BuildOrdered
  <2> QED BY <2>1, BuildSame DEF BuildInv, BuildAlive, BuildEarly, BuildLate
<1> QED BY <1>2, <1>3, <1>4, <1>5 DEF BuildInv, BuildEarly, BuildLate, BuildOurs

LEMMA BuildBlocks == BuildOK /\ BuildInv => Build!Blocks \subseteq Nat
BY DEF BuildOK, BuildInv, Build!Blocks

LEMMA BuildSortStep == BuildOK /\ BuildInv /\ (Build!SortStep \/ Build!SortRest) => BuildInv'
<1> SUFFICES ASSUME BuildOK, BuildInv, Build!SortStep \/ Build!SortRest PROVE BuildInv'  OBVIOUS
<1>0. Build!Blocks \subseteq Nat /\ Build!Ids \subseteq Build!Blocks  BY BuildBlocks DEF Build!Ids
<1>p. Build!ToSet(sorted) = BuildPlaced(sorted)
  BY DEF Build!ToSet, BuildPlaced, BuildInv, BuildOrdered
<1>1. CASE Build!SortStep
  <2>1. /\ phase = "sort" /\ Build!Available # {} /\ UNCHANGED <<cfg, phase, functions, processed, alive, errors>>
        /\ sorted' = Append(sorted, Build!First(Build!Available))
        /\ left' = [x \in DOMAIN left \ {Build!First(Build!Available)} |-> left[x] \ {Build!First(Build!Available)}]
    BY <1>1 DEF Build!SortStep
  <2>2. /\ DOMAIN left = Build!Ids \ BuildPlaced(sorted)
        /\ \A x \in DOMAIN left : left[x] = Build!Deps(x) \ BuildPlaced(sorted)
    BY <2>1 DEF BuildInv, BuildLeft
  <2>3. Build!Available \subseteq DOMAIN left /\ \A x \in Build!Available : left[x] = {}
    BY DEF Build!Available
  <2>4. Build!First(Build!Available) \in Build!Available
    BY <1>0, <2>1, <2>2, <2>3, BuildFirst
  <2> DEFINE b == Build!First(Build!Available)
  <2>5. b \in Build!Blocks \ BuildPlaced(sorted) /\ Build!Deps(b) \subseteq BuildPlaced(sorted)
    BY <1>0, <2>2, <2>3, <2>4
  <2>6. sorted' = Append(sorted, b) /\ left' = [x \in DOMAIN left \ {b} |-> left[x] \ {b}]
    BY <2>1
  <2> HIDE DEF b
  <2> QED BY <2>1, <2>5, <2>6, BuildTurn
<1>2. CASE Build!SortRest
  <2>1. /\ phase = "sort" /\ DOMAIN left = {} /\ Build!Unordered # {}
        /\ UNCHANGED <<cfg, phase, functions, left, processed, alive, errors>>
        /\ sorted' = Append(sorted, Build!First(Build!Unordered))
    BY <1>2 DEF Build!SortRest
  <2>2. Build!Unordered = (Build!Blocks \ Build!Ids) \ BuildPlaced(sorted)
    BY <1>p DEF Build!Unordered
  <2>3. Build!First(Build!Unordered) \in Build!Unordered
    BY <1>0, <2>1, <2>2, BuildFirst
  <2> DEFINE b == Build!First(Build!Unordered)
  <2>4. b \in Build!Blocks \ BuildPlaced(sorted) /\ b \notin Build!Ids /\ sorted' = Append(sorted, b)
    BY <2>1, <2>2, <2>3
  <2> HIDE DEF b
  <2>5. DOMAIN left' = DOMAIN left \ {b} /\ \A x \in DOMAIN left' : left'[x] = left[x] \ {b}
    BY <2>1
  <2> QED BY <2>1, <2>4, <2>5, BuildTurn
<1> QED BY <1>1, <1>2

\* Nothing is available: every block stands, or those left wait in a circle,
\* and one that waits in a circle never becomes available.
LEMMA BuildSortEnds == BuildOK /\ BuildInv /\ Build!SortEnds => BuildInv'
<1> SUFFICES ASSUME BuildOK, BuildInv, Build!SortEnds PROVE BuildInv'  OBVIOUS
<1>0. Build!Ids \subseteq Build!Blocks /\ \A x : Build!Deps(x) \subseteq Build!Ids
  BY DEF Build!Ids, Build!Deps
<1>p. Build!ToSet(sorted) = BuildPlaced(sorted)
  BY DEF Build!ToSet, BuildPlaced, BuildInv, BuildOrdered
<1>1. /\ phase = "sort" /\ Build!Available = {} /\ (DOMAIN left = {} => Build!Unordered = {}) /\ phase' = "process"
      /\ IF DOMAIN left = {} THEN sorted' = sorted /\ errors' = errors ELSE sorted' = <<>> /\ errors' = TRUE
      /\ UNCHANGED <<cfg, functions, processed, alive>>
  BY DEF Build!SortEnds, Build!After
<1>2. /\ DOMAIN left = Build!Ids \ BuildPlaced(sorted)
      /\ \A x \in DOMAIN left : left[x] = Build!Deps(x) \ BuildPlaced(sorted)
  BY <1>1 DEF BuildInv, BuildLeft
<1>3. \A x \in DOMAIN left : left[x] # {}
  BY <1>1 DEF Build!Available
<1>4. \A x \in DOMAIN left : Build!Deps(x) \cap DOMAIN left # {}
  BY <1>0, <1>2, <1>3
<1>5. DOMAIN left # {} => Build!Circular
  BY <1>2, <1>4 DEF Build!Circular, Build!HasCircle
<1>6. ASSUME Build!Circular, DOMAIN left = {} PROVE FALSE
  <2>1. PICK C \in SUBSET Build!Ids : C # {} /\ \A n \in C : Build!Deps(n) \cap C # {}
    BY <1>6 DEF Build!Circular, Build!HasCircle
  <2>2. C \subseteq BuildPlaced(sorted)  BY <1>2, <1>6
  <2> DEFINE P == {i \in 1..Len(sorted) : sorted[i] \in C}
  <2>3. P \subseteq Nat /\ P # {}  BY <2>1, <2>2 DEF BuildPlaced
  <2>4. ASSUME NEW i \in P PROVE \E j \in P : j < i
    <3>1. PICK d \in Build!Deps(sorted[i]) : d \in C  BY <2>1
    <3>2. PICK j \in 1..(i - 1) : sorted[j] = d
      BY <2>1, <3>1 DEF BuildInv, BuildOrdered
    <3>3. i \in 1..Len(sorted) /\ Len(sorted) \in Nat  BY DEF BuildInv, BuildOrdered
    <3>4. j \in 1..Len(sorted) /\ j < i  BY <3>2, <3>3
    <3> QED BY <3>1, <3>2, <3>4
  <2> HIDE DEF P
  <2>5. PICK m \in P : \A t \in P : ~(<<t, m>> \in OpToRel(<, Nat))
    BY <2>3, NatLessThanWellFounded, WFMin
  <2>6. PICK j \in P : j < m  BY <2>4
  <2>7. <<j, m>> \in OpToRel(<, Nat)  BY <2>3, <2>6, Zenon DEF OpToRel
  <2> QED BY <2>5, <2>7
<1>7. BuildLeft'  BY <1>1 DEF BuildLeft
<1>8. CASE DOMAIN left = {}
  <2>1. BuildOrdered(sorted)'  BY <1>1, <1>8, BuildStays DEF BuildInv
  <2>2. BuildPlaced(sorted) = Build!Blocks
    <3>1. BuildPlaced(sorted) \subseteq Build!Blocks  BY DEF BuildInv, BuildOrdered, BuildPlaced
    <3>2. (Build!Blocks \ Build!Ids) \ BuildPlaced(sorted) = {}  BY <1>1, <1>8, <1>p DEF Build!Unordered
    <3> QED BY <1>2, <1>8, <3>1, <3>2
  <2>3. BuildPlaced(sorted)' = BuildPlaced(sorted)  BY <1>1, <1>8 DEF BuildPlaced
  <2>4. BuildSorted'  BY <1>1, <1>6, <1>8, <2>2, <2>3, BuildSame DEF BuildSorted
  <2>5. processed = <<>>  BY <1>1 DEF BuildInv, BuildAlive
  <2>6. BuildAlive'
    <3>1. {sorted'[i] : i \in 1..Len(processed')} = {}  BY <1>1, <2>5
    <3> QED BY <1>1, <1>8, <2>5, <3>1, BuildSame DEF BuildInv, BuildAlive, BuildEarly, BuildLate
  <2> QED BY <1>1, <1>7, <1>8, <2>1, <2>4, <2>6 DEF BuildInv, BuildEarly, BuildLate, BuildOurs
<1>9. CASE DOMAIN left # {}
  <2>1. sorted' = <<>> /\ errors' = TRUE  BY <1>1, <1>9
  <2>2. BuildOrdered(sorted)'  BY <2>1 DEF BuildOrdered
  <2>3. BuildSorted'  BY <1>1, <1>5, <1>9, <2>1, BuildSame DEF BuildSorted
  <2>4. BuildAlive'
    <3>1. Len(processed) = 0 /\ alive = {} /\ processed \in Seq(BOOLEAN)  BY <1>1 DEF BuildInv, BuildAlive
    <3> QED BY <1>1, <2>1, <3>1 DEF BuildAlive, BuildEarly, BuildLate
  <2> QED BY <1>1, <1>7, <2>1, <2>2, <2>3, <2>4 DEF BuildInv, BuildEarly, BuildLate, BuildOurs
<1> QED BY <1>8, <1>9

LEMMA BuildTail == BuildOK /\ BuildInv /\ (Build!Process \/ Build!ProcessEnds \/ Build!Finish) => BuildInv'
<1> SUFFICES ASSUME BuildOK, BuildInv, Build!Process \/ Build!ProcessEnds \/ Build!Finish PROVE BuildInv'  OBVIOUS
<1>0. phase \in {"process", "finish"} /\ UNCHANGED <<cfg, functions, left, sorted>>
  BY DEF Build!Process, Build!ProcessEnds, Build!Finish
<1>1. BuildOrdered(sorted)'  BY <1>0, BuildStays DEF BuildInv
<1>2. BuildPlaced(sorted)' = BuildPlaced(sorted)  BY <1>0 DEF BuildPlaced
<1>l. Len(sorted) \in Nat /\ Len(processed) \in Nat /\ sorted \in Seq(Build!Blocks)
  BY DEF BuildInv, BuildOrdered, BuildAlive
<1>3. CASE Build!Process
  <2>1. phase = "process" /\ phase' = "process" /\ Len(processed) < Len(sorted)
    BY <1>3 DEF Build!Process
  <2> DEFINE b == sorted[Len(processed) + 1]
  <2>2. b \in Build!Blocks
    <3>1. Len(processed) + 1 \in 1..Len(sorted)  BY <1>l, <2>1
    <3> QED BY <1>l, <3>1
  <2>3. \/ cfg.blocks[b].disabled /\ processed' = Append(processed, TRUE) /\ alive' = alive /\ errors' = errors
        \/ ~cfg.blocks[b].disabled /\ processed' = Append(processed, TRUE) /\ alive' = alive \cup {b} /\ errors' = errors
        \/ processed' = Append(processed, FALSE) /\ errors' = TRUE /\ alive' = alive
    BY <1>3 DEF Build!Process
  <2>4. {sorted[i] : i \in 1..(Len(processed) + 1)} = {sorted[i] : i \in 1..Len(processed)} \cup {b}
    <3> DEFINE n == Len(processed)
    <3>1. n \in Nat  BY <1>l
    <3> HIDE DEF n
    <3>2. 1..(n + 1) = 1..n \cup {n + 1}  BY <3>1
    <3> QED BY <3>2 DEF n
  <2> DEFINE placed == {sorted[i] : i \in 1..Len(processed)}
  <2>5. /\ processed' \in Seq(BOOLEAN) /\ Len(processed') = Len(processed) + 1
    <3>1. processed \in Seq(BOOLEAN)  BY DEF BuildInv, BuildAlive
    <3>2. \E x \in BOOLEAN : processed' = Append(processed, x)  BY <2>3
    <3> QED BY <3>1, <3>2, AppendOf
  <2>6. {sorted'[i] : i \in 1..Len(processed')} = placed \cup {b}
    BY <1>0, <2>4, <2>5
  <2>7. errors = FALSE => alive = {x \in placed : ~cfg.blocks[x].disabled}
    BY <2>1 DEF BuildInv, BuildAlive, BuildLate
  <2>8. alive \subseteq Build!Blocks /\ errors \in BOOLEAN
    BY DEF BuildInv, BuildAlive
  <2> HIDE DEF b, placed
  <2>9. errors' \in BOOLEAN /\ alive' \subseteq Build!Blocks  BY <2>2, <2>3, <2>8
  <2>10. errors' = FALSE => alive' = {x \in placed \cup {b} : ~cfg.blocks[x].disabled}
    BY <2>3, <2>7, <2>8
  <2>11. Len(processed') <= Len(sorted')  BY <1>l, <1>0, <2>1, <2>5
  <2>12. BuildAlive'
    <3>1. alive' \subseteq Build!Blocks'  BY <1>0, <2>9, BuildSame
    <3>2. errors' = FALSE => alive' = {x \in {sorted'[i] : i \in 1..Len(processed')} : ~cfg'.blocks[x].disabled}
      BY <1>0, <2>6, <2>10
    <3> QED BY <2>1, <2>5, <2>11, <3>1, <3>2 DEF BuildAlive, BuildEarly
  <2>13. BuildSorted'
    <3>1. Build!Circular /\ sorted = <<>> => FALSE  BY <1>l, <2>1
    <3> QED BY <1>0, <1>2, <2>1, <3>1, BuildSame DEF BuildInv, BuildSorted, BuildLate
  <2>14. BuildLeft'  BY <2>1 DEF BuildLeft
  <2>15. \A n \in Plugins : functions'[n] = "plugin"
    BY <1>0, <2>1 DEF BuildInv, BuildOurs, BuildLate
  <2> QED BY <1>0, <1>1, <2>1, <2>9, <2>12, <2>13, <2>14, <2>15 DEF BuildInv, BuildLate
<1>4. CASE Build!ProcessEnds
  <2>1. phase = "process" /\ Len(processed) = Len(sorted) /\ UNCHANGED <<processed, errors>>
        /\ phase' = (IF errors THEN "refused" ELSE "finish") /\ alive' = IF errors THEN {} ELSE alive
    BY <1>4 DEF Build!ProcessEnds, Build!Discarded, Build!After
  <2>2. BuildAlive'
    BY <1>0, <2>1, BuildSame DEF BuildInv, BuildAlive, BuildEarly, BuildLate
  <2>3. BuildSorted'
    BY <1>0, <1>2, <2>1, BuildSame DEF BuildInv, BuildSorted, BuildLate
  <2>4. BuildLeft'  BY <2>1 DEF BuildLeft
  <2>5. \A n \in Plugins : functions'[n] = "plugin"
    BY <1>0, <2>1 DEF BuildInv, BuildOurs, BuildLate
  <2> QED BY <1>0, <1>1, <2>1, <2>2, <2>3, <2>4, <2>5 DEF BuildInv, BuildLate
<1>5. CASE Build!Finish
  <2>1. phase = "finish" /\ UNCHANGED <<processed, errors>>
        /\ ((phase' = "built" /\ alive' = alive) \/ (phase' = "refused" /\ alive' = {}))
    BY <1>5 DEF Build!Finish, Build!Discarded, Build!After
  <2>2. BuildAlive'
    BY <1>0, <2>1, BuildSame DEF BuildInv, BuildAlive, BuildEarly, BuildLate
  <2>3. BuildSorted'
    BY <1>0, <1>2, <2>1, BuildSame DEF BuildInv, BuildSorted, BuildLate
  <2>4. BuildLeft'  BY <2>1 DEF BuildLeft
  <2>5. \A n \in Plugins : functions'[n] = "plugin"
    BY <1>0, <2>1 DEF BuildInv, BuildOurs, BuildLate
  <2> QED BY <1>0, <1>1, <2>1, <2>2, <2>3, <2>4, <2>5 DEF BuildInv, BuildLate
<1> QED BY <1>3, <1>4, <1>5

LEMMA BuildInvariance == BuildOK => (Build!Spec => []BuildInv)
<1> SUFFICES ASSUME BuildOK PROVE Build!Spec => []BuildInv  OBVIOUS
<1>1. Build!Init => BuildInv  BY BuildInit
<1>2. BuildInv /\ [Build!Next]_(Build!vars) => BuildInv'
  <2>1. CASE Build!Next
    <3>1. CASE Build!Vinit \/ Build!Check \/ Build!Extract \/ Build!Merge \/ Build!SortConsts
                \/ (\E c \in Build!Consts : Build!Const(c)) \/ Build!ConstsEnd
      BY <3>1, BuildHead
    <3>2. CASE Build!Edges  BY <3>2, BuildEdges
    <3>3. CASE Build!SortStep \/ Build!SortRest  BY <3>3, BuildSortStep
    <3>4. CASE Build!SortEnds  BY <3>4, BuildSortEnds
    <3>5. CASE Build!Process \/ Build!ProcessEnds \/ Build!Finish  BY <3>5, BuildTail
    <3> QED BY Zenon, <2>1, <3>1, <3>2, <3>3, <3>4, <3>5 DEF Build!Next
  <2>2. CASE UNCHANGED Build!vars
    <3> SUFFICES ASSUME BuildInv PROVE BuildInv'  OBVIOUS
    <3>1. UNCHANGED <<cfg, phase, functions, left, sorted, processed, alive, errors>>  BY <2>2 DEF Build!vars
    <3>2. BuildOrdered(sorted)'  BY <3>1, BuildStays DEF BuildInv
    <3>3. BuildPlaced(sorted)' = BuildPlaced(sorted)  BY <3>1 DEF BuildPlaced
    <3>4. BuildLeft'
      <4>1. phase = "sort" => DOMAIN left' = Build!Ids' \ BuildPlaced(sorted)'
        BY <3>1, <3>3, BuildSame DEF BuildInv, BuildLeft
      <4>2. phase = "sort" => \A b \in DOMAIN left' : left'[b] = Build!Deps(b) \ BuildPlaced(sorted)'
        BY <3>1, <3>3 DEF BuildInv, BuildLeft
      <4>3. phase = "sort" => \A b \in DOMAIN left' : left'[b] = Build!Deps(b)' \ BuildPlaced(sorted)'
        BY <4>2, <3>1, BuildSame
      <4> QED BY <3>1, <4>1, <4>3 DEF BuildLeft
    <3>5. BuildSorted'  BY <3>1, <3>3, BuildSame DEF BuildInv, BuildSorted
    <3>6. BuildAlive'  BY <3>1, BuildSame DEF BuildInv, BuildAlive
    <3> QED BY <3>1, <3>2, <3>4, <3>5, <3>6 DEF BuildInv
  <2> QED BY <2>1, <2>2
<1> QED BY <1>1, <1>2, PTL DEF Build!Spec

\* For every configuration: a refused build has nothing alive, one that is
\* placed has every block that is not disabled (discardFailed).
THEOREM BuildRefusedLeavesNothing == BuildOK => (Build!Spec => []Build!RefusedLeavesNothing)
<1> SUFFICES ASSUME BuildOK PROVE Build!Spec => []Build!RefusedLeavesNothing  OBVIOUS
<1>1. BuildInv => Build!RefusedLeavesNothing
  <2> SUFFICES ASSUME BuildInv PROVE Build!RefusedLeavesNothing  OBVIOUS
  <2>1. phase = "refused" => alive = {}  BY DEF BuildInv, BuildAlive
  <2>2. ASSUME phase = "built" PROVE alive = {b \in Build!Blocks : ~cfg.blocks[b].disabled}
    <3>1. errors = FALSE /\ Len(processed) = Len(sorted)  BY <2>2 DEF BuildInv, BuildAlive
    <3>2. BuildPlaced(sorted) = Build!Blocks  BY <2>2 DEF BuildInv, BuildSorted, BuildLate
    <3>3. alive = {b \in {sorted[i] : i \in 1..Len(processed)} : ~cfg.blocks[b].disabled}
      BY <2>2, <3>1 DEF BuildInv, BuildAlive, BuildLate
    <3> QED BY <3>1, <3>2, <3>3 DEF BuildPlaced
  <2> QED BY <2>1, <2>2 DEF Build!RefusedLeavesNothing
<1> QED BY <1>1, BuildInvariance, PTL

\* For every configuration: a block is processed after all it refers to and
\* after the backends it would pick (SortBlocksByDependencies).
THEOREM BuildReferencesFirst == BuildOK => (Build!Spec => []Build!ReferencesFirst)
<1> SUFFICES ASSUME BuildOK PROVE Build!Spec => []Build!ReferencesFirst  OBVIOUS
<1>1. BuildInv => Build!ReferencesFirst
  <2> SUFFICES ASSUME BuildInv, NEW i \in DOMAIN processed, cfg.blocks[sorted[i]].ordered,
                      NEW d \in Build!Deps(sorted[i])
               PROVE  \E j \in 1..(i - 1) : sorted[j] = d
    BY DEF Build!ReferencesFirst
  <2>1. i \in 1..Len(sorted) /\ sorted \in Seq(Build!Blocks)
    BY DEF BuildInv, BuildAlive, BuildOrdered
  <2>2. sorted[i] \in Build!Ids  BY <2>1 DEF Build!Ids
  <2> QED BY <2>1, <2>2 DEF BuildInv, BuildOrdered
<1> QED BY <1>1, BuildInvariance, PTL

\* For every configuration: the sort gives up on those that refer in a circle
\* and on no other, and puts every block of the others in one place.
THEOREM BuildSortComplete == BuildOK => (Build!Spec => []Build!SortComplete)
<1> SUFFICES ASSUME BuildOK PROVE Build!Spec => []Build!SortComplete  OBVIOUS
<1>1. BuildInv => Build!SortComplete
  <2> SUFFICES ASSUME BuildInv, phase \in BuildLate
               PROVE  IF Build!Circular THEN sorted = <<>>
                      ELSE Build!ToSet(sorted) = Build!Blocks /\ \A i, j \in DOMAIN sorted : sorted[i] = sorted[j] => i = j
    BY DEF Build!SortComplete, BuildLate
  <2>1. sorted \in Seq(Build!Blocks) /\ DOMAIN sorted = 1..Len(sorted)  BY DEF BuildInv, BuildOrdered
  <2>2. Build!ToSet(sorted) = BuildPlaced(sorted)  BY <2>1 DEF Build!ToSet, BuildPlaced
  <2> QED BY <2>1, <2>2 DEF BuildInv, BuildSorted, BuildOrdered
<1> QED BY <1>1, BuildInvariance, PTL

\* What a block refers to by name.
BuildWritten(b) == UNION {Build!Owner(n) : n \in cfg.blocks[b].refs}

\* For every configuration: the references that nobody wrote, to the backends,
\* never close a circle (addImplicitDependencies).
THEOREM BuildNoSpuriousCircle == BuildOK => (Build!Spec => []Build!NoSpuriousCircle)
<1> SUFFICES ASSUME BuildOK PROVE Build!Spec => []Build!NoSpuriousCircle  OBVIOUS
<1>1. BuildInv => Build!NoSpuriousCircle
  <2> SUFFICES ASSUME BuildInv, phase = "process", ~Build!HasCircle(Build!Blocks, Build!Explicit),
                      \A b \in Build!Backends : cfg.blocks[b].refs = {}
               PROVE  sorted # <<>> \/ Build!Blocks = {}
    BY DEF Build!NoSpuriousCircle
  <2>1. ASSUME Build!Circular PROVE FALSE
    <3>1. PICK C \in SUBSET Build!Ids : C # {} /\ \A n \in C : Build!Deps(n) \cap C # {}
      BY <2>1 DEF Build!Circular, Build!HasCircle
    <3>0. C \subseteq Build!Blocks  BY DEF Build!Ids
    <3>d. \A b : Build!Deps(b) = (BuildWritten(b) \cup Build!Implicit(b)) \cap Build!Ids
      BY DEF Build!Deps, BuildWritten
    <3>2. ASSUME NEW b \in C, b \in Build!Backends PROVE FALSE
      <4>1. BuildWritten(b) = {}  BY <3>2 DEF BuildWritten
      <4>2. Build!Implicit(b) \cap C # {}  BY <3>1, <3>d, <4>1
      <4>3. cfg.blocks[b].kind = "metrics"
        BY <3>2, <4>2 DEF Build!Backends, Build!Implicit
      <4>4. Build!Implicit(b) = Build!TracingBackends  BY <4>3 DEF Build!Implicit
      <4>5. PICK d \in C : d \in Build!TracingBackends  BY <4>2, <4>4
      <4>6. cfg.blocks[d].kind = "otlp" /\ d \in Build!Backends
        BY <4>5, <3>0 DEF Build!TracingBackends, Build!Backends
      <4>7. Build!Deps(d) = {}
        BY <4>6 DEF Build!Deps, Build!Implicit
      <4> QED BY <3>1, <4>5, <4>7
    <3>3. ASSUME NEW n \in C PROVE Build!Explicit[n] \cap C # {}
      <4>1. Build!Implicit(n) \subseteq Build!Backends
        BY <3>0 DEF Build!Implicit, Build!Backends, Build!TracingBackends
      <4>2. Build!Deps(n) \cap C \subseteq BuildWritten(n)
        BY <4>1, <3>2, <3>d
      <4>3. Build!Explicit[n] = BuildWritten(n)
        BY <3>0 DEF Build!Explicit, BuildWritten
      <4> QED BY <3>1, <4>2, <4>3
    <3> QED BY <3>0, <3>1, <3>3 DEF Build!HasCircle
  <2>2. BuildPlaced(sorted) = Build!Blocks  BY <2>1 DEF BuildInv, BuildSorted, BuildLate
  <2> QED BY <2>2 DEF BuildPlaced
<1> QED BY <1>1, BuildInvariance, PTL

\* For every configuration: once it is built, the program's own functions are
\* what their names call (GetFunctions).
THEOREM BuildPluginsStand == BuildOK => (Build!Spec => []Build!PluginsStand)
<1> SUFFICES ASSUME BuildOK PROVE Build!Spec => []Build!PluginsStand  OBVIOUS
<1>1. BuildInv => Build!PluginsStand
  BY DEF BuildInv, Build!PluginsStand, BuildOurs, BuildLate
<1> QED BY <1>1, BuildInvariance, PTL

LEMMA BuildTypeCorrect == BuildOK => (Build!Spec => []Build!TypeOK)
<1> SUFFICES ASSUME BuildOK PROVE Build!Spec => []Build!TypeOK  OBVIOUS
<1>1. BuildInv => Build!TypeOK
  BY DEF BuildInv, BuildAlive, BuildOrdered, Build!TypeOK, Build!ToSet
<1> QED BY <1>1, BuildInvariance, PTL

-----------------------------------------------------------------------------
(* Health.                                                                 *)

Readiness == INSTANCE Health

HealthOK ==
  /\ Notifiers \subseteq Contributors /\ Contributors # {}
  /\ Readers \cap Contributors = {} /\ Main \notin Readers \cup Contributors
  /\ Nobody \notin Readers /\ Process \notin Contributors
  /\ Asked \subseteq Readiness!Probe /\ MaxNow \in Nat
  /\ Concurrent \in BOOLEAN /\ Flaky \in BOOLEAN

\* One call at a time, and Ready tells the truth.
HealthSerial == ~Concurrent /\ ~Flaky

HealthReport == {Readiness!NoResults} \cup [Contributors -> BOOLEAN]
HealthState ==
  [state : {"starting", "serving", "draining"}, results : HealthReport, computedAt : 0..MaxNow,
   inflight : Readers \cup {Nobody}, observed : [Readiness!Probe -> {"unknown", "passing", "failing"}],
   since : [Contributors \cup {Process} -> Readiness!Since]]
HealthTask ==
  [at : Readiness!Stage, probe : Readiness!Probe, force : BOOLEAN, gate : BOOLEAN, res : Readiness!Results,
   shared : BOOLEAN, value : BOOLEAN, from : 0..MaxNow, steady : SUBSET Notifiers]

HealthTypes ==
  /\ h \in HealthState
  /\ handle \in [known : BOOLEAN, value : BOOLEAN]
  /\ tasks \in [Readiness!Callers -> HealthTask]
  /\ \A x \in Readiness!Callers : tasks[x].at # "probing" => tasks[x].res \in HealthReport
  /\ up \in [Contributors -> BOOLEAN] /\ now \in 0..MaxNow
  /\ told \in [base : BOOLEAN, net : Int]
  /\ \A x \in Readiness!Callers \ Readers : tasks[x].at \in {"idle", "observe", "notify", "report"}

HealthInv == HealthTypes /\ Readiness!SingleFlight

\* One call at a time: what it read of a notifier is what that is now.
HealthAlone ==
  /\ \A x, y \in Readiness!Callers : tasks[x].at # "idle" /\ tasks[y].at # "idle" => x = y
  /\ \A x \in Readiness!Callers : \A c \in Notifiers \cap DOMAIN tasks[x].res :
        tasks[x].at # "idle" => tasks[x].res[c] = up[c]
  /\ \A c \in Notifiers \cap DOMAIN h.results : tasks[c].at # "report" => h.results[c] = up[c]
  /\ \A c \in Notifiers : tasks[c].at = "report" => tasks[c].value = up[c]

LEMMA HealthResults ==
  /\ Readiness!NoResults \in Readiness!Results /\ DOMAIN Readiness!NoResults = {}
  /\ \A res \in HealthReport : res \in Readiness!Results /\ (res = Readiness!NoResults \/ DOMAIN res = Contributors)
  /\ \A res \in Readiness!Results : DOMAIN res \subseteq Contributors /\ \A c \in DOMAIN res : res[c] \in BOOLEAN
  /\ \A res \in Readiness!Results : DOMAIN res = Contributors => res \in HealthReport
<1>1. Readiness!NoResults \in Readiness!Results /\ DOMAIN Readiness!NoResults = {}
  BY DEF Readiness!NoResults, Readiness!Results
<1>2. \A res \in [Contributors -> BOOLEAN] : res \in Readiness!Results
  BY DEF Readiness!Results
<1>3. \A res \in Readiness!Results : \E S \in SUBSET Contributors : res \in [S -> BOOLEAN]
  BY DEF Readiness!Results
<1> QED BY <1>1, <1>2, <1>3 DEF HealthReport

LEMMA HealthSince ==
  ASSUME NEW stamps \in [Contributors \cup {Process} -> Readiness!Since], NEW v, NEW t \in 0..MaxNow,
         \A k \in DOMAIN v : v[k] \in BOOLEAN
  PROVE  Readiness!NoteSince(stamps, v, t) \in [Contributors \cup {Process} -> Readiness!Since]
<1>1. \A k \in DOMAIN v : [ready |-> v[k], at |-> t] \in Readiness!Since
  BY DEF Readiness!Since
<1> QED BY <1>1 DEF Readiness!NoteSince

LEMMA HealthInit == HealthOK /\ Readiness!Init => HealthInv
<1> SUFFICES ASSUME HealthOK, Readiness!Init PROVE HealthInv  OBVIOUS
<1>1. /\ tasks = [x \in Readiness!Callers |-> Readiness!Idle] /\ handle = [known |-> FALSE, value |-> FALSE]
      /\ up \in [Contributors -> BOOLEAN] /\ now = 0 /\ told = [base |-> FALSE, net |-> 0]
      /\ h = [state |-> "starting", results |-> Readiness!NoResults, computedAt |-> 0,
              inflight |-> Nobody, observed |-> [p \in Readiness!Probe |-> "unknown"],
              since |-> [k \in Contributors \cup {Process} |-> Readiness!Never]]
  BY Zenon DEF Readiness!Init
<1>2. 0 \in 0..MaxNow  BY DEF HealthOK
<1>3. h \in HealthState
  BY <1>1, <1>2 DEF HealthState, HealthReport, Readiness!Since
<1>4. Readiness!Idle \in HealthTask /\ Readiness!Idle.at = "idle" /\ Readiness!Idle.res = Readiness!NoResults
  BY <1>2, HealthResults DEF HealthTask, Readiness!Idle, Readiness!Stage, Readiness!Probe
<1>5. HealthTypes
  BY <1>1, <1>2, <1>3, <1>4 DEF HealthTypes, HealthReport
<1>6. Readiness!SingleFlight
  BY <1>1, <1>4 DEF Readiness!SingleFlight, Readiness!Standing, Readiness!Callers, HealthOK
<1> QED BY <1>5, <1>6 DEF HealthInv

LEMMA HealthFields ==
  ASSUME NEW t \in HealthTask
  PROVE  /\ t.at \in Readiness!Stage /\ t.probe \in Readiness!Probe /\ t.force \in BOOLEAN /\ t.gate \in BOOLEAN
         /\ t.res \in Readiness!Results /\ t.shared \in BOOLEAN /\ t.value \in BOOLEAN /\ t.from \in 0..MaxNow
         /\ t.steady \in SUBSET Notifiers
BY DEF HealthTask

\* What the parts of the code that change one call's task make of it.
LEMMA HealthAsked ==
  ASSUME NEW t \in HealthTask, NEW probe \in Readiness!Probe, NEW f \in BOOLEAN, NEW g \in BOOLEAN, NEW a \in Readiness!Stage,
         NEW s \in SUBSET Notifiers
  PROVE  /\ [t EXCEPT !.probe = probe, !.force = f, !.gate = g, !.at = a, !.steady = s] \in HealthTask
         /\ [t EXCEPT !.probe = probe, !.force = f, !.gate = g, !.at = a, !.steady = s].at = a
         /\ [t EXCEPT !.probe = probe, !.force = f, !.gate = g, !.at = a, !.steady = s].res = t.res
BY DEF HealthTask

LEMMA HealthIdle ==
  ASSUME HealthOK
  PROVE  Readiness!Idle \in HealthTask /\ Readiness!Idle.at = "idle" /\ Readiness!Idle.res = Readiness!NoResults
         /\ Readiness!NoResults \in HealthReport
<1>1. 0 \in 0..MaxNow  BY DEF HealthOK
<1> QED BY <1>1, HealthResults DEF HealthTask, Readiness!Idle, Readiness!Stage, Readiness!Probe, HealthReport

LEMMA HealthTask1 ==
  ASSUME HealthTypes, NEW x \in Readiness!Callers, NEW n \in HealthTask, n.at # "probing" => n.res \in HealthReport,
         x \notin Readers => n.at \in {"idle", "observe", "notify", "report"},
         tasks' = [tasks EXCEPT ![x] = n], h' \in HealthState, handle' \in [known : BOOLEAN, value : BOOLEAN],
         up' \in [Contributors -> BOOLEAN], now' \in 0..MaxNow, told' \in [base : BOOLEAN, net : Int]
  PROVE  HealthTypes' /\ tasks'[x] = n /\ \A y \in Readiness!Callers \ {x} : tasks'[y] = tasks[y]
BY DEF HealthTypes

LEMMA HealthStatus == HealthOK /\ HealthInv /\ (\E r \in Readers, probe \in Asked, force \in BOOLEAN : Readiness!Status(r, probe, force)) => HealthInv'
<1> SUFFICES ASSUME HealthOK, HealthInv, NEW r \in Readers, NEW probe \in Asked, NEW force \in BOOLEAN, Readiness!Status(r, probe, force) PROVE HealthInv'
  OBVIOUS
<1> DEFINE p == Readiness!ProcessPasses(probe)
           f == force /\ p
           a == IF p THEN "evaluate" ELSE IF probe = "ready" THEN "observe" ELSE "assemble"
           s == {c \in Notifiers : Readiness!Standing(c, "idle")}
           n == [Readiness!Idle EXCEPT !.probe = probe, !.force = f, !.gate = p, !.at = a, !.steady = s]
<1>1. tasks' = [tasks EXCEPT ![r] = n] /\ UNCHANGED <<h, handle, up, now, told>> /\ tasks[r].at = "idle"
  BY Zenon DEF Readiness!Status, Readiness!Standing
<1>2. p \in BOOLEAN /\ f \in BOOLEAN  BY DEF Readiness!ProcessPasses
<1>3. a \in {"evaluate", "observe", "assemble"} /\ probe \in Readiness!Probe /\ s \in SUBSET Notifiers
  <2> HIDE DEF p
  <2> QED BY DEF HealthOK
<1> HIDE DEF p, f, a, s
<1>4. n \in HealthTask /\ n.at = a /\ n.res = Readiness!NoResults
  <2>1. a \in Readiness!Stage  BY <1>3 DEF Readiness!Stage
  <2>2. Readiness!Idle \in HealthTask /\ Readiness!Idle.res = Readiness!NoResults  BY HealthIdle
  <2> DEFINE i == Readiness!Idle
  <2>3. i \in HealthTask /\ i.res = Readiness!NoResults  BY <2>2
  <2>4. n = [i EXCEPT !.probe = probe, !.force = f, !.gate = p, !.at = a, !.steady = s]  OBVIOUS
  <2> HIDE DEF i, n
  <2> QED BY <2>1, <2>3, <2>4, <1>2, <1>3 DEF HealthTask
<1> HIDE DEF n
<1>6. HealthTypes' /\ tasks'[r] = n /\ \A y \in Readiness!Callers \ {r} : tasks'[y] = tasks[y]
  BY <1>1, <1>3, <1>4, HealthIdle, HealthTask1 DEF HealthInv, HealthTypes, Readiness!Callers
<1>7. Readiness!SingleFlight'
  BY <1>1, <1>3, <1>4, <1>6 DEF HealthInv, Readiness!SingleFlight, Readiness!Standing, Readiness!Callers, HealthOK
<1> QED BY <1>6, <1>7 DEF HealthInv

\* A step that leaves all calls but one alone.
LEMMA HealthStep ==
  ASSUME HealthTypes, NEW x \in Readiness!Callers, tasks' \in [Readiness!Callers -> HealthTask],
         \A y \in Readiness!Callers \ {x} : tasks'[y] = tasks[y],
         tasks'[x].at # "probing" => tasks'[x].res \in HealthReport,
         x \notin Readers => tasks'[x].at \in {"idle", "observe", "notify", "report"},
         h' \in HealthState, UNCHANGED <<handle, up, now, told>>
  PROVE  HealthTypes'
BY DEF HealthTypes

LEMMA HealthEvaluate == HealthOK /\ HealthInv /\ (\E r \in Readers : Readiness!Evaluate(r)) => HealthInv'
<1> SUFFICES ASSUME HealthOK, HealthInv, NEW r \in Readers, Readiness!Evaluate(r) PROVE HealthInv'
  OBVIOUS
<1> DEFINE hit == Readiness!Fresh /\ ~tasks[r].force
           a == IF hit THEN "assemble" ELSE IF h.inflight # Nobody THEN "wait" ELSE "probing"
           res == IF hit THEN h.results ELSE Readiness!NoResults
           i == IF hit \/ h.inflight # Nobody THEN h.inflight ELSE r
<1>1. /\ tasks' = [tasks EXCEPT ![r].force = FALSE, ![r].at = a, ![r].res = res, ![r].shared = hit]
      /\ h' = [h EXCEPT !.inflight = i] /\ UNCHANGED <<handle, up, now, told>> /\ tasks[r].at = "evaluate"
  BY Zenon DEF Readiness!Evaluate, Readiness!Standing, Readiness!Joins
<1>2. h \in HealthState /\ tasks \in [Readiness!Callers -> HealthTask] /\ r \in Readiness!Callers
  BY DEF HealthInv, HealthTypes, Readiness!Callers
<1>3. res \in HealthReport /\ res \in Readiness!Results /\ hit \in BOOLEAN /\ i \in Readers \cup {Nobody}
      /\ a \in {"assemble", "wait", "probing"} /\ a \in Readiness!Stage
      /\ (a = "probing" => ~hit /\ h.inflight = Nobody /\ i = r) /\ (a # "probing" => i = h.inflight) /\ (a = "wait" => h.inflight # Nobody)
  <2>1. h.results \in HealthReport /\ h.inflight \in Readers \cup {Nobody}  BY <1>2 DEF HealthState
  <2>2. hit \in BOOLEAN  BY DEF Readiness!Fresh
  <2> HIDE DEF hit
  <2> QED BY <2>1, <2>2, HealthResults DEF Readiness!Stage, HealthReport
<1> HIDE DEF hit, a, res, i
<1>4. /\ tasks' \in [Readiness!Callers -> HealthTask] /\ tasks'[r].at = a /\ tasks'[r].res = res
      /\ \A y \in Readiness!Callers \ {r} : tasks'[y] = tasks[y]
  BY <1>1, <1>2, <1>3 DEF HealthTask
<1>5. h' \in HealthState /\ h'.inflight = i  BY <1>1, <1>2, <1>3 DEF HealthState
<1>6. HealthTypes'  BY <1>1, <1>2, <1>3, <1>4, <1>5, HealthStep DEF HealthInv
<1>7. Readiness!SingleFlight'
  BY <1>1, <1>2, <1>3, <1>4, <1>5 DEF HealthInv, Readiness!SingleFlight, Readiness!Standing, Readiness!Callers, HealthOK
<1> QED BY <1>6, <1>7 DEF HealthInv

LEMMA HealthProbe == HealthOK /\ HealthInv /\ (\E r \in Readers, c \in Contributors : Readiness!ProbeOne(r, c)) => HealthInv'
<1> SUFFICES ASSUME HealthOK, HealthInv, NEW r \in Readers, NEW c \in Contributors, Readiness!ProbeOne(r, c) PROVE HealthInv'
  OBVIOUS
<1>1. PICK ready \in {up[c], up[c] /\ ~Flaky} :
        tasks' = [tasks EXCEPT ![r].res = [d \in DOMAIN @ \cup {c} |-> IF d = c THEN ready ELSE @[d]]]
  BY Zenon DEF Readiness!ProbeOne
<1> DEFINE old == tasks[r].res
           res == [d \in DOMAIN old \cup {c} |-> IF d = c THEN ready ELSE old[d]]
<1>2. h \in HealthState /\ tasks \in [Readiness!Callers -> HealthTask] /\ r \in Readiness!Callers
      /\ UNCHANGED <<h, handle, up, now, told>> /\ tasks[r].at = "probing"
  BY DEF HealthInv, HealthTypes, Readiness!Callers, Readiness!ProbeOne, Readiness!Standing
<1>3. res \in Readiness!Results
  <2>1. old \in Readiness!Results  BY <1>2 DEF HealthTask
  <2>2. ready \in BOOLEAN  BY DEF HealthInv, HealthTypes, HealthOK
  <2>3. DOMAIN old \subseteq Contributors /\ \A d \in DOMAIN old : old[d] \in BOOLEAN  BY <2>1, HealthResults
  <2> HIDE DEF old
  <2>4. res \in [DOMAIN old \cup {c} -> BOOLEAN]  BY <2>2, <2>3
  <2> HIDE DEF res
  <2> QED BY <2>3, <2>4 DEF Readiness!Results
<1>4. tasks' = [tasks EXCEPT ![r].res = res]  BY <1>1
<1> HIDE DEF old, res
<1>5. /\ tasks' \in [Readiness!Callers -> HealthTask] /\ tasks'[r].at = "probing"
      /\ \A y \in Readiness!Callers \ {r} : tasks'[y] = tasks[y]
  BY <1>2, <1>3, <1>4 DEF HealthTask
<1>6. HealthTypes'  BY <1>2, <1>5, HealthStep DEF HealthInv
<1>7. Readiness!SingleFlight'
  BY <1>2, <1>5 DEF HealthInv, Readiness!SingleFlight, Readiness!Standing, Readiness!Callers
<1> QED BY <1>6, <1>7 DEF HealthInv

LEMMA HealthWaited == HealthOK /\ HealthInv /\ (\E r \in Readers : Readiness!Wake(r) \/ Readiness!GiveUp(r) \/ Readiness!Assemble(r)) => HealthInv'
<1> SUFFICES ASSUME HealthOK, HealthInv, NEW r \in Readers, Readiness!Wake(r) \/ Readiness!GiveUp(r) \/ Readiness!Assemble(r) PROVE HealthInv'
  OBVIOUS
<1>0. Readiness!Wake(r) \/ Readiness!GiveUp(r) \/ Readiness!Assemble(r)  OBVIOUS
<1>1. h \in HealthState /\ tasks \in [Readiness!Callers -> HealthTask] /\ r \in Readiness!Callers /\ now \in 0..MaxNow
      /\ UNCHANGED <<h, handle, up, now, told>> /\ tasks[r].at \in {"wait", "assemble"}
      /\ h.results \in HealthReport /\ h.results \in Readiness!Results /\ tasks[r].res \in HealthReport
  BY HealthResults DEF HealthInv, HealthTypes, HealthState, Readiness!Callers, Readiness!Wake, Readiness!GiveUp, Readiness!Assemble, Readiness!Standing
<1>2. /\ tasks' \in [Readiness!Callers -> HealthTask] /\ tasks'[r].at \in {"assemble", "stamp"} /\ tasks'[r].res \in HealthReport
      /\ \A y \in Readiness!Callers \ {r} : tasks'[y] = tasks[y]
  <2>1. "assemble" \in Readiness!Stage /\ "stamp" \in Readiness!Stage  BY DEF Readiness!Stage
  <2> DEFINE t == tasks[r]
             res == h.results
  <2>t. t \in HealthTask /\ t.res \in HealthReport  BY <1>1
  <2>2. CASE Readiness!Wake(r)
    <3>1. tasks' = [tasks EXCEPT ![r] = [t EXCEPT !.at = "assemble"]]  BY <1>1, <2>2 DEF Readiness!Wake
    <3> HIDE DEF t
    <3>2. [t EXCEPT !.at = "assemble"] \in HealthTask /\ [t EXCEPT !.at = "assemble"].at = "assemble" /\ [t EXCEPT !.at = "assemble"].res = t.res
      BY <2>t, <2>1 DEF HealthTask
    <3> QED BY <1>1, <2>t, <3>1, <3>2
  <2>3. CASE Readiness!GiveUp(r)
    <3>1. tasks' = [tasks EXCEPT ![r] = [t EXCEPT !.at = "assemble", !.res = res, !.shared = TRUE]]  BY <1>1, <2>3 DEF Readiness!GiveUp
    <3>2. res \in HealthReport /\ res \in Readiness!Results  BY <1>1
    <3> DEFINE n == [t EXCEPT !.at = "assemble", !.res = res, !.shared = TRUE]
    <3> HIDE DEF t, res
    <3>3. n \in HealthTask /\ n.at = "assemble" /\ n.res = res
      BY <2>t, <2>1, <3>2 DEF HealthTask
    <3> QED BY <1>1, <3>1, <3>2, <3>3
  <2>4. CASE Readiness!Assemble(r)
    <3> DEFINE n == [t EXCEPT !.at = "stamp", !.shared = FALSE, !.from = now]
    <3>1. tasks' = [tasks EXCEPT ![r] = n]  BY <1>1, <2>4 DEF Readiness!Assemble
    <3> HIDE DEF t
    <3>3. n \in HealthTask /\ n.at = "stamp" /\ n.res = t.res
      BY <2>t, <2>1, <1>1 DEF HealthTask
    <3> QED BY <1>1, <2>t, <3>1, <3>3
  <2> QED BY <1>0, <2>2, <2>3, <2>4
<1>3. HealthTypes'  BY <1>1, <1>2, HealthStep DEF HealthInv
<1>4. Readiness!SingleFlight'
  BY <1>1, <1>2 DEF HealthInv, Readiness!SingleFlight, Readiness!Standing, Readiness!Callers
<1> QED BY <1>3, <1>4 DEF HealthInv

LEMMA HealthSingle ==
  ASSUME HealthOK, HealthInv, tasks' \in [Readiness!Callers -> HealthTask], h' \in HealthState, h'.inflight = h.inflight,
         \A y \in Readers : /\ tasks'[y].at = tasks[y].at \/ (tasks[y].at \notin {"probing"} /\ tasks'[y].at \notin {"probing", "wait"})
                            /\ tasks'[y].at = "wait" => tasks'[y].res = tasks[y].res \/ h.inflight # Nobody
  PROVE  Readiness!SingleFlight'
BY DEF HealthInv, Readiness!SingleFlight, Readiness!Standing, Readiness!Callers

LEMMA HealthStore == HealthOK /\ HealthInv /\ (\E r \in Readers : Readiness!Store(r)) => HealthInv'
<1> SUFFICES ASSUME HealthOK, HealthInv, NEW r \in Readers, Readiness!Store(r) PROVE HealthInv'
  OBVIOUS
<1> DEFINE t == tasks[r]
           res == t.res
           n == [t EXCEPT !.at = "observe", !.shared = TRUE, !.value = Readiness!AllReady(res, "ready")]
           stamps == Readiness!NoteSince(h.since, res, now)
<1>1. /\ t.at = "probing" /\ DOMAIN res = Contributors
      /\ h' = [h EXCEPT !.results = res, !.computedAt = now, !.inflight = Nobody, !.since = stamps]
      /\ tasks' = [x \in Readiness!Callers |-> IF x = r THEN n ELSE Readiness!Released(r, x)]
      /\ UNCHANGED <<handle, up, now, told>>
  BY DEF Readiness!Store, Readiness!Standing, Readiness!AllProbed
<1>2. /\ h \in HealthState /\ tasks \in [Readiness!Callers -> HealthTask] /\ r \in Readiness!Callers /\ now \in 0..MaxNow /\ t \in HealthTask
  BY DEF HealthInv, HealthTypes, Readiness!Callers
<1>3. res \in Readiness!Results /\ res \in HealthReport /\ res # Readiness!NoResults
  BY <1>1, <1>2, HealthResults DEF HealthTask, HealthOK
<1>4. stamps \in [Contributors \cup {Process} -> Readiness!Since]
  BY <1>2, <1>3, HealthSince, HealthResults DEF HealthState
<1>5. n \in HealthTask /\ n.at = "observe" /\ n.res = res
  <2>1. Readiness!AllReady(res, "ready") \in BOOLEAN /\ "observe" \in Readiness!Stage  BY DEF Readiness!AllReady, Readiness!Stage
  <2>2. t \in HealthTask  BY <1>2
  <2> DEFINE b == Readiness!AllReady(res, "ready")
  <2>3. n = [t EXCEPT !.at = "observe", !.shared = TRUE, !.value = b] /\ b \in BOOLEAN  BY <2>1
  <2>4. res = t.res  OBVIOUS
  <2> HIDE DEF b, n, t, res
  <2> QED BY <2>1, <2>2, <2>3, <2>4 DEF HealthTask
<1>6. \A x \in Readiness!Callers \ {r} :
        /\ Readiness!Released(r, x) \in HealthTask /\ Readiness!Released(r, x).at = tasks[x].at
        /\ Readiness!Released(r, x).res = tasks[x].res \/ (Readiness!Released(r, x).res = res /\ tasks[x].at = "wait")
        /\ tasks[x].at = "wait" => Readiness!Released(r, x).res # Readiness!NoResults
  <2> TAKE x \in Readiness!Callers \ {r}
  <2> DEFINE o == tasks[x]
  <2>1. o \in HealthTask  BY <1>2
  <2>2. Readiness!Released(r, x) = IF o.at = "wait" /\ o.res = Readiness!NoResults THEN [o EXCEPT !.res = res, !.shared = TRUE] ELSE [o EXCEPT !.shared = FALSE]
    BY DEF Readiness!Released, Readiness!Standing
  <2> HIDE DEF o, t, res
  <2>3. [o EXCEPT !.res = res, !.shared = TRUE] \in HealthTask /\ [o EXCEPT !.res = res, !.shared = TRUE].at = o.at /\ [o EXCEPT !.res = res, !.shared = TRUE].res = res
    BY <1>3, <2>1 DEF HealthTask
  <2>4. [o EXCEPT !.shared = FALSE] \in HealthTask /\ [o EXCEPT !.shared = FALSE].at = o.at /\ [o EXCEPT !.shared = FALSE].res = o.res
    BY <2>1 DEF HealthTask
  <2> QED BY <1>3, <2>2, <2>3, <2>4 DEF o
<1>b. \A x \in Readiness!Callers : (x # r => Readiness!Released(r, x) \in HealthTask)  BY <1>6
<1>7. h' \in HealthState /\ h'.inflight = Nobody /\ h'.results = res
  <2> HIDE DEF res, stamps
  <2> QED BY <1>1, <1>2, <1>3, <1>4 DEF HealthState
<1> HIDE DEF n, stamps, res, t
<1>a. tasks' = [x \in Readiness!Callers |-> IF x = r THEN n ELSE Readiness!Released(r, x)]  BY <1>1
<1>8. tasks' \in [Readiness!Callers -> HealthTask] /\ tasks'[r] = n /\ \A x \in Readiness!Callers \ {r} : tasks'[x] = Readiness!Released(r, x)
  BY <1>a, <1>b, <1>2, <1>5
<1>c. \A x \in Readiness!Callers \ {r} :
        /\ tasks'[x].at = tasks[x].at /\ (tasks'[x].res = tasks[x].res \/ tasks'[x].res = res)
        /\ (tasks[x].at = "wait" => tasks'[x].res # Readiness!NoResults)
  BY <1>6, <1>8
<1>d. /\ handle' \in [known : BOOLEAN, value : BOOLEAN] /\ up' \in [Contributors -> BOOLEAN] /\ now' \in 0..MaxNow
      /\ told' \in [base : BOOLEAN, net : Int]
  BY <1>1 DEF HealthInv, HealthTypes
<1>e. \A x \in Readiness!Callers : tasks'[x].at # "probing" => tasks'[x].res \in HealthReport
  BY <1>3, <1>5, <1>8, <1>c DEF HealthInv, HealthTypes
<1>f. \A x \in Readiness!Callers \ Readers : tasks'[x].at \in {"idle", "observe", "notify", "report"}
  BY <1>c, <1>2 DEF HealthInv, HealthTypes
<1>9. HealthTypes'
  BY <1>7, <1>8, <1>d, <1>e, <1>f DEF HealthTypes
<1>g. h.inflight = r /\ r # Nobody /\ tasks'[r].at = "observe"
  BY <1>1, <1>5, <1>8 DEF HealthInv, Readiness!SingleFlight, Readiness!Standing, HealthOK, t
<1>10. Readiness!SingleFlight'
  BY <1>2, <1>7, <1>c, <1>g DEF HealthInv, Readiness!SingleFlight, Readiness!Standing, Readiness!Callers, HealthOK
<1> QED BY <1>9, <1>10 DEF HealthInv

LEMMA HealthStamped == HealthOK /\ HealthInv /\ (\E r \in Readers : Readiness!Stamp(r) \/ Readiness!NoteVerdict(r)) => HealthInv'
<1> SUFFICES ASSUME HealthOK, HealthInv, NEW r \in Readers, Readiness!Stamp(r) \/ Readiness!NoteVerdict(r) PROVE HealthInv'
  OBVIOUS
<1> DEFINE t == tasks[r]
<1>1. Readiness!Stamp(r) \/ Readiness!NoteVerdict(r)  OBVIOUS
<1>2. /\ h \in HealthState /\ tasks \in [Readiness!Callers -> HealthTask] /\ r \in Readiness!Callers /\ t \in HealthTask
      /\ UNCHANGED <<handle, up, now, told>> /\ t.at \in {"stamp", "verdict"} /\ t.res \in HealthReport
  BY DEF HealthInv, HealthTypes, Readiness!Callers, Readiness!Stamp, Readiness!NoteVerdict, Readiness!Standing
<1>3. /\ tasks' \in [Readiness!Callers -> HealthTask] /\ tasks'[r].at \in {"verdict", "idle"} /\ tasks'[r].res \in HealthReport
      /\ h' \in HealthState /\ h'.inflight = h.inflight
      /\ \A y \in Readiness!Callers \ {r} : tasks'[y] = tasks[y]
  <2>1. CASE Readiness!Stamp(r)
    <3> DEFINE seen == {c \in DOMAIN t.res : Readiness!ProbeOf(c) = t.probe}
               v == [k \in seen \cup {Process} |-> IF k = Process THEN t.gate ELSE t.res[k]]
               stamps == Readiness!NoteSince(h.since, v, t.from)
               n == [t EXCEPT !.at = "verdict", !.from = 0]
    <3>1. tasks' = [tasks EXCEPT ![r] = n] /\ h' = [h EXCEPT !.since = stamps]  BY <1>2, <2>1 DEF Readiness!Stamp
    <3>2. t.gate \in BOOLEAN /\ t.res \in Readiness!Results /\ t.from \in 0..MaxNow  BY <1>2 DEF HealthTask
    <3>3. \A k \in DOMAIN v : v[k] \in BOOLEAN  BY <3>2, HealthResults
    <3>4. stamps \in [Contributors \cup {Process} -> Readiness!Since]
      <4> HIDE DEF v
      <4> QED BY <1>2, <3>2, <3>3, HealthSince DEF HealthState
    <3>5. 0 \in 0..MaxNow /\ "verdict" \in Readiness!Stage  BY DEF Readiness!Stage, HealthOK
    <3>6. n \in HealthTask /\ n.at = "verdict" /\ n.res = t.res
      <4> HIDE DEF t
      <4> QED BY <1>2, <3>5 DEF HealthTask
    <3> HIDE DEF stamps, n
    <3>7. h' \in HealthState /\ h'.inflight = h.inflight  BY <1>2, <3>1, <3>4 DEF HealthState
    <3> QED BY <1>2, <3>1, <3>6, <3>7
  <2>2. CASE Readiness!NoteVerdict(r)
    <3> DEFINE w == IF Readiness!Passing(r) THEN "passing" ELSE "failing"
               o == [h.observed EXCEPT ![t.probe] = w]
    <3>1. tasks' = [tasks EXCEPT ![r] = Readiness!Idle] /\ h' = [h EXCEPT !.observed = o]  BY <1>2, <2>2 DEF Readiness!NoteVerdict
    <3>2. w \in {"passing", "failing"}  OBVIOUS
    <3>3. o \in [Readiness!Probe -> {"unknown", "passing", "failing"}]
      <4> HIDE DEF w
      <4> QED BY <1>2, <3>2 DEF HealthState
    <3> HIDE DEF o
    <3>4. h' \in HealthState /\ h'.inflight = h.inflight  BY <1>2, <3>1, <3>3 DEF HealthState
    <3> QED BY <1>2, <3>1, <3>4, HealthIdle
  <2> QED BY <1>1, <2>1, <2>2
<1>4. HealthTypes'  BY <1>2, <1>3, HealthStep DEF HealthInv
<1>5. Readiness!SingleFlight'  BY <1>2, <1>3, HealthSingle DEF Readiness!Callers
<1> QED BY <1>4, <1>5 DEF HealthInv

LEMMA HealthAfter ==
  ASSUME HealthOK, HealthInv, NEW x \in Readiness!Callers, tasks[x].at \in {"observe", "notify"}
  PROVE  /\ Readiness!After(x) \in HealthTask /\ Readiness!After(x).res \in HealthReport
         /\ x \in Readers => Readiness!After(x).at = "assemble" /\ Readiness!After(x).res = tasks[x].res
         /\ x \notin Readers => Readiness!After(x) = Readiness!Idle
<1> DEFINE t == tasks[x]
<1>1. t \in HealthTask /\ t.res \in HealthReport  BY DEF HealthInv, HealthTypes
<1>2. Readiness!After(x) = IF x \in Readers THEN [t EXCEPT !.at = "assemble", !.value = FALSE] ELSE Readiness!Idle
  BY DEF Readiness!After
<1>3. "assemble" \in Readiness!Stage  BY DEF Readiness!Stage
<1> HIDE DEF t
<1>4. [t EXCEPT !.at = "assemble", !.value = FALSE] \in HealthTask /\ [t EXCEPT !.at = "assemble", !.value = FALSE].at = "assemble"
      /\ [t EXCEPT !.at = "assemble", !.value = FALSE].res = t.res
  BY <1>1, <1>3 DEF HealthTask
<1> QED BY <1>1, <1>2, <1>4, HealthIdle DEF t

LEMMA HealthObserve == HealthOK /\ HealthInv /\ (\E x \in Readiness!Callers : Readiness!Observe(x) \/ Readiness!NotifyAll(x)) => HealthInv'
<1> SUFFICES ASSUME HealthOK, HealthInv, NEW x \in Readiness!Callers, Readiness!Observe(x) \/ Readiness!NotifyAll(x) PROVE HealthInv'
  OBVIOUS
<1> DEFINE t == tasks[x]
<1>1. Readiness!Observe(x) \/ Readiness!NotifyAll(x)  OBVIOUS
<1>2. /\ h \in HealthState /\ tasks \in [Readiness!Callers -> HealthTask] /\ t \in HealthTask /\ t.res \in HealthReport
      /\ UNCHANGED <<h, up, now>> /\ t.at \in {"observe", "notify"} /\ t.value \in BOOLEAN
      /\ handle \in [known : BOOLEAN, value : BOOLEAN] /\ told \in [base : BOOLEAN, net : Int]
  BY DEF HealthInv, HealthTypes, HealthTask, Readiness!Observe, Readiness!NotifyAll, Readiness!Standing
<1>3. \E n \in HealthTask : tasks' = [tasks EXCEPT ![x] = n] /\ n.res \in HealthReport /\ (n.at \in {"notify", "assemble"} \/ n = Readiness!Idle)
         /\ (n.at = "assemble" => x \in Readers)
         /\ handle' \in [known : BOOLEAN, value : BOOLEAN] /\ told' \in [base : BOOLEAN, net : Int]
  <2>1. CASE Readiness!Observe(x)
    <3> DEFINE v == t.value
               n == IF Readiness!Flips(v) THEN [t EXCEPT !.at = "notify"] ELSE Readiness!After(x)
    <3>1. tasks' = [tasks EXCEPT ![x] = n] /\ handle' = [known |-> TRUE, value |-> v]
          /\ told' = IF handle.known THEN told ELSE [told EXCEPT !.base = v]
      BY <2>1 DEF Readiness!Observe
    <3>2. [t EXCEPT !.at = "notify"] \in HealthTask /\ [t EXCEPT !.at = "notify"].at = "notify" /\ [t EXCEPT !.at = "notify"].res = t.res
      <4> HIDE DEF t
      <4> QED BY <1>2 DEF HealthTask, Readiness!Stage
    <3>3. Readiness!After(x) \in HealthTask /\ Readiness!After(x).res \in HealthReport
          /\ (Readiness!After(x) = Readiness!Idle \/ (Readiness!After(x).at = "assemble" /\ x \in Readers))
      BY <1>2, HealthAfter
    <3>4. n \in HealthTask /\ n.res \in HealthReport /\ (n.at \in {"notify", "assemble"} \/ n = Readiness!Idle) /\ (n.at = "assemble" => x \in Readers)
      BY <1>2, <3>2, <3>3, HealthIdle
    <3>5. handle' \in [known : BOOLEAN, value : BOOLEAN] /\ told' \in [base : BOOLEAN, net : Int]
      BY <1>2, <3>1
    <3> HIDE DEF n
    <3> QED BY <3>1, <3>4, <3>5
  <2>2. CASE Readiness!NotifyAll(x)
    <3>1. tasks' = [tasks EXCEPT ![x] = Readiness!After(x)] /\ handle' = handle
          /\ told' = [told EXCEPT !.net = IF t.value THEN @ + 1 ELSE @ - 1]
      BY <2>2 DEF Readiness!NotifyAll
    <3>2. Readiness!After(x) \in HealthTask /\ Readiness!After(x).res \in HealthReport
          /\ (Readiness!After(x) = Readiness!Idle \/ (Readiness!After(x).at = "assemble" /\ x \in Readers))
      BY <1>2, HealthAfter
    <3>3. told' \in [base : BOOLEAN, net : Int]  BY <1>2, <3>1
    <3> QED BY <1>2, <3>1, <3>2, <3>3, HealthIdle
  <2> QED BY <1>1, <2>1, <2>2
<1>4. PICK n \in HealthTask : tasks' = [tasks EXCEPT ![x] = n] /\ n.res \in HealthReport /\ (n.at \in {"notify", "assemble"} \/ n = Readiness!Idle)
         /\ (n.at = "assemble" => x \in Readers)
         /\ handle' \in [known : BOOLEAN, value : BOOLEAN] /\ told' \in [base : BOOLEAN, net : Int]
  BY <1>3
<1>5. n.at \in {"notify", "assemble", "idle"}  BY <1>4, HealthIdle
<1>6. HealthTypes' /\ tasks'[x] = n /\ \A y \in Readiness!Callers \ {x} : tasks'[y] = tasks[y]
  BY <1>2, <1>4, <1>5, HealthTask1 DEF HealthInv, HealthTypes
<1>7. Readiness!SingleFlight'
  BY <1>2, <1>4, <1>5, <1>6, HealthSingle DEF HealthTypes, Readiness!Callers
<1> QED BY <1>6, <1>7 DEF HealthInv

LEMMA HealthChange == HealthOK /\ HealthInv /\ (\E c \in Contributors : Readiness!Change(c)) => HealthInv'
<1> SUFFICES ASSUME HealthOK, HealthInv, NEW c \in Contributors, Readiness!Change(c) PROVE HealthInv'
  OBVIOUS
<1>1. /\ h \in HealthState /\ tasks \in [Readiness!Callers -> HealthTask] /\ up' = [up EXCEPT ![c] = ~@] /\ UNCHANGED <<h, handle, now, told>>
      /\ up \in [Contributors -> BOOLEAN] /\ up' \in [Contributors -> BOOLEAN] /\ c \notin Readers /\ (c \in Readiness!Callers => c \in Notifiers /\ tasks[c].at = "idle")
  BY DEF HealthInv, HealthTypes, HealthOK, Readiness!Change, Readiness!Callers, Readiness!Standing
<1> DEFINE v == up'[c]
           n == [Readiness!Idle EXCEPT !.at = "report", !.value = v]
           K(x) == [tasks[x] EXCEPT !.steady = @ \ {c}]
<1>2. tasks' = [x \in Readiness!Callers |-> IF x = c THEN n ELSE K(x)]  BY DEF Readiness!Change
<1>3. n \in HealthTask /\ n.at = "report" /\ n.res = Readiness!NoResults /\ n.res \in HealthReport
  <2> DEFINE i == Readiness!Idle
  <2>1. i \in HealthTask /\ i.res = Readiness!NoResults /\ v \in BOOLEAN  BY <1>1, HealthIdle
  <2>2. n = [i EXCEPT !.at = "report", !.value = v] /\ "report" \in Readiness!Stage  BY DEF Readiness!Stage
  <2> HIDE DEF i, v, n
  <2> QED BY <2>1, <2>2, HealthIdle DEF HealthTask
<1>4. \A x \in Readiness!Callers : K(x) \in HealthTask /\ K(x).at = tasks[x].at /\ K(x).res = tasks[x].res
  <2> TAKE x \in Readiness!Callers
  <2> DEFINE t == tasks[x]
             s == t.steady \ {c}
  <2>1. t \in HealthTask /\ K(x) = [t EXCEPT !.steady = s]  BY <1>1
  <2>2. s \in SUBSET Notifiers  BY <2>1 DEF HealthTask
  <2> HIDE DEF t, s, K
  <2>3. K(x) \in HealthTask /\ K(x).at = t.at /\ K(x).res = t.res  BY <2>1, <2>2 DEF HealthTask
  <2> QED BY <2>3 DEF t
<1> HIDE DEF n, K
<1>5. /\ tasks' \in [Readiness!Callers -> HealthTask]
      /\ \A x \in Readiness!Callers : (x = c /\ tasks'[x].at = "report" /\ tasks'[x].res \in HealthReport)
                                      \/ (x # c /\ tasks'[x].at = tasks[x].at /\ tasks'[x].res = tasks[x].res)
  BY <1>2, <1>3, <1>4
<1>6. HealthTypes'
  BY <1>1, <1>5 DEF HealthInv, HealthTypes
<1>7. Readiness!SingleFlight'
  BY <1>1, <1>5, HealthSingle DEF Readiness!Callers
<1> QED BY <1>6, <1>7 DEF HealthInv

LEMMA HealthPushed == HealthOK /\ HealthInv /\ (\E c \in Notifiers : Readiness!Report(c)) => HealthInv'
<1> SUFFICES ASSUME HealthOK, HealthInv, NEW c \in Notifiers, Readiness!Report(c) PROVE HealthInv'
  OBVIOUS
<1>1. /\ h \in HealthState /\ tasks \in [Readiness!Callers -> HealthTask] /\ UNCHANGED <<handle, up, now, told>>
      /\ c \notin Readers /\ c \in Readiness!Callers /\ c \in Contributors /\ now \in 0..MaxNow
      /\ h.since \in [Contributors \cup {Process} -> Readiness!Since] /\ h.results \in HealthReport
  BY DEF HealthInv, HealthTypes, HealthOK, HealthState, Readiness!Report, Readiness!Callers, Readiness!Standing
<1>2. /\ h' \in HealthState /\ h'.inflight = h.inflight /\ tasks' \in [Readiness!Callers -> HealthTask]
      /\ \A x \in Readiness!Callers : \/ x = c /\ tasks'[x].at \in {"idle", "observe"} /\ tasks'[x].res = Readiness!NoResults
                                      \/ x # c /\ tasks'[x].at = tasks[x].at /\ (tasks'[x].res = tasks[x].res \/ (tasks'[x].res # Readiness!NoResults /\ tasks'[x].res \in HealthReport)
                                                                                 \/ tasks[x].at = "probing" \/ (tasks'[x].res = Readiness!NoResults /\ tasks[x].res = Readiness!NoResults))
  <2>1. CASE Readiness!ReportReady(c)
    <3> DEFINE v == [k \in {c} |-> TRUE]
               stamps == Readiness!NoteSince(h.since, v, now)
               K(x) == [tasks[x] EXCEPT !.shared = FALSE]
               res == Readiness!NoResults
    <3>1. h' = [h EXCEPT !.since = stamps, !.results = res, !.computedAt = 0]
          /\ tasks' = [x \in Readiness!Callers |-> IF x = c THEN Readiness!Idle ELSE K(x)]
      BY <2>1 DEF Readiness!ReportReady
    <3>2. stamps \in [Contributors \cup {Process} -> Readiness!Since] /\ res \in HealthReport /\ 0 \in 0..MaxNow
      <4>1. \A k \in DOMAIN v : v[k] \in BOOLEAN  OBVIOUS
      <4> HIDE DEF v
      <4> QED BY <1>1, <4>1, HealthSince, HealthIdle DEF HealthOK
    <3>3. \A x \in Readiness!Callers : K(x) \in HealthTask /\ K(x).at = tasks[x].at /\ K(x).res = tasks[x].res
      <4> TAKE x \in Readiness!Callers
      <4> DEFINE t == tasks[x]
      <4>1. t \in HealthTask /\ K(x) = [t EXCEPT !.shared = FALSE]  BY <1>1
      <4> HIDE DEF t, K
      <4>2. K(x) \in HealthTask /\ K(x).at = t.at /\ K(x).res = t.res  BY <4>1 DEF HealthTask
      <4> QED BY <4>2 DEF t
    <3> HIDE DEF stamps, K
    <3>4. h' \in HealthState /\ h'.inflight = h.inflight  BY <1>1, <3>1, <3>2 DEF HealthState
    <3>5. tasks' = [x \in Readiness!Callers |-> IF x = c THEN Readiness!Idle ELSE K(x)]  BY <3>1
    <3> QED BY <1>1, <3>5, <3>3, <3>4, HealthIdle
  <2>2. CASE Readiness!ReportUnready(c)
    <3> DEFINE v == [k \in {c} |-> FALSE]
               stamps == Readiness!NoteSince(h.since, v, now)
               res == [k \in DOMAIN h.results |-> h.results[k] /\ k # c]
               probe == Readiness!ProbeOf(c)
               o == [h.observed EXCEPT ![probe] = "failing"]
               n == IF probe = "ready" THEN [Readiness!Idle EXCEPT !.at = "observe"] ELSE Readiness!Idle
               K(x) == [tasks[x] EXCEPT !.res = [k \in DOMAIN @ |-> @[k] /\ k # c]]
    <3>1. h' = [h EXCEPT !.since = stamps, !.results = res, !.observed = o]
      BY <2>2, <1>1 DEF Readiness!ReportUnready, HealthState
    <3>2. \E seen \in SUBSET Readers : tasks' = [x \in Readiness!Callers |-> CASE x = c -> n [] x \in seen -> K(x) [] OTHER -> tasks[x]]
      BY <2>2 DEF Readiness!ReportUnready
    <3>3. stamps \in [Contributors \cup {Process} -> Readiness!Since] /\ o \in [Readiness!Probe -> {"unknown", "passing", "failing"}]
      <4>1. \A k \in DOMAIN v : v[k] \in BOOLEAN  OBVIOUS
      <4>2. o \in [Readiness!Probe -> {"unknown", "passing", "failing"}]  BY <1>1 DEF HealthState
      <4> HIDE DEF v, o
      <4> QED BY <1>1, <4>1, <4>2, HealthSince
    <3>4. \A r \in Readiness!Results : /\ [k \in DOMAIN r |-> r[k] /\ k # c] \in Readiness!Results
                                      /\ (r \in HealthReport => [k \in DOMAIN r |-> r[k] /\ k # c] \in HealthReport)
                                      /\ (r \in HealthReport /\ r # Readiness!NoResults => [k \in DOMAIN r |-> r[k] /\ k # c] # Readiness!NoResults)
      <4> TAKE r \in Readiness!Results
      <4> DEFINE w == [k \in DOMAIN r |-> r[k] /\ k # c]
      <4>1. DOMAIN r \subseteq Contributors /\ \A k \in DOMAIN r : r[k] \in BOOLEAN  BY HealthResults
      <4>2. w \in [DOMAIN r -> BOOLEAN] /\ DOMAIN w = DOMAIN r  BY <4>1
      <4>3. r \in HealthReport => r = Readiness!NoResults \/ DOMAIN r = Contributors  BY HealthResults
      <4>4. r = Readiness!NoResults => w = Readiness!NoResults  BY DEF Readiness!NoResults
      <4> HIDE DEF w
      <4>5. w \in Readiness!Results  BY <4>1, <4>2 DEF Readiness!Results
      <4>6. w # Readiness!NoResults \/ DOMAIN r = {}  BY <4>2, HealthResults
      <4> QED BY <4>2, <4>3, <4>4, <4>5, <4>6, HealthResults DEF HealthReport, w, HealthOK
    <3>5. res \in HealthReport  BY <3>4, <1>1, HealthResults
    <3> HIDE DEF stamps, o, res
    <3>6. h' \in HealthState /\ h'.inflight = h.inflight  BY <1>1, <3>1, <3>3, <3>5 DEF HealthState
    <3>7. n \in HealthTask /\ n.at \in {"idle", "observe"} /\ n.res = Readiness!NoResults
      <4> DEFINE i == Readiness!Idle
                 m == [i EXCEPT !.at = "observe"]
      <4>1. i \in HealthTask /\ i.res = Readiness!NoResults /\ i.at = "idle" /\ "observe" \in Readiness!Stage  BY HealthIdle DEF Readiness!Stage
      <4>2. n = IF probe = "ready" THEN m ELSE i  OBVIOUS
      <4> HIDE DEF i, n, probe
      <4>3. m \in HealthTask /\ m.at = "observe" /\ m.res = i.res  BY <4>1 DEF HealthTask
      <4> HIDE DEF m
      <4> QED BY <4>1, <4>2, <4>3
    <3>8. \A x \in Readiness!Callers : K(x) \in HealthTask /\ K(x).at = tasks[x].at /\ K(x).res = [k \in DOMAIN tasks[x].res |-> tasks[x].res[k] /\ k # c]
      <4> TAKE x \in Readiness!Callers
      <4> DEFINE t == tasks[x]
                 r == t.res
                 w == [k \in DOMAIN r |-> r[k] /\ k # c]
      <4>1. t \in HealthTask /\ K(x) = [t EXCEPT !.res = w]  BY <1>1
      <4>2. w \in Readiness!Results  BY <4>1, <3>4 DEF HealthTask
      <4> HIDE DEF t, w, K
      <4>3. K(x) \in HealthTask /\ K(x).at = t.at /\ K(x).res = w  BY <4>1, <4>2 DEF HealthTask
      <4> QED BY <4>3 DEF t, w
    <3>9. \A x \in Readiness!Callers : tasks[x].res \in Readiness!Results /\ (tasks[x].at # "probing" => tasks[x].res \in HealthReport)
      BY DEF HealthInv, HealthTypes, HealthTask
    <3>10. PICK seen \in SUBSET Readers : tasks' = [x \in Readiness!Callers |-> CASE x = c -> n [] x \in seen -> K(x) [] OTHER -> tasks[x]]
      BY <3>2
    <3> HIDE DEF n, K
    <3>11. tasks' \in [Readiness!Callers -> HealthTask] /\ \A x \in Readiness!Callers : (x = c /\ tasks'[x] = n) \/ (x # c /\ tasks'[x] = K(x)) \/ (x # c /\ tasks'[x] = tasks[x])
      BY <1>1, <3>7, <3>8, <3>10
    <3>12. \A x \in Readiness!Callers : K(x).res = tasks[x].res \/ (K(x).res # Readiness!NoResults /\ K(x).res \in HealthReport) \/ tasks[x].at = "probing"
             \/ (K(x).res = Readiness!NoResults /\ tasks[x].res = Readiness!NoResults)
      BY <3>4, <3>8, <3>9, HealthIdle
    <3> QED BY <1>1, <3>6, <3>7, <3>8, <3>11, <3>12
  <2> QED BY <2>1, <2>2 DEF Readiness!Report
<1>3. HealthTypes'
  BY <1>1, <1>2, HealthIdle DEF HealthInv, HealthTypes
<1>4. Readiness!SingleFlight'
  BY <1>1, <1>2 DEF HealthInv, Readiness!SingleFlight, Readiness!Standing, Readiness!Callers
<1> QED BY <1>3, <1>4 DEF HealthInv

LEMMA HealthProcess == HealthOK /\ HealthInv /\ (Readiness!SetBooted \/ Readiness!BeginDrain \/ Readiness!Tick) => HealthInv'
<1> SUFFICES ASSUME HealthOK, HealthInv, Readiness!SetBooted \/ Readiness!BeginDrain \/ Readiness!Tick PROVE HealthInv'
  OBVIOUS
<1>0. Readiness!SetBooted \/ Readiness!BeginDrain \/ Readiness!Tick  OBVIOUS
<1>1. h \in HealthState /\ tasks \in [Readiness!Callers -> HealthTask] /\ now \in 0..MaxNow /\ Main \in Readiness!Callers /\ Main \notin Readers
  BY DEF HealthInv, HealthTypes, Readiness!Callers, HealthOK
<1>2. CASE Readiness!SetBooted
  <2>1. h' \in HealthState /\ h'.inflight = h.inflight /\ UNCHANGED <<handle, tasks, up, now, told>>  BY <1>1, <1>2 DEF Readiness!SetBooted, HealthState
  <2> QED BY <2>1 DEF HealthInv, HealthTypes, Readiness!SingleFlight, Readiness!Standing
<1>3. CASE Readiness!BeginDrain
  <2> DEFINE i == Readiness!Idle
             n == [i EXCEPT !.at = "observe"]
  <2>1. h' = [h EXCEPT !.state = "draining"] /\ tasks' = [tasks EXCEPT ![Main] = n] /\ UNCHANGED <<handle, up, now, told>>
    BY <1>3 DEF Readiness!BeginDrain
  <2>2. i \in HealthTask /\ i.res \in HealthReport /\ "observe" \in Readiness!Stage  BY HealthIdle DEF Readiness!Stage
  <2> HIDE DEF i
  <2>3. n \in HealthTask /\ n.at = "observe" /\ n.res = i.res  BY <2>2 DEF HealthTask
  <2> HIDE DEF n
  <2>4. h' \in HealthState /\ h'.inflight = h.inflight  BY <1>1, <2>1 DEF HealthState
  <2>5. tasks' \in [Readiness!Callers -> HealthTask] /\ tasks'[Main] = n /\ \A y \in Readiness!Callers \ {Main} : tasks'[y] = tasks[y]
    BY <1>1, <2>1, <2>3
  <2>6. HealthTypes'  BY <1>1, <2>1, <2>2, <2>3, <2>4, <2>5, HealthStep DEF HealthInv
  <2>7. Readiness!SingleFlight'  BY <1>1, <2>4, <2>5, HealthSingle DEF Readiness!Callers
  <2> QED BY <2>6, <2>7 DEF HealthInv
<1>4. CASE Readiness!Tick
  <2>1. now' \in 0..MaxNow /\ UNCHANGED <<h, handle, tasks, up, told>>  BY <1>1, <1>4 DEF Readiness!Tick, HealthOK
  <2> QED BY <2>1 DEF HealthInv, HealthTypes, Readiness!SingleFlight, Readiness!Standing
<1> QED BY <1>0, <1>2, <1>3, <1>4

LEMMA HealthAlone1 ==
  ASSUME HealthOK, HealthInv, HealthInv', NEW x \in Readiness!Callers, up' = up,
         \A y \in Readiness!Callers \ {x} : tasks'[y].at = "idle",
         tasks'[x].at # "report",
         \A c \in Notifiers \cap DOMAIN tasks'[x].res : tasks'[x].at # "idle" => tasks'[x].res[c] = up[c],
         \A c \in Notifiers \cap DOMAIN h'.results : h'.results[c] = up[c]
  PROVE  HealthAlone'
BY DEF HealthAlone, Readiness!Callers

\* Whoever stands before a section is alone, and what is cached is then true.
LEMMA HealthOnly ==
  ASSUME HealthOK, HealthInv, HealthAlone, NEW x \in Readiness!Callers, tasks[x].at # "idle"
  PROVE  /\ \A y \in Readiness!Callers \ {x} : tasks[y].at = "idle"
         /\ \A c \in Notifiers \cap DOMAIN h.results : c # x \/ tasks[x].at # "report" => h.results[c] = up[c]
         /\ \A c \in Notifiers \cap DOMAIN tasks[x].res : tasks[x].res[c] = up[c]
<1>1. \A y \in Readiness!Callers \ {x} : tasks[y].at = "idle"  BY DEF HealthAlone
<1>2. \A c \in Notifiers : c \in Readiness!Callers  BY DEF Readiness!Callers
<1>3. \A c \in Notifiers \cap DOMAIN h.results : c # x \/ tasks[x].at # "report" => h.results[c] = up[c]
  BY <1>1, <1>2 DEF HealthAlone
<1> QED BY <1>1, <1>3 DEF HealthAlone

LEMMA HealthAloneCall ==
  HealthOK /\ HealthSerial /\ HealthInv /\ HealthInv' /\ HealthAlone /\ (\E r \in Readers : Readiness!StatusStep(r)) => HealthAlone'
<1> SUFFICES ASSUME HealthOK, HealthSerial, HealthInv, HealthInv', HealthAlone, NEW r \in Readers, Readiness!StatusStep(r) PROVE HealthAlone'
  OBVIOUS
<1>1. /\ h \in HealthState /\ tasks \in [Readiness!Callers -> HealthTask] /\ r \in Readiness!Callers /\ r \notin Notifiers
      /\ Notifiers \subseteq Readiness!Callers
  BY DEF HealthInv, HealthTypes, Readiness!Callers, HealthOK
<1>2. tasks[r].at # "idle" /\ tasks[r].at # "report" /\ up' = up
  BY DEF Readiness!StatusStep, Readiness!Evaluate, Readiness!Wake, Readiness!GiveUp, Readiness!Store, Readiness!ProbeOne,
         Readiness!Assemble, Readiness!Stamp, Readiness!NoteVerdict, Readiness!Standing
<1>3. /\ \A y \in Readiness!Callers \ {r} : tasks[y].at = "idle"
      /\ \A c \in Notifiers \cap DOMAIN h.results : h.results[c] = up[c]
      /\ \A c \in Notifiers \cap DOMAIN tasks[r].res : tasks[r].res[c] = up[c]
  BY <1>1, <1>2, HealthOnly
<1>4. CASE Readiness!Evaluate(r)
  <2>1. /\ tasks'[r].at # "report" /\ tasks'[r].res \in {h.results, Readiness!NoResults} /\ h'.results = h.results
        /\ \A y \in Readiness!Callers \ {r} : tasks'[y] = tasks[y]
    <3> DEFINE hit == Readiness!Fresh /\ ~tasks[r].force
               a == IF hit THEN "assemble" ELSE IF h.inflight # Nobody THEN "wait" ELSE "probing"
               res == IF hit THEN h.results ELSE Readiness!NoResults
               i == IF hit \/ h.inflight # Nobody THEN h.inflight ELSE r
    <3>1. /\ tasks' = [tasks EXCEPT ![r].force = FALSE, ![r].at = a, ![r].res = res, ![r].shared = hit]
          /\ h' = [h EXCEPT !.inflight = i]
      BY Zenon, <1>4 DEF Readiness!Evaluate, Readiness!Joins
    <3>2. a # "report" /\ res \in {h.results, Readiness!NoResults}  OBVIOUS
    <3> HIDE DEF hit, a, res, i
    <3>3. h'.results = h.results  BY <1>1, <3>1 DEF HealthState
    <3>4. tasks'[r].at = a /\ tasks'[r].res = res /\ \A y \in Readiness!Callers \ {r} : tasks'[y] = tasks[y]  BY <1>1, <3>1 DEF HealthTask
    <3> QED BY <3>2, <3>3, <3>4
  <2> QED BY <1>1, <1>2, <1>3, <2>1, HealthAlone1, HealthResults
<1>5. CASE \E c \in Contributors : Readiness!ProbeOne(r, c)
  <2> PICK c \in Contributors : Readiness!ProbeOne(r, c)  BY <1>5
  <2> DEFINE old == tasks[r].res
             res == [d \in DOMAIN old \cup {c} |-> IF d = c THEN up[c] ELSE old[d]]
  <2>1. tasks' = [tasks EXCEPT ![r].res = res] /\ h' = h
    <3>1. PICK ready \in {up[c], up[c] /\ ~Flaky} :
            tasks' = [tasks EXCEPT ![r].res = [d \in DOMAIN @ \cup {c} |-> IF d = c THEN ready ELSE @[d]]]
      BY Zenon DEF Readiness!ProbeOne
    <3>2. ready = up[c]  BY <3>1 DEF HealthSerial, HealthInv, HealthTypes
    <3> QED BY <3>1, <3>2 DEF Readiness!ProbeOne
  <2>2. \A d \in Notifiers \cap DOMAIN res : res[d] = up[d]  BY <1>3
  <2> HIDE DEF res
  <2>3. tasks'[r].at = tasks[r].at /\ tasks'[r].res = res /\ \A y \in Readiness!Callers \ {r} : tasks'[y] = tasks[y]
    BY <1>1, <2>1 DEF HealthTask
  <2> QED BY <1>1, <1>2, <1>3, <2>1, <2>2, <2>3, HealthAlone1
<1>6. CASE Readiness!Store(r)
  <2>1. DOMAIN tasks[r].res = Contributors /\ h' = [h EXCEPT !.results = tasks[r].res, !.computedAt = now, !.inflight = Nobody,
                    !.since = Readiness!NoteSince(@, tasks[r].res, now)]
        /\ tasks' = [x \in Readiness!Callers |-> IF x = r THEN [tasks[r] EXCEPT !.at = "observe", !.shared = TRUE,
                                      !.value = Readiness!AllReady(tasks[r].res, "ready")] ELSE Readiness!Released(r, x)]
    BY <1>6 DEF Readiness!Store, Readiness!AllProbed
  <2> DEFINE t == tasks[r]
             v == Readiness!AllReady(tasks[r].res, "ready")
             n == [t EXCEPT !.at = "observe", !.shared = TRUE, !.value = v]
             res == t.res
             stamps == Readiness!NoteSince(h.since, res, now)
  <2>2. t \in HealthTask /\ tasks'[r] = n  BY <1>1, <2>1
  <2>3. h' = [h EXCEPT !.results = res, !.computedAt = now, !.inflight = Nobody, !.since = stamps]  BY <2>1
  <2>4. res = t.res /\ \A c \in Notifiers \cap DOMAIN res : res[c] = up[c]  BY <1>3
  <2>5. \A y \in Readiness!Callers \ {r} : tasks'[y] = [tasks[y] EXCEPT !.shared = FALSE]
    BY <1>3, <2>1 DEF Readiness!Released, Readiness!Standing
  <2>6. \A y \in Readiness!Callers \ {r} : tasks'[y].at = "idle"
    <3> TAKE y \in Readiness!Callers \ {r}
    <3> DEFINE o == tasks[y]
    <3>1. o \in HealthTask /\ o.at = "idle" /\ tasks'[y] = [o EXCEPT !.shared = FALSE]  BY <1>1, <1>3, <2>5
    <3> HIDE DEF o
    <3> QED BY <3>1 DEF HealthTask
  <2> HIDE DEF t, v, n, stamps
  <2>7. n.at = "observe" /\ n.res = t.res  BY <2>2 DEF n, HealthTask
  <2> HIDE DEF res
  <2>8. h'.results = res  BY <1>1, <2>3 DEF HealthState
  <2> QED BY <1>1, <1>2, <2>2, <2>4, <2>6, <2>7, <2>8, HealthAlone1
<1>7. CASE Readiness!Wake(r) \/ Readiness!GiveUp(r) \/ Readiness!Assemble(r) \/ Readiness!Stamp(r)
  <2> DEFINE t == tasks[r]
             stamps == h'.since
             res == h.results
  <2>t. t \in HealthTask  BY <1>1
  <2>1. h'.results = h.results
    <3>1. h' = h \/ h' = [h EXCEPT !.since = stamps]
      BY <1>1, <1>7 DEF HealthState, Readiness!Wake, Readiness!GiveUp, Readiness!Assemble, Readiness!Stamp
    <3> HIDE DEF stamps
    <3> QED BY <1>1, <3>1 DEF HealthState
  <2>2. \/ tasks' = [tasks EXCEPT ![r] = [t EXCEPT !.at = "assemble"]]
        \/ tasks' = [tasks EXCEPT ![r] = [t EXCEPT !.at = "assemble", !.res = res, !.shared = TRUE]]
        \/ tasks' = [tasks EXCEPT ![r] = [t EXCEPT !.at = "stamp", !.shared = FALSE, !.from = now]]
        \/ tasks' = [tasks EXCEPT ![r] = [t EXCEPT !.at = "verdict", !.from = 0]]
    <3>1. CASE Readiness!Wake(r)  BY <3>1, <1>1 DEF Readiness!Wake
    <3>2. CASE Readiness!GiveUp(r)  BY <3>2, <1>1 DEF Readiness!GiveUp
    <3>3. CASE Readiness!Assemble(r)  BY <3>3, <1>1 DEF Readiness!Assemble
    <3>4. CASE Readiness!Stamp(r)  BY <3>4, <1>1 DEF Readiness!Stamp
    <3> QED BY <1>7, <3>1, <3>2, <3>3, <3>4
  <2> HIDE DEF t, res
  <2>3. /\ [t EXCEPT !.at = "assemble"].at = "assemble" /\ [t EXCEPT !.at = "assemble"].res = t.res
        /\ [t EXCEPT !.at = "assemble", !.res = res, !.shared = TRUE].at = "assemble" /\ [t EXCEPT !.at = "assemble", !.res = res, !.shared = TRUE].res = res
        /\ [t EXCEPT !.at = "stamp", !.shared = FALSE, !.from = now].at = "stamp" /\ [t EXCEPT !.at = "stamp", !.shared = FALSE, !.from = now].res = t.res
        /\ [t EXCEPT !.at = "verdict", !.from = 0].at = "verdict" /\ [t EXCEPT !.at = "verdict", !.from = 0].res = t.res
    BY <2>t DEF HealthTask
  <2>4. tasks'[r].at # "report" /\ tasks'[r].res \in {t.res, res} /\ \A y \in Readiness!Callers \ {r} : tasks'[y] = tasks[y]
    BY <1>1, <2>2, <2>3
  <2> QED BY <1>1, <1>2, <1>3, <2>1, <2>4, HealthAlone1 DEF t, res
<1>8. CASE Readiness!NoteVerdict(r)
  <2> DEFINE o == h'.observed
  <2>1. tasks' = [tasks EXCEPT ![r] = Readiness!Idle] /\ h' = [h EXCEPT !.observed = o]
    BY <1>1, <1>8 DEF Readiness!NoteVerdict, HealthState
  <2> HIDE DEF o
  <2>2. h'.results = h.results  BY <1>1, <2>1 DEF HealthState
  <2> QED BY <1>1, <1>2, <1>3, <2>1, <2>2, HealthAlone1, HealthIdle
<1> QED BY <1>4, <1>5, <1>6, <1>7, <1>8 DEF Readiness!StatusStep

LEMMA HealthAloneStart ==
  HealthOK /\ HealthSerial /\ HealthInv /\ HealthInv' /\ HealthAlone
    /\ ((\E r \in Readers, probe \in Asked, force \in BOOLEAN : Readiness!Status(r, probe, force)) \/ Readiness!SetBooted \/ Readiness!BeginDrain) => HealthAlone'
<1> SUFFICES ASSUME HealthOK, HealthSerial, HealthInv, HealthInv', HealthAlone,
                    (\E r \in Readers, probe \in Asked, force \in BOOLEAN : Readiness!Status(r, probe, force)) \/ Readiness!SetBooted \/ Readiness!BeginDrain
             PROVE HealthAlone'
  OBVIOUS
<1>1. /\ h \in HealthState /\ tasks \in [Readiness!Callers -> HealthTask] /\ Readers \subseteq Readiness!Callers /\ Main \in Readiness!Callers
      /\ Notifiers \subseteq Readiness!Callers
  BY DEF HealthInv, HealthTypes, Readiness!Callers, HealthOK
<1>2. \A x \in Readiness!Callers : tasks[x].at = "idle"
  BY DEF Readiness!Status, Readiness!SetBooted, Readiness!BeginDrain, Readiness!MayStart, Readiness!Standing, HealthSerial
<1>3. \A c \in Notifiers \cap DOMAIN h.results : h.results[c] = up[c]  BY <1>1, <1>2 DEF HealthAlone
<1>4. CASE \E r \in Readers, probe \in Asked, force \in BOOLEAN : Readiness!Status(r, probe, force)
  <2> PICK r \in Readers, probe \in Asked, force \in BOOLEAN : Readiness!Status(r, probe, force)  BY <1>4
  <2> DEFINE p == Readiness!ProcessPasses(probe)
             f == force /\ p
             a == IF p THEN "evaluate" ELSE IF probe = "ready" THEN "observe" ELSE "assemble"
             s == {c \in Notifiers : Readiness!Standing(c, "idle")}
             i == Readiness!Idle
             n == [i EXCEPT !.probe = probe, !.force = f, !.gate = p, !.at = a, !.steady = s]
  <2>1. tasks' = [tasks EXCEPT ![r] = n] /\ h' = h /\ up' = up  BY Zenon DEF Readiness!Status
  <2>2. a # "report" /\ i \in HealthTask /\ i.res = Readiness!NoResults  BY HealthIdle
  <2> HIDE DEF p, f, a, s, i
  <2>3. n.at = a /\ n.res = i.res  BY <2>2 DEF HealthTask
  <2> HIDE DEF n
  <2> QED BY <1>1, <1>2, <1>3, <2>1, <2>2, <2>3, HealthAlone1, HealthResults
<1>5. CASE Readiness!SetBooted
  <2>1. h'.results = h.results /\ tasks' = tasks /\ up' = up  BY <1>1, <1>5 DEF Readiness!SetBooted, HealthState
  <2> QED BY <1>1, <1>2, <1>3, <2>1, HealthAlone1
<1>6. CASE Readiness!BeginDrain
  <2> DEFINE i == Readiness!Idle
             n == [i EXCEPT !.at = "observe"]
  <2>1. tasks' = [tasks EXCEPT ![Main] = n] /\ h'.results = h.results /\ up' = up  BY <1>1, <1>6 DEF Readiness!BeginDrain, HealthState
  <2>2. i \in HealthTask /\ i.res = Readiness!NoResults  BY HealthIdle
  <2> HIDE DEF i
  <2>3. n.at = "observe" /\ n.res = i.res  BY <2>2 DEF HealthTask
  <2> HIDE DEF n
  <2> QED BY <1>1, <1>2, <1>3, <2>1, <2>2, <2>3, HealthAlone1, HealthResults
<1> QED BY <1>4, <1>5, <1>6

LEMMA HealthAloneObserve ==
  HealthOK /\ HealthSerial /\ HealthInv /\ HealthInv' /\ HealthAlone
    /\ (\E x \in Readiness!Callers : Readiness!Observe(x) \/ Readiness!NotifyAll(x)) => HealthAlone'
<1> SUFFICES ASSUME HealthOK, HealthSerial, HealthInv, HealthInv', HealthAlone, NEW x \in Readiness!Callers,
                    Readiness!Observe(x) \/ Readiness!NotifyAll(x)
             PROVE HealthAlone'
  OBVIOUS
<1> DEFINE t == tasks[x]
<1>1. /\ tasks \in [Readiness!Callers -> HealthTask] /\ t \in HealthTask /\ t.at \in {"observe", "notify"} /\ UNCHANGED <<h, up>>
  BY DEF HealthInv, HealthTypes, Readiness!Observe, Readiness!NotifyAll, Readiness!Standing
<1>2. /\ \A y \in Readiness!Callers \ {x} : tasks[y].at = "idle"
      /\ \A c \in Notifiers \cap DOMAIN h.results : h.results[c] = up[c]
      /\ \A c \in Notifiers \cap DOMAIN t.res : t.res[c] = up[c]
  BY <1>1, HealthOnly
<1>3. tasks' = [tasks EXCEPT ![x] = [t EXCEPT !.at = "notify"]] \/ tasks' = [tasks EXCEPT ![x] = Readiness!After(x)]
  <2>1. CASE Readiness!Observe(x)
    <3>1. tasks' = [tasks EXCEPT ![x] = IF Readiness!Flips(t.value) THEN [t EXCEPT !.at = "notify"] ELSE Readiness!After(x)]
      BY <2>1, <1>1 DEF Readiness!Observe
    <3> QED BY <3>1
  <2>2. CASE Readiness!NotifyAll(x)  BY <2>2 DEF Readiness!NotifyAll
  <2> QED BY <2>1, <2>2
<1>4. [t EXCEPT !.at = "notify"].at = "notify" /\ [t EXCEPT !.at = "notify"].res = t.res
  <2> HIDE DEF t
  <2> QED BY <1>1 DEF HealthTask
<1>5. /\ Readiness!After(x).at \in {"assemble", "idle"} /\ Readiness!After(x).res \in {t.res, Readiness!NoResults}
  BY <1>1, HealthAfter, HealthIdle
<1>6. /\ tasks'[x].at # "report" /\ tasks'[x].res \in {t.res, Readiness!NoResults} /\ \A y \in Readiness!Callers \ {x} : tasks'[y] = tasks[y]
  BY <1>1, <1>3, <1>4, <1>5
<1> QED BY <1>1, <1>2, <1>6, HealthAlone1, HealthResults

LEMMA HealthAlonePushed ==
  HealthOK /\ HealthSerial /\ HealthInv /\ HealthInv' /\ HealthAlone /\ (\E c \in Notifiers : Readiness!Report(c)) => HealthAlone'
<1> SUFFICES ASSUME HealthOK, HealthSerial, HealthInv, HealthInv', HealthAlone, NEW c \in Notifiers, Readiness!Report(c) PROVE HealthAlone'
  OBVIOUS
<1>1. /\ h \in HealthState /\ tasks \in [Readiness!Callers -> HealthTask] /\ up' = up /\ tasks[c].at = "report"
      /\ c \notin Readers /\ c \in Readiness!Callers /\ Readers \subseteq Readiness!Callers /\ Notifiers \subseteq Readiness!Callers
      /\ up \in [Contributors -> BOOLEAN] /\ Notifiers \subseteq Contributors
  BY DEF HealthInv, HealthTypes, HealthOK, HealthState, Readiness!Report, Readiness!Callers, Readiness!Standing
<1>2. /\ \A y \in Readiness!Callers \ {c} : tasks[y].at = "idle"
      /\ \A k \in Notifiers \cap DOMAIN h.results : k # c => h.results[k] = up[k]
  BY <1>1, HealthOnly
<1>3. tasks[c].value = up[c]  BY <1>1 DEF HealthAlone
<1>4. CASE tasks[c].value
  <2> DEFINE K(x) == [tasks[x] EXCEPT !.shared = FALSE]
             res == Readiness!NoResults
             stamps == Readiness!NoteSince(h.since, [k \in {c} |-> TRUE], now)
  <2>1. h' = [h EXCEPT !.since = stamps, !.results = res, !.computedAt = 0]
        /\ tasks' = [x \in Readiness!Callers |-> IF x = c THEN Readiness!Idle ELSE K(x)]
    BY <1>4 DEF Readiness!Report, Readiness!ReportReady
  <2>2. \A y \in Readiness!Callers \ {c} : K(y).at = "idle"
    <3> TAKE y \in Readiness!Callers \ {c}
    <3> DEFINE t == tasks[y]
    <3>1. t \in HealthTask /\ t.at = "idle" /\ K(y) = [t EXCEPT !.shared = FALSE]  BY <1>1, <1>2
    <3> HIDE DEF t, K
    <3> QED BY <3>1 DEF HealthTask
  <2>3. res = Readiness!NoResults  OBVIOUS
  <2> HIDE DEF K, res, stamps
  <2>4. h'.results = res  BY <1>1, <2>1 DEF HealthState
  <2>5. tasks'[c] = Readiness!Idle /\ \A y \in Readiness!Callers \ {c} : tasks'[y] = K(y)  BY <1>1, <2>1
  <2> QED BY <1>1, <2>2, <2>3, <2>4, <2>5, HealthAlone1, HealthResults, HealthIdle
<1>5. CASE ~tasks[c].value
  <2> DEFINE probe == Readiness!ProbeOf(c)
             o == [h.observed EXCEPT ![probe] = "failing"]
             stamps == Readiness!NoteSince(h.since, [k \in {c} |-> FALSE], now)
             res == [k \in DOMAIN h.results |-> h.results[k] /\ k # c]
             n == IF probe = "ready" THEN [Readiness!Idle EXCEPT !.at = "observe"] ELSE Readiness!Idle
             K(x) == [tasks[x] EXCEPT !.res = [k \in DOMAIN @ |-> @[k] /\ k # c]]
  <2>1. h' = [h EXCEPT !.since = stamps, !.results = res, !.observed = o]
    BY <1>1, <1>5 DEF Readiness!Report, Readiness!ReportUnready, HealthState
  <2>2. \E seen \in SUBSET Readers : tasks' = [x \in Readiness!Callers |-> CASE x = c -> n [] x \in seen -> K(x) [] OTHER -> tasks[x]]
    BY <1>5 DEF Readiness!Report, Readiness!ReportUnready
  <2>3. ~up[c]  BY <1>3, <1>5
  <2>4. \A k \in Notifiers \cap DOMAIN res : res[k] = up[k]
    <3>1. h.results \in Readiness!Results  BY <1>1, HealthResults DEF HealthState
    <3>2. \A k \in DOMAIN h.results : h.results[k] \in BOOLEAN  BY <3>1, HealthResults
    <3> QED BY <1>1, <1>2, <2>3, <3>2
  <2>5. \A y \in Readiness!Callers \ {c} : K(y).at = "idle"
    <3> TAKE y \in Readiness!Callers \ {c}
    <3> DEFINE t == tasks[y]
               w == [k \in DOMAIN t.res |-> t.res[k] /\ k # c]
    <3>1. t \in HealthTask /\ t.at = "idle" /\ K(y) = [t EXCEPT !.res = w]  BY <1>1, <1>2
    <3> HIDE DEF t, w, K
    <3> QED BY <3>1 DEF HealthTask
  <2>6. n.at \in {"idle", "observe"} /\ n.res = Readiness!NoResults
    <3> DEFINE i == Readiness!Idle
               m == [i EXCEPT !.at = "observe"]
    <3>1. i \in HealthTask /\ i.res = Readiness!NoResults /\ i.at = "idle"  BY HealthIdle
    <3>2. n = IF probe = "ready" THEN m ELSE i  OBVIOUS
    <3> HIDE DEF i, n, probe
    <3>3. m.at = "observe" /\ m.res = i.res  BY <3>1 DEF HealthTask
    <3> HIDE DEF m
    <3> QED BY <3>1, <3>2, <3>3
  <2> HIDE DEF stamps, o, res, n, K
  <2>7. h'.results = res  BY <1>1, <2>1 DEF HealthState
  <2>8. PICK seen \in SUBSET Readers : tasks' = [x \in Readiness!Callers |-> CASE x = c -> n [] x \in seen -> K(x) [] OTHER -> tasks[x]]
    BY <2>2
  <2>9. tasks'[c] = n /\ \A y \in Readiness!Callers \ {c} : tasks'[y] = K(y) \/ tasks'[y] = tasks[y]
    BY <1>1, <2>8
  <2>10. \A y \in Readiness!Callers \ {c} : tasks'[y].at = "idle"  BY <1>2, <2>5, <2>9
  <2> QED BY <1>1, <2>4, <2>6, <2>7, <2>9, <2>10, HealthAlone1, HealthResults
<1> QED BY <1>4, <1>5

LEMMA HealthAloneChange ==
  HealthOK /\ HealthSerial /\ HealthInv /\ HealthInv' /\ HealthAlone /\ (\E c \in Contributors : Readiness!Change(c)) => HealthAlone'
<1> SUFFICES ASSUME HealthOK, HealthSerial, HealthInv, HealthInv', HealthAlone, NEW c \in Contributors, Readiness!Change(c) PROVE HealthAlone'
  OBVIOUS
<1>1. /\ tasks \in [Readiness!Callers -> HealthTask] /\ up' = [up EXCEPT ![c] = ~@] /\ up \in [Contributors -> BOOLEAN] /\ h' = h
      /\ c \notin Readers /\ Notifiers \subseteq Readiness!Callers /\ Notifiers \subseteq Contributors
  BY DEF HealthInv, HealthTypes, HealthOK, Readiness!Change, Readiness!Callers
<1>2. \A x \in Readiness!Callers : tasks[x].at = "idle"
  BY DEF Readiness!Change, Readiness!MayStart, Readiness!Standing, HealthSerial
<1>3. \A k \in Notifiers \cap DOMAIN h.results : h.results[k] = up[k]  BY <1>1, <1>2 DEF HealthAlone
<1> DEFINE v == up'[c]
           i == Readiness!Idle
           n == [i EXCEPT !.at = "report", !.value = v]
           K(x) == [tasks[x] EXCEPT !.steady = @ \ {c}]
<1>4. tasks' = [x \in Readiness!Callers |-> IF x = c THEN n ELSE K(x)]  BY DEF Readiness!Change
<1>5. n.at = "report" /\ n.value = v /\ n.res = Readiness!NoResults
  <2>1. i \in HealthTask /\ i.res = Readiness!NoResults  BY HealthIdle
  <2> HIDE DEF i, v
  <2> QED BY <2>1 DEF HealthTask
<1>6. \A x \in Readiness!Callers : K(x).at = "idle"
  <2> TAKE x \in Readiness!Callers
  <2> DEFINE t == tasks[x]
             s == t.steady \ {c}
  <2>1. t \in HealthTask /\ K(x) = [t EXCEPT !.steady = s] /\ t.at = "idle"  BY <1>1, <1>2
  <2> HIDE DEF t, s, K
  <2> QED BY <2>1 DEF HealthTask
<1> HIDE DEF n, K
<1>7. \A x \in Readiness!Callers : (x # c /\ tasks'[x].at = "idle") \/ (x = c /\ tasks'[x].at = "report" /\ tasks'[x].value = up'[c] /\ tasks'[x].res = Readiness!NoResults)
  BY <1>4, <1>5, <1>6
<1>8. \A k \in Contributors : k # c => up'[k] = up[k]  BY <1>1
<1> QED BY <1>1, <1>3, <1>7, <1>8, HealthResults DEF HealthAlone

LEMMA HealthInvStep == HealthOK /\ HealthInv /\ [Readiness!Next]_(Readiness!vars) => HealthInv'
<1> SUFFICES ASSUME HealthOK, HealthInv, [Readiness!Next]_(Readiness!vars) PROVE HealthInv'  OBVIOUS
<1>1. CASE UNCHANGED Readiness!vars
  BY <1>1 DEF Readiness!vars, HealthInv, HealthTypes, Readiness!SingleFlight, Readiness!Standing
<1>2. CASE Readiness!Next
  BY Zenon, <1>2, HealthStatus, HealthEvaluate, HealthProbe, HealthWaited, HealthStore, HealthStamped, HealthObserve, HealthChange, HealthPushed,
     HealthProcess DEF Readiness!Next, Readiness!StatusStep
<1> QED BY <1>1, <1>2

LEMMA HealthAloneInit == HealthOK /\ HealthInv /\ Readiness!Init => HealthAlone
<1> SUFFICES ASSUME HealthOK, HealthInv, Readiness!Init PROVE HealthAlone  OBVIOUS
<1>1. tasks = [x \in Readiness!Callers |-> Readiness!Idle] /\ h.results = Readiness!NoResults  BY DEF Readiness!Init
<1> QED BY <1>1, HealthIdle, HealthResults DEF HealthAlone, Readiness!Callers

LEMMA HealthAloneNext ==
  HealthOK /\ HealthSerial /\ HealthInv /\ HealthInv' /\ HealthAlone /\ [Readiness!Next]_(Readiness!vars) => HealthAlone'
<1> SUFFICES ASSUME HealthOK, HealthSerial, HealthInv, HealthInv', HealthAlone, [Readiness!Next]_(Readiness!vars) PROVE HealthAlone'  OBVIOUS
<1>1. CASE UNCHANGED Readiness!vars
  BY <1>1 DEF Readiness!vars, HealthAlone
<1>2. CASE Readiness!Tick
  BY <1>2 DEF Readiness!Tick, HealthAlone
<1>3. CASE Readiness!Next
  BY Zenon, <1>2, <1>3, HealthAloneStart, HealthAloneCall, HealthAloneObserve, HealthAlonePushed, HealthAloneChange DEF Readiness!Next
<1> QED BY <1>1, <1>3

\* Every variable keeps its type, and a report on its way to the cache or to a
\* caller is on all contributors or none.
LEMMA HealthTypeCorrect == HealthOK => (Readiness!Spec => [](HealthInv /\ Readiness!TypeOK))
<1> SUFFICES ASSUME HealthOK PROVE Readiness!Spec => [](HealthInv /\ Readiness!TypeOK)  OBVIOUS
<1>1. HealthInv => Readiness!TypeOK
  <2> SUFFICES ASSUME HealthInv PROVE Readiness!TypeOK  OBVIOUS
  <2>1. \A res \in HealthReport : res = Readiness!NoResults \/ Readiness!Complete(res)  BY HealthResults DEF Readiness!Complete
  <2> QED BY <2>1 DEF HealthInv, HealthTypes, HealthState, HealthReport, HealthTask, Readiness!TypeOK, Readiness!Callers
<1> QED BY <1>1, HealthInit, HealthInvStep, PTL DEF Readiness!Spec

\* Concurrent askers share one evaluation: at most one runs, it is the one in
\* flight, and whoever waits waits for it or already has its outcome.
THEOREM HealthSingleFlight == HealthOK => (Readiness!Spec => []Readiness!SingleFlight)
<1>1. HealthInv => Readiness!SingleFlight  BY DEF HealthInv
<1> QED BY <1>1, HealthTypeCorrect, PTL

\* A read says of every notifier that has pushed its state, and keeps it for the
\* length of the read, what that state is.
THEOREM HealthServesPushed == HealthOK /\ HealthSerial => (Readiness!Spec => [][Readiness!ServesPushed]_(Readiness!vars))
<1> SUFFICES ASSUME HealthOK, HealthSerial PROVE Readiness!Spec => [][Readiness!ServesPushed]_(Readiness!vars)  OBVIOUS
<1>1. HealthInv /\ HealthAlone => Readiness!ServesPushed
  <2> SUFFICES ASSUME HealthInv, HealthAlone, NEW r \in Readers, Readiness!NoteVerdict(r), NEW c \in tasks[r].steady \cap DOMAIN tasks[r].res
               PROVE tasks[r].res[c] = up[c]
    BY DEF Readiness!ServesPushed
  <2>1. r \in Readiness!Callers /\ tasks[r].at = "verdict" /\ tasks[r] \in HealthTask
    BY DEF HealthInv, HealthTypes, Readiness!NoteVerdict, Readiness!Standing, Readiness!Callers
  <2>2. c \in Notifiers  BY <2>1 DEF HealthTask
  <2> QED BY <2>1, <2>2 DEF HealthAlone
<1> QED BY <1>1, HealthTypeCorrect, HealthAloneInit, HealthAloneNext, PTL DEF Readiness!Spec

\* While a pushed state stands, its date stands.
THEOREM HealthSinceStands == HealthOK /\ HealthSerial => (Readiness!Spec => [][Readiness!SinceStands]_(Readiness!vars))
<1> SUFFICES ASSUME HealthOK, HealthSerial PROVE Readiness!Spec => [][Readiness!SinceStands]_(Readiness!vars)  OBVIOUS
<1>1. ASSUME HealthInv, HealthAlone, [Readiness!Next]_(Readiness!vars) PROVE Readiness!SinceStands
  <2> SUFFICES ASSUME HealthInv, HealthAlone, [Readiness!Next]_(Readiness!vars), NEW c \in Notifiers,
                      tasks[c].at = "idle", h.since[c] # Readiness!Never, h.since[c].ready = up[c]
               PROVE h'.since[c] = h.since[c]
    BY <1>1 DEF Readiness!SinceStands, Readiness!Standing
  <2>1. /\ h \in HealthState /\ tasks \in [Readiness!Callers -> HealthTask] /\ c \in Contributors /\ c # Process
        /\ h.since \in [Contributors \cup {Process} -> Readiness!Since]
    BY DEF HealthInv, HealthTypes, HealthOK, HealthState
  <2>2. ASSUME NEW v, NEW t, c \notin DOMAIN v \/ v[c] = up[c]
        PROVE  Readiness!NoteSince(h.since, v, t)[c] = h.since[c]
    BY <2>1, <2>2 DEF Readiness!NoteSince
  <2>3. h'.since = h.since \/ \E v, t : h'.since = Readiness!NoteSince(h.since, v, t) /\ (c \notin DOMAIN v \/ v[c] = up[c])
    <3>1. CASE UNCHANGED Readiness!vars  BY <3>1 DEF Readiness!vars
    <3>2. CASE \E r \in Readers : Readiness!StatusStep(r)
      <4> PICK r \in Readers : Readiness!StatusStep(r)  BY <3>2
      <4>r. r \in Readiness!Callers  BY DEF Readiness!Callers
      <4>1. CASE Readiness!Wake(r) \/ Readiness!GiveUp(r) \/ Readiness!Assemble(r) \/ (\E d \in Contributors : Readiness!ProbeOne(r, d))
        BY <4>1 DEF Readiness!Wake, Readiness!GiveUp, Readiness!Assemble, Readiness!ProbeOne
      <4>2. CASE Readiness!Evaluate(r)
        <5> DEFINE i == h'.inflight
        <5>1. h' = [h EXCEPT !.inflight = i]  BY <2>1, <4>2 DEF Readiness!Evaluate, HealthState
        <5> HIDE DEF i
        <5> QED BY <2>1, <5>1 DEF HealthState
      <4>3. CASE Readiness!NoteVerdict(r)
        <5> DEFINE o == h'.observed
        <5>1. h' = [h EXCEPT !.observed = o]  BY <2>1, <4>3 DEF Readiness!NoteVerdict, HealthState
        <5> HIDE DEF o
        <5> QED BY <2>1, <5>1 DEF HealthState
      <4>4. CASE Readiness!Store(r)
        <5> DEFINE res == tasks[r].res
                   stamps == Readiness!NoteSince(h.since, res, now)
        <5>1. h' = [h EXCEPT !.results = res, !.computedAt = now, !.inflight = Nobody, !.since = stamps] /\ tasks[r].at = "probing"
              /\ DOMAIN res = Contributors
          BY <4>4 DEF Readiness!Store, Readiness!Standing, Readiness!AllProbed
        <5>2. res[c] = up[c]  BY <2>1, <4>r, <5>1 DEF HealthAlone
        <5>3. stamps = Readiness!NoteSince(h.since, res, now)  OBVIOUS
        <5> HIDE DEF res, stamps
        <5>4. h'.since = stamps  BY <2>1, <5>1 DEF HealthState
        <5> QED BY <5>2, <5>3, <5>4
      <4>5. CASE Readiness!Stamp(r)
        <5> DEFINE seen == {d \in DOMAIN tasks[r].res : Readiness!ProbeOf(d) = tasks[r].probe}
                   v == [k \in seen \cup {Process} |-> IF k = Process THEN tasks[r].gate ELSE tasks[r].res[k]]
                   stamps == Readiness!NoteSince(h.since, v, tasks[r].from)
        <5>1. h' = [h EXCEPT !.since = stamps] /\ tasks[r].at = "stamp"  BY <4>5 DEF Readiness!Stamp, Readiness!Standing
        <5>2. c \notin DOMAIN v \/ v[c] = up[c]
          <6>1. c \in seen => tasks[r].res[c] = up[c]  BY <4>r, <5>1 DEF HealthAlone
          <6> HIDE DEF seen
          <6> QED BY <6>1, <2>1
        <5>3. stamps = Readiness!NoteSince(h.since, v, tasks[r].from)  OBVIOUS
        <5> HIDE DEF v, stamps
        <5>4. h'.since = stamps  BY <2>1, <5>1 DEF HealthState
        <5> QED BY <5>2, <5>3, <5>4
      <4> QED BY <4>1, <4>2, <4>3, <4>4, <4>5 DEF Readiness!StatusStep
    <3>3. CASE \E r \in Readers, probe \in Asked, force \in BOOLEAN : Readiness!Status(r, probe, force)
      BY <3>3 DEF Readiness!Status
    <3>4. CASE \E x \in Readiness!Callers : Readiness!Observe(x) \/ Readiness!NotifyAll(x)
      BY <3>4 DEF Readiness!Observe, Readiness!NotifyAll
    <3>5. CASE \E d \in Contributors : Readiness!Change(d)
      BY <3>5 DEF Readiness!Change
    <3>6. CASE \E d \in Notifiers : Readiness!Report(d)
      <4> PICK d \in Notifiers : Readiness!Report(d)  BY <3>6
      <4>1. d # c  BY DEF Readiness!Report, Readiness!Standing
      <4>2. CASE tasks[d].value
        <5> DEFINE v == [k \in {d} |-> TRUE]
                   stamps == Readiness!NoteSince(h.since, v, now)
                   res == Readiness!NoResults
        <5>1. h' = [h EXCEPT !.since = stamps, !.results = res, !.computedAt = 0]
          BY <4>2 DEF Readiness!Report, Readiness!ReportReady
        <5>2. c \notin DOMAIN v /\ stamps = Readiness!NoteSince(h.since, v, now)  BY <4>1
        <5> HIDE DEF stamps, v, res
        <5>3. h'.since = stamps  BY <2>1, <5>1 DEF HealthState
        <5> QED BY <5>2, <5>3
      <4>3. CASE ~tasks[d].value
        <5> DEFINE v == [k \in {d} |-> FALSE]
                   stamps == Readiness!NoteSince(h.since, v, now)
                   probe == Readiness!ProbeOf(d)
                   o == [h.observed EXCEPT ![probe] = "failing"]
                   res == [k \in DOMAIN h.results |-> h.results[k] /\ k # d]
        <5>1. h' = [h EXCEPT !.since = stamps, !.results = res, !.observed = o]
          BY <2>1, <4>3 DEF Readiness!Report, Readiness!ReportUnready, HealthState
        <5>2. c \notin DOMAIN v /\ stamps = Readiness!NoteSince(h.since, v, now)  BY <4>1
        <5> HIDE DEF stamps, v, res, o
        <5>3. h'.since = stamps  BY <2>1, <5>1 DEF HealthState
        <5> QED BY <5>2, <5>3
      <4> QED BY <4>2, <4>3
    <3>7. CASE Readiness!SetBooted
      BY <2>1, <3>7 DEF Readiness!SetBooted, HealthState
    <3>8. CASE Readiness!BeginDrain
      BY <2>1, <3>8 DEF Readiness!BeginDrain, HealthState
    <3>9. CASE Readiness!Tick
      BY <3>9 DEF Readiness!Tick
    <3> QED BY Zenon, <3>1, <3>2, <3>3, <3>4, <3>5, <3>6, <3>7, <3>8, <3>9 DEF Readiness!Next
  <2> QED BY <2>2, <2>3
<1>2. HealthInv /\ HealthAlone /\ [Readiness!Next]_(Readiness!vars) => Readiness!SinceStands  BY <1>1
<1> QED BY <1>2, HealthTypeCorrect, HealthAloneInit, HealthAloneNext, PTL DEF Readiness!Spec

-----------------------------------------------------------------------------
(* Health over HTTP and in the metrics.                                    *)

Views == INSTANCE HealthViews WITH
  Mounts <- Listeners, Requests <- ProbeRequests, Options <- ProbeOptions, MaxFlips <- ViewFlips

\* A listener has no routes of its own; no component is called "whole".
ViewsOK ==
  /\ ViewFlips \in Nat
  /\ "whole" \notin Readyables \cup Lives
  /\ \A m \in Listeners :
       /\ m.kind = "listener" => m.routes = {}
       /\ \A r \in m.routes : r.disabled \in BOOLEAN
       /\ Len(m.backends) \in Nat

ViewsTypes ==
  /\ mount \in Listeners
  /\ phase \in {"written", "refused", "serving"} /\ served \subseteq Views!Paths
  /\ up \in [Views!Components -> BOOLEAN]
  /\ cache = << >> \/ cache \in [Views!Components -> BOOLEAN]
  /\ waiting \in {"no", "polling", "ready", "timedOut"} /\ flips \in 0..ViewFlips
ViewsInv == ViewsTypes /\ Views!TerseStaysTerse /\ Views!OneVerdict /\ Views!OneOwner /\ Views!SeriesAgree

LEMMA ViewsReports ==
  ASSUME ViewsTypes, NEW force, NEW rep \in Views!Reports(force)
  PROVE  rep \in [Views!Components -> BOOLEAN]
BY DEF ViewsTypes, Views!Reports

\* Whatever shows a report keeps it.
LEMMA ViewsShown ==
  ASSUME ViewsInv, NEW from, NEW path, NEW rep \in [Views!Components -> BOOLEAN], NEW response,
         Views!Shown(from, path, rep, response),
         from = "handler" /\ response.lists # {} => mount.endpoints = "verbose",
         response.status = 200 <=> Views!Failing(rep, Views!ProbeOf(path)) = {},
         response.body # "none" => (response.body = "passing" <=> response.status = 200),
         response.lists # {} => Views!Failing(rep, Views!ProbeOf(path)) \subseteq response.lists
                                  /\ response.lists \subseteq Views!Of(Views!ProbeOf(path))
  PROVE  ViewsInv'
<1>1. /\ view'.from = from /\ view'.response = response /\ view'.probe = Views!ProbeOf(path) /\ view'.report = rep
      /\ cache' = rep /\ UNCHANGED <<mount, phase, served, meters, up, series, waiting, flips>>
  BY DEF Views!Shown
<1>2. ViewsTypes'
  BY <1>1 DEF ViewsInv, ViewsTypes, Views!Components
<1>3. Views!OneOwner' /\ Views!SeriesAgree'
  BY <1>1 DEF ViewsInv, Views!OneOwner, Views!SeriesAgree, Views!Of
<1>4. Views!TerseStaysTerse'
  BY <1>1 DEF Views!TerseStaysTerse
<1>5. Views!OneVerdict'
  BY <1>1 DEF Views!OneVerdict, Views!Failing, Views!Of
<1> QED BY <1>2, <1>3, <1>4, <1>5 DEF ViewsInv

LEMMA ViewsPassing ==
  ASSUME NEW rep \in [Views!Components -> BOOLEAN], NEW probe
  PROVE  /\ Views!Passing(rep, probe) <=> Views!Failing(rep, probe) = {}
         /\ Views!Failing(rep, probe) \subseteq Views!Of(probe)
         /\ Views!Of(probe) \subseteq Views!Components
BY DEF Views!Passing, Views!Failing, Views!Of, Views!Components

LEMMA ViewsResponse ==
  ASSUME NEW rep \in [Views!Components -> BOOLEAN], NEW path, NEW render
  PROVE  LET r == Views!Response(path, rep, render)  fails == Views!Failing(rep, Views!ProbeOf(path)) IN
         /\ r.status = 200 <=> fails = {}
         /\ r.body # "none" => (r.body = "passing" <=> r.status = 200)
         /\ r.lists # {} => render.verbose /\ fails \subseteq r.lists /\ r.lists \subseteq Views!Of(Views!ProbeOf(path))
<1> DEFINE r == Views!Response(path, rep, render)
           ok == Views!Passing(rep, Views!ProbeOf(path))
<1>1. /\ r.status = IF ok THEN 200 ELSE 503
      /\ r.body = IF render.head THEN "none" ELSE IF ok THEN "passing" ELSE "failing"
      /\ r.lists = IF ~render.head /\ render.verbose THEN Views!Of(Views!ProbeOf(path)) ELSE {}
  BY DEF Views!Response, Views!Lists
<1> HIDE DEF r
<1>2. ok <=> Views!Failing(rep, Views!ProbeOf(path)) = {}
  BY ViewsPassing
<1>3. Views!Failing(rep, Views!ProbeOf(path)) \subseteq Views!Of(Views!ProbeOf(path))
  BY ViewsPassing
<1> HIDE DEF ok
<1>4. /\ r.status = 200 <=> Views!Failing(rep, Views!ProbeOf(path)) = {}
      /\ r.body # "none" => (r.body = "passing" <=> r.status = 200)
      /\ r.lists # {} => render.verbose /\ Views!Failing(rep, Views!ProbeOf(path)) \subseteq r.lists
                           /\ r.lists \subseteq Views!Of(Views!ProbeOf(path))
  BY <1>1, <1>2, <1>3
<1> QED BY <1>4 DEF r

LEMMA ViewsAnswer ==
  ASSUME NEW rep, NEW probe, NEW lists
  PROVE  LET r == Views!Answer(rep, probe, lists) IN
         /\ r.status = 200 <=> Views!Failing(rep, probe) = {}
         /\ r.body # "none" /\ (r.body = "passing" <=> r.status = 200)
         /\ r.lists = lists
BY DEF Views!Answer

\* The first backend that has a provider registers it.
LEMMA ViewsRegistered ==
  ASSUME NEW backends, Len(backends) \in Nat
  PROVE  LET m == Views!Registered(backends) IN
         /\ \A i, j \in DOMAIN m : m[i] = m[j] => i = j
         /\ \A i \in 1..Len(backends) : backends[i] # "nil" => \E j \in DOMAIN m : m[j] = backends[i]
<1>1. \A i, j \in Views!FirstUses(backends) : backends[i] = backends[j] => i = j
  BY DEF Views!FirstUses
<1>2. ASSUME NEW i \in 1..Len(backends), backends[i] # "nil"
      PROVE  \E j \in Views!FirstUses(backends) : backends[j] = backends[i]
  <2> DEFINE C == {j \in 1..Len(backends) : backends[j] = backends[i]}
  <2>1. C \subseteq Nat /\ C # {}  OBVIOUS
  <2>2. PICK m \in C : \A t \in C : ~(<<t, m>> \in OpToRel(<, Nat))
    <3> HIDE DEF C
    <3> QED BY <2>1, NatLessThanWellFounded, WFMin
  <2>3. \A t \in C : ~(t < m)
    <3> SUFFICES ASSUME NEW t \in C, t < m PROVE FALSE  OBVIOUS
    <3>1. t \in Nat /\ m \in Nat  OBVIOUS
    <3>2. <<t, m>> \in OpToRel(<, Nat)  BY <3>1, Zenon DEF OpToRel
    <3> QED BY <2>2, <3>2
  <2>4. m \in Views!FirstUses(backends)
    BY <1>2, <2>3 DEF Views!FirstUses
  <2> QED BY <2>4
<1> QED BY <1>1, <1>2 DEF Views!Registered

LEMMA ViewsStep == ViewsOK /\ ViewsInv /\ [Views!Next]_Views!vars => ViewsInv'
<1> SUFFICES ASSUME ViewsOK, ViewsInv, [Views!Next]_Views!vars PROVE ViewsInv'  OBVIOUS
<1>t. ViewsTypes  BY DEF ViewsInv
<1>1. ASSUME NEW refused \in BOOLEAN, NEW paths, Views!Mounted(refused, paths), paths \subseteq Views!Paths,
             \A r \in mount.routes : r.path \in paths => r.disabled
      PROVE  ViewsInv'
  <2>1. /\ UNCHANGED <<mount, up, cache, view, series, waiting, flips>>
        /\ phase' = IF refused THEN "refused" ELSE "serving"
        /\ served' = IF refused THEN {} ELSE paths
        /\ ~refused => meters' = Views!Registered(mount.backends)
    BY <1>1 DEF Views!Mounted
  <2>2. ViewsTypes' /\ Views!TerseStaysTerse' /\ Views!OneVerdict' /\ Views!SeriesAgree'
    BY <1>1, <1>t, <2>1 DEF ViewsInv, ViewsTypes, Views!Components, Views!TerseStaysTerse, Views!OneVerdict, Views!SeriesAgree,
       Views!Failing, Views!Of, Views!None
  <2>3. Len(mount.backends) \in Nat
    BY <1>t DEF ViewsOK, ViewsTypes
  <2>4. Views!OneOwner'
    <3> SUFFICES ASSUME ~refused PROVE Views!OneOwner'
      BY <2>1 DEF Views!OneOwner
    <3>1. LET m == Views!Registered(mount.backends) IN
          /\ \A i, j \in DOMAIN m : m[i] = m[j] => i = j
          /\ \A i \in 1..Len(mount.backends) : mount.backends[i] # "nil" => \E j \in DOMAIN m : m[j] = mount.backends[i]
      BY <2>3, ViewsRegistered
    <3> QED BY <1>1, <2>1, <3>1 DEF Views!OneOwner
  <2> QED BY <2>2, <2>4 DEF ViewsInv
<1>2. CASE Views!MountHealthEndpoints
  <2> DEFINE paths == IF mount.endpoints = "off" THEN {} ELSE Views!Paths \ Views!DeclaredPaths(mount)
  <2>1. Views!Mounted(mount.endpoints = "invalid", paths)
    BY <1>2 DEF Views!MountHealthEndpoints
  <2>2. paths \subseteq Views!Paths /\ \A r \in mount.routes : r.path \in paths => r.disabled
    BY <1>t DEF Views!DeclaredPaths, ViewsTypes, ViewsOK
  <2> HIDE DEF paths
  <2>3. (mount.endpoints = "invalid") \in BOOLEAN  OBVIOUS
  <2> QED BY <1>1, <2>1, <2>2, <2>3
<1>3. CASE Views!StartHealthListener
  <2>1. Views!Mounted(~mount.binds, Views!Paths) /\ mount.routes = {}
    BY <1>3, <1>t DEF Views!StartHealthListener, ViewsTypes, ViewsOK
  <2>2. (~mount.binds) \in BOOLEAN  OBVIOUS
  <2> QED BY <1>1, <2>1, <2>2
<1>4. ASSUME NEW c \in Views!Components, Views!Flip(c) PROVE ViewsInv'
  <2>1. UNCHANGED <<mount, phase, served, meters, cache, view, series, waiting>>
    BY <1>4 DEF Views!Flip
  <2>2. up' \in [Views!Components -> BOOLEAN]
    BY <1>4, <1>t DEF Views!Flip, ViewsTypes
  <2>3. flips' \in 0..ViewFlips
    BY <1>4, <1>t DEF Views!Flip, ViewsTypes, ViewsOK
  <2> QED BY <1>t, <2>1, <2>2, <2>3 DEF ViewsInv, ViewsTypes, Views!Components, Views!TerseStaysTerse, Views!OneVerdict, Views!OneOwner, Views!SeriesAgree,
       Views!Failing, Views!Of, Views!None
<1>5. ASSUME NEW path \in Views!Paths, NEW r \in ProbeRequests, Views!Probe(path, r) PROVE ViewsInv'
  <2> DEFINE render == Views!Negotiate(r, mount.endpoints = "verbose")
  <2>1. PICK rep \in Views!Reports(FALSE) : Views!Shown("handler", path, rep, Views!Response(path, rep, render))
    BY <1>5 DEF Views!Probe
  <2>2. rep \in [Views!Components -> BOOLEAN]
    BY <1>t, ViewsReports
  <2>3. render.verbose => mount.endpoints = "verbose"
    BY DEF Views!Negotiate
  <2> HIDE DEF render
  <2> QED BY <2>1, <2>2, <2>3, ViewsResponse, ViewsShown
<1>6. ASSUME NEW path \in Views!Paths, NEW o \in ProbeOptions, Views!ProbeResponseFunc(path, o) PROVE ViewsInv'
  <2>1. PICK rep \in Views!Reports(FALSE) : Views!Shown("function", path, rep, Views!Response(path, rep, Views!ProbeRender(o)))
    BY <1>6 DEF Views!ProbeResponseFunc
  <2>2. rep \in [Views!Components -> BOOLEAN]
    BY <1>t, ViewsReports
  <2> QED BY <2>1, <2>2, ViewsResponse, ViewsShown
<1>7. ASSUME NEW path \in {"readyz", "livez"}, NEW f \in {"bool", "status", "failing", "refresh"}, Views!HealthFunc(f, path)
      PROVE  ViewsInv'
  <2> DEFINE probe == Views!ProbeOf(path)
             lists(rep) == CASE f = "status" -> Views!Of(probe)
                             [] f = "failing" -> Views!Failing(rep, probe)
                             [] OTHER -> {}
  <2>1. PICK rep \in Views!Reports(f = "refresh") : Views!Shown(f, path, rep, Views!Answer(rep, probe, lists(rep)))
    BY <1>7 DEF Views!HealthFunc
  <2>2. rep \in [Views!Components -> BOOLEAN]
    BY <1>t, ViewsReports
  <2>3. Views!Failing(rep, probe) \subseteq Views!Of(probe)
    BY <2>2, ViewsPassing
  <2>4. lists(rep) # {} => Views!Failing(rep, probe) \subseteq lists(rep) /\ lists(rep) \subseteq Views!Of(probe)
    BY <2>3
  <2> HIDE DEF lists
  <2> QED BY <2>1, <2>2, <2>4, ViewsAnswer, ViewsShown
<1>8. ASSUME NEW path \in {"readyz", "livez"}, Views!HealthReportText(path) PROVE ViewsInv'
  <2>1. PICK rep \in Views!Reports(TRUE) :
          Views!Shown("text", path, rep, Views!Answer(rep, Views!ProbeOf(path), Views!Of(Views!ProbeOf(path))))
    BY <1>8 DEF Views!HealthReportText
  <2>2. rep \in [Views!Components -> BOOLEAN]
    BY <1>t, ViewsReports
  <2>3. Views!Failing(rep, Views!ProbeOf(path)) \subseteq Views!Of(Views!ProbeOf(path))
    BY <2>2, ViewsPassing
  <2> QED BY <2>1, <2>2, <2>3, ViewsAnswer, ViewsShown
<1>9. ASSUME NEW probe \in {"ready", "live"}, Views!ObserveHealth(probe) PROVE ViewsInv'
  <2>1. PICK rep \in Views!Reports(FALSE) :
          /\ series' = [p \in IF probe = "ready" THEN {"ready"} ELSE {"ready", "live"} |->
                          IF p = probe THEN Views!Series(rep, probe) ELSE series[p]]
          /\ cache' = rep
    BY <1>9 DEF Views!ObserveHealth
  <2>2. /\ UNCHANGED <<mount, phase, served, meters, up, waiting, flips>> /\ view' = Views!None
        /\ probe = "ready" <=> DOMAIN series # {"ready"}
    BY <1>9 DEF Views!ObserveHealth
  <2>3. rep \in [Views!Components -> BOOLEAN]
    BY <1>t, ViewsReports
  <2>4. ViewsTypes' /\ Views!TerseStaysTerse' /\ Views!OneVerdict' /\ Views!OneOwner'
    BY <1>t, <2>1, <2>2, <2>3 DEF ViewsInv, ViewsTypes, Views!Components, Views!TerseStaysTerse, Views!OneVerdict, Views!OneOwner, Views!None
  <2>5. /\ \A s \in DOMAIN Views!Series(rep, probe) : Views!Series(rep, probe)[s].passing + Views!Series(rep, probe)[s].failing = 1
        /\ Views!Series(rep, probe)["whole"].passing = 1 <=> \A c \in Views!Of(probe) : Views!Series(rep, probe)[c].passing = 1
    <3> DEFINE b(s) == IF s = "whole" THEN Views!Passing(rep, probe) ELSE rep[s]
               S == Views!Series(rep, probe)
    <3>1. DOMAIN S = Views!Of(probe) \cup {"whole"} /\ \A s \in Views!Of(probe) \cup {"whole"} : S[s] = Views!ObserveState(b(s))
      BY DEF Views!Series
    <3>2. "whole" \notin Views!Of(probe) /\ Views!Of(probe) \subseteq Views!Components
      BY DEF ViewsOK, Views!Of, Views!Components
    <3>3. \A x : /\ Views!ObserveState(x).passing + Views!ObserveState(x).failing = 1
                 /\ Views!ObserveState(x).passing = 1 <=> x
      BY DEF Views!ObserveState
    <3>4. Views!Passing(rep, probe) <=> \A c \in Views!Of(probe) : rep[c]
      BY DEF Views!Passing
    <3> HIDE DEF S
    <3>5. \A s \in DOMAIN S : S[s].passing + S[s].failing = 1
      BY <3>1, <3>3
    <3>6. S["whole"].passing = 1 <=> Views!Passing(rep, probe)
      BY <3>1, <3>3
    <3>7. \A c \in Views!Of(probe) : S[c].passing = 1 <=> rep[c]
      BY <3>1, <3>2, <3>3
    <3>8. S["whole"].passing = 1 <=> \A c \in Views!Of(probe) : S[c].passing = 1
      BY <3>4, <3>6, <3>7
    <3> QED BY <3>5, <3>8 DEF S
  <2>6. Views!SeriesAgree'
    <3> SUFFICES ASSUME NEW p \in DOMAIN series'
                 PROVE  /\ \A s \in DOMAIN series'[p] : series'[p][s].passing + series'[p][s].failing = 1
                        /\ series'[p]["whole"].passing = 1 <=> \A c \in Views!Of(p) : series'[p][c].passing = 1
      BY DEF Views!SeriesAgree, Views!Of
    <3>1. CASE p = probe
      BY <2>1, <2>5, <3>1
    <3>2. CASE p # probe
      <4>1. probe = "live" /\ p = "ready" /\ p \in DOMAIN series /\ series'[p] = series[p]
        BY <2>1, <2>2, <3>2
      <4> QED BY <4>1 DEF ViewsInv, Views!SeriesAgree
    <3> QED BY <3>1, <3>2
  <2> QED BY <2>4, <2>6 DEF ViewsInv
<1>10. CASE Views!AwaitReady
  <2>1. PICK rep \in Views!PollReports :
          /\ cache' = rep
          /\ waiting' \in {"ready", "polling", "timedOut"}
          /\ view' = [from |-> "await", probe |-> "ready", report |-> up,
                      response |-> Views!Answer(rep, "ready", Views!Failing(rep, "ready"))]
    BY <1>10 DEF Views!AwaitReady
  <2>2. UNCHANGED <<mount, phase, served, meters, up, series, flips>>
    BY <1>10 DEF Views!AwaitReady
  <2>3. rep = up
    BY DEF Views!PollReports, Views!Reports
  <2>4. ViewsTypes' /\ Views!TerseStaysTerse' /\ Views!OneOwner' /\ Views!SeriesAgree'
    BY <1>t, <2>1, <2>2, <2>3 DEF ViewsInv, ViewsTypes, Views!Components, Views!TerseStaysTerse, Views!OneOwner, Views!SeriesAgree, Views!Of
  <2>5. LET r == Views!Answer(up, "ready", Views!Failing(up, "ready")) IN
         /\ r.status = 200 <=> Views!Failing(up, "ready") = {}
         /\ r.body # "none" /\ (r.body = "passing" <=> r.status = 200)
         /\ r.lists = Views!Failing(up, "ready")
    BY ViewsAnswer
  <2>6. Views!Failing(up, "ready") \subseteq Views!Of("ready")
    BY DEF Views!Failing
  <2>7. Views!OneVerdict'
    <3>1. /\ view'.report = up' /\ view'.probe = "ready" /\ view'.response = Views!Answer(up, "ready", Views!Failing(up, "ready"))
      BY <2>1, <2>2, <2>3
    <3> QED BY <2>2, <2>5, <2>6, <3>1 DEF Views!OneVerdict, Views!Failing, Views!Of
  <2> QED BY <2>4, <2>7 DEF ViewsInv
<1>11. CASE UNCHANGED Views!vars
  BY <1>t, <1>11 DEF Views!vars, ViewsInv, ViewsTypes, Views!Components, Views!TerseStaysTerse, Views!OneVerdict, Views!OneOwner, Views!SeriesAgree,
       Views!Failing, Views!Of, Views!None
<1> QED BY <1>2, <1>3, <1>4, <1>5, <1>6, <1>7, <1>8, <1>9, <1>10, <1>11 DEF Views!Next

LEMMA ViewsInvariant == ViewsOK => (Views!Spec => []ViewsInv)
<1> SUFFICES ASSUME ViewsOK PROVE Views!Spec => []ViewsInv  OBVIOUS
<1>1. ViewsInv /\ [Views!Next]_Views!vars => ViewsInv'
  BY ViewsStep
<1>2. Views!Init => ViewsInv
  <2> SUFFICES ASSUME Views!Init PROVE ViewsInv  OBVIOUS
  <2>1. view.from = "none" /\ view = Views!None /\ DOMAIN series = {}
    BY DEF Views!Init, Views!None, Views!NoSeries
  <2> QED BY <2>1 DEF Views!Init, ViewsOK, ViewsInv, ViewsTypes, Views!TerseStaysTerse, Views!OneVerdict, Views!OneOwner, Views!SeriesAgree
<1> QED BY <1>1, <1>2, PTL DEF Views!Spec

LEMMA ViewsTypeCorrect == ViewsOK => (Views!Spec => []Views!TypeOK)
<1> SUFFICES ASSUME ViewsOK PROVE Views!Spec => []Views!TypeOK  OBVIOUS
<1>i. Views!Spec => []ViewsInv  BY ViewsInvariant
<1>1. ViewsInv => Views!TypeOK  BY DEF ViewsInv, ViewsTypes, Views!TypeOK
<1> QED BY <1>1, <1>i, PTL

\* A terse endpoint stays terse.
THEOREM ViewsTerseStaysTerse == ViewsOK => (Views!Spec => []Views!TerseStaysTerse)
<1> SUFFICES ASSUME ViewsOK PROVE Views!Spec => []Views!TerseStaysTerse  OBVIOUS
<1>i. Views!Spec => []ViewsInv  BY ViewsInvariant
<1>1. ViewsInv => Views!TerseStaysTerse  BY DEF ViewsInv
<1> QED BY <1>1, <1>i, PTL

\* Every view of health tells of one report.
THEOREM ViewsOneVerdict == ViewsOK => (Views!Spec => []Views!OneVerdict)
<1> SUFFICES ASSUME ViewsOK PROVE Views!Spec => []Views!OneVerdict  OBVIOUS
<1>i. Views!Spec => []ViewsInv  BY ViewsInvariant
<1>1. ViewsInv => Views!OneVerdict  BY DEF ViewsInv
<1> QED BY <1>1, <1>i, PTL

LEMMA ViewsOneOwner == ViewsOK => (Views!Spec => []Views!OneOwner)
<1> SUFFICES ASSUME ViewsOK PROVE Views!Spec => []Views!OneOwner  OBVIOUS
<1>i. Views!Spec => []ViewsInv  BY ViewsInvariant
<1>1. ViewsInv => Views!OneOwner  BY DEF ViewsInv
<1> QED BY <1>1, <1>i, PTL

LEMMA ViewsSeriesAgree == ViewsOK => (Views!Spec => []Views!SeriesAgree)
<1> SUFFICES ASSUME ViewsOK PROVE Views!Spec => []Views!SeriesAgree  OBVIOUS
<1>i. Views!Spec => []ViewsInv  BY ViewsInvariant
<1>1. ViewsInv => Views!SeriesAgree  BY DEF ViewsInv
<1> QED BY <1>1, <1>i, PTL

-----------------------------------------------------------------------------
(* Metrics.                                                                *)

Meter == INSTANCE Metrics WITH
  Configs <- MetricConfigs

MetricsOK == MaxValue \in Nat \ {0} /\ MaxPolls \in Nat /\ \A c \in MetricConfigs : Len(c.blocks) \in Nat

MetricsNames == {Meter!Blocks[m].name : m \in Meter!Metrics}
MetricsCall(k) ==
  \/ k = Meter!Idle
  \/ \E m \in Meter!Metrics, s \in Meter!Series, d \in Int :
       /\ k = [op |-> "add", m |-> m, s |-> s, delta |-> d]
       /\ Meter!Blocks[m].kind = "counter" => d >= 0

LEMMA MetricsCallsSame ==
  ASSUME UNCHANGED <<cfg, call>>, \A x \in Callers : MetricsCall(call[x])
  PROVE  \A x \in Callers : MetricsCall(call[x])'
BY DEF MetricsCall, Meter!Metrics, Meter!Blocks, Meter!Series, Meter!Idle

\* The building half: what is recorded, and that it is complete and distinct
\* once blocks are processed.
MetricsBuilt ==
  /\ cfg \in MetricConfigs
  /\ phase \in {"preprocess", "process", "running", "stopped", "refused"}
  /\ names \in Seq(MetricsNames) /\ Len(names) <= Len(Meter!Blocks)
  /\ \A k \in 1..Len(names) : names[k] = Meter!Blocks[k].name
  /\ \A j, k \in 1..Len(names) : names[j] = names[k] => j = k
  /\ phase \in {"process", "running", "stopped"} => Len(names) = Len(Meter!Blocks)
  /\ done \in 0..Len(Meter!Blocks) /\ started \subseteq Meter!Metrics
  /\ phase = "preprocess" => done = 0

\* The numbers: what a caller still owes a counter is never negative.
MetricsNumbers ==
  /\ val \in [Meter!Metrics -> [Meter!Series -> -MaxValue..MaxValue]]
  /\ exported \in [Meter!Metrics -> [Meter!Series -> Int]]
  /\ DOMAIN call = Callers /\ \A c \in Callers : MetricsCall(call[c])
  /\ poll \in [Meter!Metrics -> [state : {"off", "due", "apply", "waiting"}, value : {0, 1}]]

\* The last line logged is the failure that stands.
MetricsTold ==
  /\ fault \in [Meter!Metrics -> {"", "evaluation", "type"}]
  /\ told \in [Meter!Metrics -> [line : {"", "recovered", "evaluation", "type"}, run : {0, 1}]]
  /\ \A m \in Meter!Metrics : IF fault[m] = "" THEN told[m].line \in {"", "recovered"} ELSE told[m].line = fault[m]

MetricsInv == MetricsBuilt /\ MetricsNumbers /\ MetricsTold /\ Meter!NoneHidden

LEMMA MetricsSetDelta ==
  ASSUME NEW m, NEW old \in -MaxValue..MaxValue, NEW new \in -MaxValue..MaxValue, MetricsOK
  PROVE  LET d == Meter!SetDelta(m, old, new) IN
         /\ d \in Int /\ old + d \in -MaxValue..MaxValue
         /\ Meter!Blocks[m].kind = "counter" => d >= 0
BY DEF Meter!SetDelta, MetricsOK

\* Building leaves the numbers alone, running leaves what was built.
LEMMA MetricsUnrun ==
  ASSUME MetricsNumbers, MetricsTold, cfg' = cfg, Meter!Unrun
  PROVE  MetricsNumbers' /\ MetricsTold'
<1>1. Meter!Blocks' = Meter!Blocks /\ Meter!Metrics' = Meter!Metrics
  BY DEF Meter!Metrics, Meter!Blocks
<1>2. MetricsTold'
  BY <1>1 DEF MetricsTold, Meter!Unrun
<1>3. \A c \in Callers : MetricsCall(call[c])'
  BY <1>1 DEF MetricsNumbers, MetricsCall, Meter!Unrun, Meter!Idle, Meter!Series
<1>4. MetricsNumbers'
  BY <1>1, <1>3 DEF MetricsNumbers, Meter!Unrun, Meter!Series
<1> QED BY <1>2, <1>4

LEMMA MetricsRun ==
  ASSUME MetricsBuilt, Meter!NoneHidden, UNCHANGED <<cfg, phase, names, done, published, started>>
  PROVE  MetricsBuilt' /\ Meter!NoneHidden'
BY DEF MetricsBuilt, Meter!NoneHidden, MetricsNames, Meter!Metrics, Meter!Blocks, Meter!Key

LEMMA MetricsInit == MetricsOK /\ Meter!Init => MetricsInv
<1> SUFFICES ASSUME MetricsOK, Meter!Init PROVE MetricsInv  OBVIOUS
<1>1. Len(Meter!Blocks) \in Nat /\ MaxValue \in Nat /\ 0 \in -MaxValue..MaxValue
  <2>1. cfg \in MetricConfigs  BY Zenon DEF Meter!Init
  <2> QED BY <2>1 DEF MetricsOK, Meter!Blocks
<1>2. cfg \in MetricConfigs /\ phase = "preprocess" /\ names = << >> /\ done = 0 /\ started = {}
  BY DEF Meter!Init
<1>3. MetricsBuilt
  BY <1>1, <1>2 DEF MetricsBuilt
<1>4. Meter!NoneHidden
  BY <1>2 DEF Meter!NoneHidden
<1>5. /\ val = [m \in Meter!Metrics |-> [s \in Meter!Series |-> 0]] /\ exported = val
      /\ call = [c \in Callers |-> Meter!Idle] /\ poll = [m \in Meter!Metrics |-> Meter!Quiet]
  BY Zenon DEF Meter!Init
<1>6. MetricsNumbers
  <2>1. val \in [Meter!Metrics -> [Meter!Series -> -MaxValue..MaxValue]]  BY <1>5, <1>1
  <2>2. exported \in [Meter!Metrics -> [Meter!Series -> Int]]  BY <1>5
  <2>3. DOMAIN call = Callers /\ \A c \in Callers : MetricsCall(call[c])  BY <1>5 DEF MetricsCall
  <2>4. poll \in [Meter!Metrics -> [state : {"off", "due", "apply", "waiting"}, value : {0, 1}]]  BY <1>5 DEF Meter!Quiet
  <2> QED BY <2>1, <2>2, <2>3, <2>4 DEF MetricsNumbers
<1>7. fault = [m \in Meter!Metrics |-> ""] /\ told = [m \in Meter!Metrics |-> [line |-> "", run |-> 0]]
  BY Zenon DEF Meter!Init
<1>8. MetricsTold
  BY <1>7 DEF MetricsTold
<1> QED BY <1>3, <1>4, <1>6, <1>8 DEF MetricsInv

LEMMA MetricsPreprocess == MetricsOK /\ MetricsInv /\ Meter!Preprocess => MetricsInv'
<1> SUFFICES ASSUME MetricsOK, MetricsInv, Meter!Preprocess PROVE MetricsInv'  OBVIOUS
<1> USE DEF MetricsInv
<1>0. Len(Meter!Blocks) \in Nat  BY DEF MetricsOK, MetricsBuilt, Meter!Blocks
<1>1. MetricsNumbers' /\ MetricsTold'
  BY MetricsUnrun DEF Meter!Preprocess
<1>2. Meter!NoneHidden'
  BY DEF Meter!Preprocess, Meter!NoneHidden, Meter!Metrics, Meter!Blocks, Meter!Key
<1>3. CASE names' = names
  BY <1>0, <1>1, <1>2, <1>3 DEF Meter!Preprocess, MetricsBuilt, MetricsNames, Meter!Metrics, Meter!Blocks
<1>4. CASE names' # names
  <2> DEFINE n == Len(names)  name == Meter!Blocks[n + 1].name
  <2>1. /\ phase' = "preprocess" /\ names' = Append(names, name) /\ n < Len(Meter!Blocks)
        /\ \A k \in 1..n : names[k] # name
        /\ UNCHANGED <<cfg, done, published, started>> /\ phase = "preprocess"
    BY <1>4 DEF Meter!Preprocess
  <2>2. name \in MetricsNames /\ n \in Nat
    BY <2>1, <1>0 DEF MetricsNames, Meter!Metrics, MetricsBuilt
  <2>3. Len(names') = n + 1 /\ names' \in Seq(MetricsNames) /\ \A k \in 1..(n + 1) : names'[k] = IF k = n + 1 THEN name ELSE names[k]
    BY <2>1, <2>2 DEF MetricsBuilt
  <2>4. MetricsNames' = MetricsNames  BY <2>1 DEF MetricsNames, Meter!Metrics, Meter!Blocks
  <2>5. Meter!Blocks' = Meter!Blocks /\ Meter!Metrics' = Meter!Metrics
    BY <2>1 DEF Meter!Metrics, Meter!Blocks
  <2>6. \A k \in 1..(n + 1) : names'[k] = Meter!Blocks[k].name
    BY <2>2, <2>3 DEF MetricsBuilt
  <2>7. \A j, k \in 1..(n + 1) : names'[j] = names'[k] => j = k
    BY <2>1, <2>2, <2>3 DEF MetricsBuilt
  <2> HIDE DEF n, name
  <2>8. Len(names') = n + 1 /\ n + 1 <= Len(Meter!Blocks)
    BY <2>1, <2>2, <2>3, <1>0
  <2>9. (names \in Seq(MetricsNames))' /\ (Len(names) <= Len(Meter!Blocks))'
    BY <2>3, <2>4, <2>5, <2>8
  <2>10. (\A k \in 1..Len(names) : names[k] = Meter!Blocks[k].name)' /\ (\A j, k \in 1..Len(names) : names[j] = names[k] => j = k)'
    BY <2>5, <2>6, <2>7, <2>8
  <2>11. (done \in 0..Len(Meter!Blocks) /\ started \subseteq Meter!Metrics /\ cfg \in MetricConfigs)' /\ done' = 0
    BY <2>1, <2>5, <1>0 DEF MetricsBuilt
  <2>12. MetricsBuilt'
    BY <2>1, <2>9, <2>10, <2>11 DEF MetricsBuilt
  <2> QED BY <2>12, <1>1, <1>2
<1> QED BY <1>3, <1>4

LEMMA MetricsProcess == MetricsOK /\ MetricsInv /\ Meter!Process => MetricsInv'
<1> SUFFICES ASSUME MetricsOK, MetricsInv, Meter!Process PROVE MetricsInv'  OBVIOUS
<1> USE DEF MetricsInv
<1>0. Len(Meter!Blocks) \in Nat  BY DEF MetricsOK, MetricsBuilt, Meter!Blocks
<1>1. MetricsNumbers' /\ MetricsTold'
  BY MetricsUnrun DEF Meter!Process
<1>2. MetricsBuilt'
  <2>1. /\ UNCHANGED <<cfg, names>> /\ phase = "process" /\ phase' \in {"process", "refused"}
        /\ done < Len(Meter!Blocks) /\ done' \in {done, done + 1}
        /\ started' \in {started, started \cup {done + 1}}
    BY DEF Meter!Process
  <2>2. Meter!Blocks' = Meter!Blocks /\ Meter!Metrics' = Meter!Metrics /\ MetricsNames' = MetricsNames
    BY <2>1 DEF Meter!Metrics, Meter!Blocks, MetricsNames
  <2>3. (done \in 0..Len(Meter!Blocks) /\ started \subseteq Meter!Metrics)'
    BY <2>1, <2>2, <1>0 DEF MetricsBuilt, Meter!Metrics
  <2> QED BY <2>1, <2>2, <2>3 DEF MetricsBuilt
<1>3. Meter!NoneHidden'
  <2> DEFINE b == Meter!Blocks[done + 1]
  <2>1. CASE Meter!Valid(b)
    <3>1. /\ done' = done + 1 /\ cfg' = cfg /\ done < Len(Meter!Blocks) /\ phase = "process"
          /\ published' = {p \in published : p.key # Meter!Key(b.name)} \cup {[key |-> Meter!Key(b.name), m |-> done + 1]}
      BY <2>1 DEF Meter!Process
    <3> SUFFICES ASSUME \A m \in Meter!Metrics : Meter!Blocks[m].ns = << >>, NEW m \in 1..(done + 1)
                 PROVE  [key |-> Meter!Key(Meter!Blocks[m].name), m |-> m] \in published'
      BY <3>1 DEF Meter!NoneHidden, Meter!Metrics, Meter!Blocks, Meter!Key
    <3>2. CASE m = done + 1
      BY <3>1, <3>2
    <3>3. CASE m # done + 1
      <4>1. m \in 1..done /\ done + 1 \in Meter!Metrics /\ m \in 1..Len(names) /\ done + 1 \in 1..Len(names) /\ done \in Nat
        BY <3>3, <3>1, <1>0 DEF MetricsBuilt, Meter!Metrics
      <4>2. names[m] = Meter!Blocks[m].name /\ names[done + 1] = b.name /\ names[m] # names[done + 1]
        BY <4>1, <3>3 DEF MetricsBuilt
      <4>3. Meter!Key(names[m]) # Meter!VclKey(b)
        BY <4>1, <4>2, <2>1 DEF Meter!Valid, Meter!Collides
      <4>4. Meter!VclKey(b) = Meter!Key(b.name)
        BY <4>1 DEF Meter!VclKey
      <4>5. [key |-> Meter!Key(Meter!Blocks[m].name), m |-> m] \in published
        BY <4>1 DEF Meter!NoneHidden
      <4> QED BY <4>2, <4>3, <4>4, <4>5, <3>1
    <3> QED BY <3>2, <3>3
  <2>2. CASE ~Meter!Valid(b)
    <3>1. UNCHANGED <<cfg, done, published>>
      BY <2>2 DEF Meter!Process
    <3> QED BY <3>1 DEF Meter!NoneHidden, Meter!Metrics, Meter!Blocks, Meter!Key
  <2> QED BY <2>1, <2>2
<1> QED BY <1>1, <1>2, <1>3

LEMMA MetricsCalls ==
  ASSUME MetricsOK, MetricsInv, NEW c \in Callers, NEW m \in Meter!Metrics, NEW s \in Meter!Series,
         NEW d \in Int, val[m][s] + d \in -MaxValue..MaxValue, Meter!Blocks[m].kind = "counter" => d >= 0,
         val' = [val EXCEPT ![m][s] = @ + d],
         call' = [call EXCEPT ![c] = [op |-> "add", m |-> m, s |-> s, delta |-> d]],
         Meter!Built, UNCHANGED exported
  PROVE  MetricsInv'
<1> USE DEF MetricsInv
<1>1. MetricsBuilt' /\ Meter!NoneHidden'
  BY MetricsRun DEF Meter!Built
<1>2. MetricsTold'
  BY DEF MetricsTold, Meter!Built, Meter!Metrics, Meter!Blocks
<1>3. val' \in [Meter!Metrics -> [Meter!Series -> -MaxValue..MaxValue]]
  BY DEF MetricsNumbers
<1>4. ASSUME NEW x \in Callers PROVE MetricsCall(call[x])'
  <2>1. Meter!Blocks' = Meter!Blocks /\ Meter!Metrics' = Meter!Metrics
    BY DEF Meter!Built, Meter!Metrics, Meter!Blocks
  <2>2. call'[x] = IF x = c THEN [op |-> "add", m |-> m, s |-> s, delta |-> d] ELSE call[x]
    BY DEF MetricsNumbers
  <2>3. MetricsCall(call[x])
    BY DEF MetricsNumbers
  <2>4. CASE x = c
    BY <2>1, <2>2, <2>4 DEF MetricsCall
  <2>5. CASE x # c
    BY <2>1, <2>2, <2>3, <2>5 DEF MetricsCall, Meter!Idle, Meter!Series
  <2> QED BY <2>4, <2>5
<1> QED BY <1>1, <1>2, <1>3, <1>4 DEF MetricsNumbers, Meter!Built, Meter!Metrics, Meter!Blocks, Meter!Series

LEMMA MetricsStep == MetricsOK /\ MetricsInv /\ [Meter!Next]_Meter!vars => MetricsInv' /\ (Meter!CountersRise \/ UNCHANGED Meter!vars)
<1> SUFFICES ASSUME MetricsOK, MetricsInv, [Meter!Next]_Meter!vars
             PROVE  MetricsInv' /\ (Meter!CountersRise \/ UNCHANGED Meter!vars)
  OBVIOUS
<1> USE DEF MetricsInv
<1>0. Len(Meter!Blocks) \in Nat  BY DEF MetricsOK, MetricsBuilt, Meter!Blocks
<1>r. UNCHANGED <<cfg, exported>> => Meter!CountersRise
  BY DEF Meter!CountersRise, MetricsNumbers
<1>1. CASE Meter!Preprocess
  BY <1>1, <1>r, MetricsPreprocess DEF Meter!Preprocess, Meter!Unrun
<1>2. CASE Meter!FinishPreprocessing
  <2>1. MetricsNumbers' /\ MetricsTold'
    BY <1>2, MetricsUnrun DEF Meter!FinishPreprocessing
  <2>2. MetricsBuilt' /\ Meter!NoneHidden'
    BY <1>2 DEF Meter!FinishPreprocessing, MetricsBuilt, Meter!NoneHidden, MetricsNames, Meter!Metrics, Meter!Blocks, Meter!Key
  <2> QED BY <1>2, <1>r, <2>1, <2>2 DEF Meter!FinishPreprocessing, Meter!Unrun
<1>3. CASE Meter!Process
  BY <1>3, <1>r, MetricsProcess DEF Meter!Process, Meter!Unrun
<1>4. CASE Meter!Start
  <2>1. MetricsBuilt' /\ Meter!NoneHidden'
    BY <1>4 DEF Meter!Start, MetricsBuilt, Meter!NoneHidden, MetricsNames, Meter!Metrics, Meter!Blocks, Meter!Key
  <2>2. MetricsTold'
    BY <1>4 DEF Meter!Start, MetricsTold, Meter!Metrics, Meter!Blocks
  <2>3. poll' \in [Meter!Metrics -> [state : {"off", "due", "apply", "waiting"}, value : {0, 1}]]
    BY <1>4 DEF Meter!Start, Meter!Quiet
  <2>4. \A x \in Callers : MetricsCall(call[x])'
    BY <1>4 DEF Meter!Start, MetricsNumbers, MetricsCall, Meter!Metrics, Meter!Blocks, Meter!Series, Meter!Idle
  <2>5. MetricsNumbers'
    BY <1>4, <2>3, <2>4 DEF Meter!Start, MetricsNumbers, Meter!Metrics, Meter!Blocks
  <2> QED BY <1>4, <1>r, <2>1, <2>2, <2>5 DEF Meter!Start
<1>5. CASE Meter!Stop
  <2>1. MetricsNumbers' /\ MetricsTold'
    BY <1>5, MetricsUnrun DEF Meter!Stop
  <2>2. MetricsBuilt' /\ Meter!NoneHidden'
    BY <1>5 DEF Meter!Stop, MetricsBuilt, Meter!NoneHidden, MetricsNames, Meter!Metrics, Meter!Blocks, Meter!Key
  <2> QED BY <1>5, <1>r, <2>1, <2>2 DEF Meter!Stop, Meter!Unrun
<1>6. ASSUME NEW c \in Callers, NEW m \in Meter!Metrics, NEW s \in Meter!Series, NEW v \in {-1, 1}, Meter!Increment(c, m, s, v)
      PROVE  MetricsInv' /\ Meter!CountersRise
  <2>1. MetricsInv'
    <3>1. v \in Int  OBVIOUS
    <3> QED BY <1>6, <3>1, MetricsCalls DEF Meter!Increment, Meter!InRange
  <2> QED BY <1>6, <1>r, <2>1 DEF Meter!Increment, Meter!Built
<1>7. ASSUME NEW c \in Callers, NEW m \in Meter!Metrics, NEW s \in Meter!Series, NEW v \in {-1, 1}, Meter!Observe(c, m, s, v)
      PROVE  MetricsInv' /\ Meter!CountersRise
  <2>1. MetricsBuilt' /\ Meter!NoneHidden'
    BY <1>7, MetricsRun DEF Meter!Observe, Meter!Built
  <2>2. MetricsTold'
    BY <1>7 DEF Meter!Observe, MetricsTold, Meter!Built, Meter!Metrics, Meter!Blocks
  <2>3. \A x \in Callers : MetricsCall(call[x])'
    BY <1>7 DEF Meter!Observe, MetricsNumbers, MetricsCall, Meter!Built, Meter!Metrics, Meter!Blocks, Meter!Series, Meter!Idle
  <2>4. exported' \in [Meter!Metrics -> [Meter!Series -> Int]]
    BY <1>7 DEF Meter!Observe, MetricsNumbers
  <2>5. MetricsNumbers'
    BY <1>7, <2>3, <2>4 DEF Meter!Observe, MetricsNumbers, Meter!Built, Meter!Metrics, Meter!Blocks
  <2>6. Meter!CountersRise
    BY <1>7 DEF Meter!Observe, Meter!CountersRise, MetricsNumbers
  <2> QED BY <2>1, <2>2, <2>5, <2>6
<1>8. ASSUME NEW c \in Callers, NEW m \in Meter!Metrics, NEW s \in Meter!Series, NEW v \in {0, MaxValue}, Meter!Set(c, m, s, v)
      PROVE  MetricsInv' /\ Meter!CountersRise
  <2> DEFINE d == Meter!SetDelta(m, val[m][s], v)
  <2>1. val[m][s] \in -MaxValue..MaxValue /\ v \in -MaxValue..MaxValue
    BY DEF MetricsNumbers, MetricsOK
  <2>2. d \in Int /\ val[m][s] + d \in -MaxValue..MaxValue /\ (Meter!Blocks[m].kind = "counter" => d >= 0)
    BY <2>1, MetricsSetDelta
  <2>3. /\ val' = [val EXCEPT ![m][s] = @ + d]
        /\ call' = [call EXCEPT ![c] = [op |-> "add", m |-> m, s |-> s, delta |-> d]]
        /\ Meter!Built /\ UNCHANGED exported
    BY <1>8 DEF Meter!Set
  <2>4. MetricsInv'
    <3> HIDE DEF d
    <3> QED BY <2>2, <2>3, MetricsCalls
  <2> QED BY <2>3, <2>4, <1>r DEF Meter!Built
<1>9. ASSUME NEW c \in Callers, Meter!Add(c)
      PROVE  MetricsInv' /\ Meter!CountersRise
  <2>1. MetricsBuilt' /\ Meter!NoneHidden'
    BY <1>9, MetricsRun DEF Meter!Add, Meter!Built
  <2>2. MetricsTold'
    BY <1>9 DEF Meter!Add, MetricsTold, Meter!Built, Meter!Metrics, Meter!Blocks
  <2>3. PICK m \in Meter!Metrics, s \in Meter!Series, d \in Int :
          /\ call[c] = [op |-> "add", m |-> m, s |-> s, delta |-> d]
          /\ Meter!Blocks[m].kind = "counter" => d >= 0
    BY <1>9 DEF Meter!Add, MetricsNumbers, MetricsCall, Meter!Idle
  <2>4. exported' = [exported EXCEPT ![m][s] = @ + d] /\ call' = [call EXCEPT ![c] = Meter!Idle] /\ Meter!Built /\ val' = val
    BY <1>9, <2>3 DEF Meter!Add, Meter!Added
  <2>5. exported' \in [Meter!Metrics -> [Meter!Series -> Int]]
    BY <2>4 DEF MetricsNumbers
  <2>6. \A x \in Callers : MetricsCall(call[x])'
    BY <2>4 DEF MetricsNumbers, MetricsCall, Meter!Built, Meter!Metrics, Meter!Blocks, Meter!Series, Meter!Idle
  <2>7. MetricsNumbers'
    BY <2>4, <2>5, <2>6 DEF MetricsNumbers, Meter!Built, Meter!Metrics, Meter!Blocks
  <2>8. Meter!CountersRise
    BY <2>3, <2>4 DEF Meter!CountersRise, MetricsNumbers
  <2> QED BY <2>1, <2>2, <2>7, <2>8
<1>10. ASSUME NEW m \in Meter!Metrics, Meter!PollApplies(m)
       PROVE  MetricsInv' /\ Meter!CountersRise
  <2> DEFINE d == Meter!SetDelta(m, val[m]["none"], poll[m].value)
  <2>1. "none" \in Meter!Series  BY DEF Meter!Series
  <2>2. val[m]["none"] \in -MaxValue..MaxValue /\ poll[m].value \in -MaxValue..MaxValue /\ poll[m].value \in Int
    BY <2>1 DEF MetricsNumbers, MetricsOK
  <2>3. d \in Int /\ val[m]["none"] + d \in -MaxValue..MaxValue /\ (Meter!Blocks[m].kind = "counter" => d >= 0)
    BY <2>2, MetricsSetDelta
  <2>4. MetricsBuilt' /\ Meter!NoneHidden'
    BY <1>10, MetricsRun DEF Meter!PollApplies, Meter!Polling
  <2>5. MetricsTold'
    BY <1>10 DEF Meter!PollApplies, MetricsTold, Meter!Polling, Meter!Metrics, Meter!Blocks
  <2>6. poll' \in [Meter!Metrics -> [state : {"off", "due", "apply", "waiting"}, value : {0, 1}]]
    BY <1>10 DEF Meter!PollApplies, MetricsNumbers, Meter!Quiet
  <2>7. \A x \in Callers : MetricsCall(call[x])'
    BY <1>10 DEF Meter!PollApplies, MetricsNumbers, MetricsCall, Meter!Polling, Meter!Metrics, Meter!Blocks, Meter!Series, Meter!Idle
  <2>8. CASE Meter!Blocks[m].kind = "histogram"
    <3>1. exported' = [exported EXCEPT ![m]["none"] = @ + poll[m].value] /\ val' = val /\ cfg' = cfg /\ call' = call
      BY <1>10, <2>8 DEF Meter!PollApplies, Meter!Polling
    <3>2. MetricsNumbers'
      BY <3>1, <2>1, <2>2, <2>6, <2>7 DEF MetricsNumbers, Meter!Metrics, Meter!Blocks
    <3>3. Meter!CountersRise
      BY <3>1, <2>8 DEF Meter!CountersRise, MetricsNumbers
    <3> QED BY <2>4, <2>5, <3>2, <3>3
  <2>9. CASE Meter!Blocks[m].kind # "histogram"
    <3>1. /\ exported' = [exported EXCEPT ![m]["none"] = @ + d] /\ val' = [val EXCEPT ![m]["none"] = @ + d]
          /\ cfg' = cfg /\ call' = call
      BY <1>10, <2>9 DEF Meter!PollApplies, Meter!Polling
    <3> HIDE DEF d
    <3>2. val' \in [Meter!Metrics -> [Meter!Series -> -MaxValue..MaxValue]] /\ exported' \in [Meter!Metrics -> [Meter!Series -> Int]]
      BY <3>1, <2>1, <2>3 DEF MetricsNumbers
    <3>3. MetricsNumbers'
      BY <3>1, <3>2, <2>6, <2>7 DEF MetricsNumbers, Meter!Metrics, Meter!Blocks
    <3>4. Meter!CountersRise
      BY <3>1, <2>3 DEF Meter!CountersRise, MetricsNumbers
    <3> QED BY <2>4, <2>5, <3>3, <3>4
  <2> QED BY <2>8, <2>9
<1>11. ASSUME NEW m \in Meter!Metrics,
              \/ Meter!Ticks(m) \/ Meter!PollingEnds(m) \/ \E v \in 0..1 : Meter!PollSucceeds(m, v)
              \/ \E what \in {"evaluation", "type"} : Meter!PollFails(m, what)
       PROVE  MetricsInv' /\ Meter!CountersRise
  <2>1. Meter!Polling /\ UNCHANGED <<val, exported>>
    BY <1>11 DEF Meter!Ticks, Meter!PollingEnds, Meter!PollSucceeds, Meter!PollFails
  <2>2. MetricsBuilt' /\ Meter!NoneHidden'
    BY <2>1, MetricsRun DEF Meter!Polling
  <2>3. poll' \in [Meter!Metrics -> [state : {"off", "due", "apply", "waiting"}, value : {0, 1}]]
    <3>0. poll \in [Meter!Metrics -> [state : {"off", "due", "apply", "waiting"}, value : {0, 1}]]
      BY DEF MetricsNumbers
    <3>1. CASE Meter!Ticks(m)
      BY <3>0, <3>1 DEF Meter!Ticks
    <3>2. CASE Meter!PollingEnds(m)
      BY <3>0, <3>2 DEF Meter!PollingEnds, Meter!Quiet
    <3>3. ASSUME NEW v \in 0..1, Meter!PollSucceeds(m, v)
          PROVE  poll' \in [Meter!Metrics -> [state : {"off", "due", "apply", "waiting"}, value : {0, 1}]]
      <4>1. [state |-> "apply", value |-> v] \in [state : {"off", "due", "apply", "waiting"}, value : {0, 1}]
        OBVIOUS
      <4>2. poll' = [poll EXCEPT ![m] = [state |-> "apply", value |-> v]]
        BY <3>3 DEF Meter!PollSucceeds
      <4> QED BY <3>0, <4>1, <4>2
    <3>4. ASSUME NEW what \in {"evaluation", "type"}, Meter!PollFails(m, what)
          PROVE  poll' \in [Meter!Metrics -> [state : {"off", "due", "apply", "waiting"}, value : {0, 1}]]
      BY <3>0, <3>4 DEF Meter!PollFails
    <3> QED BY <1>11, <3>1, <3>2, <3>3, <3>4
  <2>4. \A x \in Callers : MetricsCall(call[x])'
    <3>1. UNCHANGED <<cfg, call>>
      BY <2>1 DEF Meter!Polling
    <3>2. \A x \in Callers : MetricsCall(call[x])
      BY DEF MetricsNumbers
    <3> QED BY <3>1, <3>2, MetricsCallsSame
  <2>5. MetricsNumbers'
    BY <2>1, <2>3, <2>4 DEF MetricsNumbers, Meter!Polling, Meter!Metrics, Meter!Blocks
  <2>6. MetricsTold'
    <3>1. CASE UNCHANGED <<fault, told>>
      BY <2>1, <3>1 DEF MetricsTold, Meter!Polling, Meter!Metrics, Meter!Blocks
    <3>2. ASSUME NEW line \in {"recovered", "evaluation", "type"}, line # told[m].line, Meter!Log(m, line),
                 fault' = [fault EXCEPT ![m] = IF line = "recovered" THEN "" ELSE line]
          PROVE  MetricsTold'
      <4>1. told' = [told EXCEPT ![m] = [line |-> line, run |-> 1]]
        BY <3>2 DEF Meter!Log, MetricsTold
      <4> QED BY <2>1, <3>2, <4>1 DEF MetricsTold, Meter!Polling, Meter!Metrics, Meter!Blocks
    <3>3. CASE \E v \in 0..1 : Meter!PollSucceeds(m, v)
      <4>1. ASSUME fault[m] = "" PROVE MetricsTold'
        <5>1. told' = told /\ fault' = [fault EXCEPT ![m] = ""]
          BY <3>3, <4>1 DEF Meter!PollSucceeds
        <5>2. Meter!Metrics' = Meter!Metrics
          BY <2>1 DEF Meter!Polling, Meter!Metrics, Meter!Blocks
        <5> QED BY <4>1, <5>1, <5>2 DEF MetricsTold
      <4>2. fault[m] # "" => Meter!Log(m, "recovered") /\ fault' = [fault EXCEPT ![m] = ""] /\ told[m].line # "recovered"
        BY <3>3 DEF Meter!PollSucceeds, MetricsTold
      <4> QED BY <4>1, <4>2, <3>1, <3>2
    <3>4. ASSUME NEW what \in {"evaluation", "type"}, Meter!PollFails(m, what)
          PROVE  MetricsTold'
      <4>1. what # fault[m] => told[m].line # what
        BY DEF MetricsTold
      <4> QED BY <4>1, <3>1, <3>2, <3>4 DEF Meter!PollFails, Meter!Repeats
    <3>5. CASE Meter!Ticks(m) \/ Meter!PollingEnds(m)
      BY <3>1, <3>5 DEF Meter!Ticks, Meter!PollingEnds
    <3> QED BY <1>11, <3>3, <3>4, <3>5
  <2> QED BY <2>1, <2>2, <2>5, <2>6, <1>r DEF Meter!Polling
<1>12. CASE UNCHANGED Meter!vars
  <2>1. MetricsNumbers' /\ MetricsTold'
    BY <1>12, MetricsUnrun DEF Meter!vars, Meter!Unrun
  <2> QED BY <1>12, <2>1, MetricsRun DEF Meter!vars
<1> QED BY <1>1, <1>2, <1>3, <1>4, <1>5, <1>6, <1>7, <1>8, <1>9, <1>10, <1>11, <1>12 DEF Meter!Next

LEMMA MetricsInvariant == MetricsOK => (Meter!Spec => []MetricsInv /\ [][Meter!CountersRise]_Meter!vars)
<1> SUFFICES ASSUME MetricsOK PROVE Meter!Spec => []MetricsInv /\ [][Meter!CountersRise]_Meter!vars  OBVIOUS
<1>1. Meter!Init => MetricsInv  BY MetricsInit
<1>2. MetricsInv /\ [Meter!Next]_Meter!vars => MetricsInv' /\ [Meter!CountersRise]_Meter!vars
  BY MetricsStep
<1> QED BY <1>1, <1>2, PTL DEF Meter!Spec

\* The type invariant of metrics and their callers (types/metric.go).
LEMMA MetricsTypeCorrect == MetricsOK => (Meter!Spec => []Meter!TypeOK)
<1> SUFFICES ASSUME MetricsOK PROVE Meter!Spec => []Meter!TypeOK  OBVIOUS
<1>1. MetricsInv => Meter!TypeOK
  BY DEF MetricsInv, MetricsBuilt, MetricsNumbers, Meter!TypeOK, Meter!InRange
<1>2. Meter!Spec => []MetricsInv  BY MetricsInvariant
<1> QED BY <1>1, <1>2, PTL

\* A counter's instrument never goes down, however many callers set and add
\* and however they overlap (metric.go:302, :336, :598).
THEOREM MetricsCountersRise == MetricsOK => (Meter!Spec => [][Meter!CountersRise]_Meter!vars)
BY MetricsInvariant

\* An unbroken run of one failure is logged once (metric.go:453, :466).
THEOREM MetricsFailuresToldOnce == MetricsOK => (Meter!Spec => []Meter!FailuresToldOnce)
<1> SUFFICES ASSUME MetricsOK PROVE Meter!Spec => []Meter!FailuresToldOnce  OBVIOUS
<1>1. MetricsInv => Meter!FailuresToldOnce
  <2> SUFFICES ASSUME MetricsTold, NEW m \in Meter!Metrics PROVE told[m].run <= 1
    BY DEF MetricsInv, Meter!FailuresToldOnce
  <2>1. told[m].run \in {0, 1}  BY DEF MetricsTold
  <2> QED BY <2>1
<1>2. Meter!Spec => []MetricsInv  BY MetricsInvariant
<1> QED BY <1>1, <1>2, PTL

\* Without namespaces, a metric's name refers to it: the check that names
\* collide and the one that keys do are enough for any names (metrics.go:499).
THEOREM MetricsNoneHidden == MetricsOK => (Meter!Spec => []Meter!NoneHidden)
<1> SUFFICES ASSUME MetricsOK PROVE Meter!Spec => []Meter!NoneHidden  OBVIOUS
<1>1. MetricsInv => Meter!NoneHidden
  BY DEF MetricsInv
<1>2. Meter!Spec => []MetricsInv  BY MetricsInvariant
<1> QED BY <1>1, <1>2, PTL

-----------------------------------------------------------------------------
(* Subscriptions.                                                          *)

Bus == INSTANCE Subscriptions WITH
  Configs <- BusConfigs

BusOK ==
  /\ \A m \in Messages : m = [topic |-> m.topic, field |-> m.field, value |-> m.value, payload |-> m.payload]
  /\ \A c \in BusConfigs :
       /\ c.bus.queue \in Nat /\ Len(c.subs) \in Nat
       /\ \A s \in 1..Len(c.subs) :
            /\ c.subs[s].queue \in Nat /\ c.subs[s].partitions \in Nat
            /\ c.subs[s].key \in {"none", "topic", "field", "expr", "msg", "null"}

BusSendable == UNION {{[topic |-> t, field |-> m.field, value |-> m.value, payload |-> m.payload] :
                         t \in {m.topic, "$undeliverable"}} : m \in Messages}

BusTypes ==
  /\ cfg \in BusConfigs
  /\ phase \in {"bus", "subs", "running", "refused"}
  /\ built \in 0..Len(cfg.subs) /\ subscribed \subseteq Bus!Subs
  /\ sent \in Seq(BusSendable)
  /\ busq \in Seq(Nat) /\ Len(busq) <= cfg.bus.queue
  /\ current \in [id : Nat, todo : SUBSET Bus!Subs]
  /\ dropped \in [Bus!Subs -> Int]
  /\ ended \in [Bus!Subs -> Seq(Nat)]
  /\ DOMAIN queues = Bus!Subs /\ DOMAIN working = Bus!Subs

\* Partition p takes the message at position i.
BusTakes(b, hs, p, m) ==
  IF b.key = "null" \/ b.partitions = 1 THEN p \in 1..b.partitions ELSE p = hs[Bus!PartitionKey(b.key, m)]
BusLane(s, p, i) == BusTakes(cfg.subs[s], hash, p, sent[i])
BusKey(s, i) == Bus!PartitionKey(cfg.subs[s].key, sent[i])

\* What one subscription holds is of messages sent, each in its lane and in
\* order: done before worked on, worked on before queued.
BusGood(s, E, Q, W) ==
  /\ E \in Seq(1..Len(sent)) /\ Q \in [Bus!Parts(s) -> Seq(1..Len(sent))] /\ W \in [Bus!Parts(s) -> 0..Len(sent)]
  /\ \A p \in Bus!Parts(s) : Len(Q[p]) <= cfg.subs[s].queue /\ (cfg.subs[s].queue = 0 => W[p] = 0)
  /\ ~Bus!Unordered(s) =>
       /\ \A p \in Bus!Parts(s) :
            /\ \A k \in 1..Len(Q[p]) : BusLane(s, p, Q[p][k]) /\ W[p] < Q[p][k]
            /\ W[p] # 0 => BusLane(s, p, W[p])
            /\ \A j, k \in 1..Len(Q[p]) : j < k => Q[p][j] < Q[p][k]
            /\ \A i \in 1..Len(E) : BusLane(s, p, E[i]) =>
                 /\ W[p] # 0 => E[i] < W[p]
                 /\ \A k \in 1..Len(Q[p]) : E[i] < Q[p][k]
       /\ \A i, j \in 1..Len(E) : i < j /\ BusKey(s, E[i]) = BusKey(s, E[j]) => E[i] < E[j]
BusSub(s) == BusGood(s, ended[s], queues[s], working[s])

\* The positions of the messages that subscription s has.
BusHeldIn(E, Q, W, P) ==
  {E[i] : i \in 1..Len(E)} \cup {W[p] : p \in P} \cup UNION {{Q[p][k] : k \in 1..Len(Q[p])} : p \in P}
BusHeld(s) == BusHeldIn(ended[s], queues[s], working[s], Bus!Parts(s))

\* What waits on the bus is later than what it hands on, and that later than
\* what it handed on before.
BusFlow ==
  /\ current.id <= Len(sent)
  /\ current # Bus!Nothing => current.id > 0
  /\ current = Bus!Nothing => current.todo = {}
  /\ \A k \in 1..Len(busq) : busq[k] \in 1..Len(sent) /\ current.id < busq[k]
  /\ \A j, k \in 1..Len(busq) : j < k => busq[j] < busq[k]
  /\ \A s \in Bus!Subs : \A hs \in BusHeld(s) : \A k \in 1..Len(busq) : hs < busq[k]
  /\ \A s \in current.todo : \A hs \in BusHeld(s) : hs < current.id

BusInv == BusTypes /\ BusFlow /\ \A s \in Bus!Subs : BusSub(s)

LEMMA BusPartsFor ==
  ASSUME NEW s, NEW p, NEW i
  PROVE  p \in Bus!PartsFor(s, sent[i]) <=> BusLane(s, p, i)
BY DEF BusLane, BusTakes, Bus!PartsFor, Bus!Parts, Bus!Unordered

\* An ordered subscription has one lane for each key.
LEMMA BusOneLane ==
  ASSUME NEW s, ~Bus!Unordered(s), NEW i, NEW j, NEW p, NEW q, BusLane(s, p, i), BusLane(s, q, j), BusKey(s, i) = BusKey(s, j)
  PROVE  p = q
BY DEF BusLane, BusTakes, BusKey, Bus!Unordered

LEMMA BusInit == BusOK /\ Bus!Init => BusInv
<1> SUFFICES ASSUME BusOK, Bus!Init PROVE BusInv  OBVIOUS
<1>1. /\ cfg \in BusConfigs /\ phase = "bus" /\ built = 0 /\ subscribed = {} /\ sent = << >> /\ busq = << >>
      /\ current = [id |-> 0, todo |-> {}]
  BY Zenon DEF Bus!Init, Bus!Nothing
<1>2. /\ queues = [s \in Bus!Subs |-> [p \in Bus!Parts(s) |-> << >>]]
      /\ working = [s \in Bus!Subs |-> [p \in Bus!Parts(s) |-> 0]]
      /\ ended = [s \in Bus!Subs |-> << >>] /\ dropped = [s \in Bus!Subs |-> 0]
  BY Zenon DEF Bus!Init
<1>3. Len(cfg.subs) \in Nat /\ cfg.bus.queue \in Nat /\ Len(sent) = 0
  BY <1>1 DEF BusOK
<1>4. BusTypes
  BY <1>1, <1>2, <1>3 DEF BusTypes
<1>5. BusFlow
  BY <1>1, <1>3 DEF BusFlow, Bus!Nothing
<1>6. ASSUME NEW s \in Bus!Subs PROVE BusSub(s)
  <2>1. ended[s] = << >> /\ queues[s] = [p \in Bus!Parts(s) |-> << >>] /\ working[s] = [p \in Bus!Parts(s) |-> 0]
    BY <1>2
  <2>2. cfg.subs[s].queue \in Nat
    BY <1>1 DEF BusOK, Bus!Subs
  <2> QED BY <2>1, <2>2, <1>3 DEF BusSub, BusGood
<1> QED BY <1>4, <1>5, <1>6 DEF BusInv

\* A subscription that a step leaves alone, while messages are sent.
BusSentGrows == Len(sent) <= Len(sent') /\ \A i \in 1..Len(sent) : sent'[i] = sent[i]

LEMMA BusSame ==
  ASSUME BusTypes, NEW s \in Bus!Subs, BusSub(s), UNCHANGED <<cfg, hash>>, BusSentGrows, Len(sent') \in Nat,
         ended'[s] = ended[s], queues'[s] = queues[s], working'[s] = working[s]
  PROVE  BusSub(s)' /\ BusHeld(s)' = BusHeld(s)
<1>1. Len(sent) \in Nat  BY DEF BusTypes
<1>2. Bus!Parts(s)' = Bus!Parts(s) /\ Bus!Unordered(s)' = Bus!Unordered(s) /\ cfg'.subs[s] = cfg.subs[s]
  BY DEF Bus!Parts, Bus!Unordered
<1>3. \A i \in 1..Len(sent) : sent'[i] = sent[i]
  BY DEF BusSentGrows
<1>4. 1..Len(sent) \subseteq 1..Len(sent') /\ 0..Len(sent) \subseteq 0..Len(sent')
  BY <1>1 DEF BusSentGrows
<1>5. ended'[s] \in Seq(1..Len(sent')) /\ queues'[s] \in [Bus!Parts(s) -> Seq(1..Len(sent'))]
      /\ working'[s] \in [Bus!Parts(s) -> 0..Len(sent')]
  <2>1. Seq(1..Len(sent)) \subseteq Seq(1..Len(sent'))
    BY <1>4, SeqMonotone
  <2> QED BY <1>4, <2>1 DEF BusSub, BusGood
<1>6. /\ \A i \in 1..Len(ended[s]) : ended[s][i] \in 1..Len(sent)
      /\ \A p \in Bus!Parts(s) : working[s][p] \in 0..Len(sent) /\ \A k \in 1..Len(queues[s][p]) : queues[s][p][k] \in 1..Len(sent)
  BY DEF BusSub, BusGood
<1>7. BusSub(s)'
  <2>1. \A p \in Bus!Parts(s) : Len(queues[s][p]) <= cfg.subs[s].queue /\ (cfg.subs[s].queue = 0 => working[s][p] = 0)
    BY DEF BusSub, BusGood
  <2> DEFINE Lane(p, i) == BusTakes(cfg.subs[s], hash, p, sent'[i])
  <2>2. ASSUME ~Bus!Unordered(s), NEW p \in Bus!Parts(s)
        PROVE /\ \A k \in 1..Len(queues[s][p]) : Lane(p, queues[s][p][k]) /\ working[s][p] < queues[s][p][k]
              /\ working[s][p] # 0 => Lane(p, working[s][p])
              /\ \A j, k \in 1..Len(queues[s][p]) : j < k => queues[s][p][j] < queues[s][p][k]
              /\ \A i \in 1..Len(ended[s]) : Lane(p, ended[s][i]) =>
                   /\ working[s][p] # 0 => ended[s][i] < working[s][p]
                   /\ \A k \in 1..Len(queues[s][p]) : ended[s][i] < queues[s][p][k]
    <3>1. \A i \in 1..Len(sent) : Lane(p, i) <=> BusLane(s, p, i)
      BY <1>3 DEF BusLane
    <3>2. \A k \in 1..Len(queues[s][p]) : queues[s][p][k] \in 1..Len(sent) /\ BusLane(s, p, queues[s][p][k]) /\ working[s][p] < queues[s][p][k]
      BY <2>2, <1>6 DEF BusSub, BusGood
    <3>3. working[s][p] # 0 => BusLane(s, p, working[s][p]) /\ working[s][p] \in 1..Len(sent)
      BY <2>2, <1>6, <1>1 DEF BusSub, BusGood
    <3>4. \A i \in 1..Len(ended[s]) : BusLane(s, p, ended[s][i]) =>
                   /\ working[s][p] # 0 => ended[s][i] < working[s][p]
                   /\ \A k \in 1..Len(queues[s][p]) : ended[s][i] < queues[s][p][k]
      BY <2>2 DEF BusSub, BusGood
    <3>5. \A j, k \in 1..Len(queues[s][p]) : j < k => queues[s][p][j] < queues[s][p][k]
      BY <2>2 DEF BusSub, BusGood
    <3> HIDE DEF Lane
    <3> QED BY <3>1, <3>2, <3>3, <3>4, <3>5, <1>6
  <2>3. ASSUME ~Bus!Unordered(s), NEW i \in 1..Len(ended[s]), NEW j \in 1..Len(ended[s]), i < j,
               Bus!PartitionKey(cfg.subs[s].key, sent'[ended[s][i]]) = Bus!PartitionKey(cfg.subs[s].key, sent'[ended[s][j]])
        PROVE  ended[s][i] < ended[s][j]
    BY <2>3, <1>3, <1>6, <1>1 DEF BusSub, BusGood, BusKey
  <2> QED BY <2>1, <2>2, <2>3, <1>2, <1>5 DEF BusSub, BusGood, BusLane, BusKey
<1>8. BusHeld(s)' = BusHeld(s)
  BY <1>2 DEF BusHeld, BusHeldIn
<1> QED BY <1>7, <1>8

\* The bus's half is kept by a step that only moves what a subscription holds
\* on, or adds the message that is handed on.
LEMMA BusHolds ==
  ASSUME BusInv, NEW s \in Bus!Subs, UNCHANGED <<cfg, hash, sent, busq>>,
         \A t \in Bus!Subs \ {s} : ended'[t] = ended[t] /\ queues'[t] = queues[t] /\ working'[t] = working[t],
         \/ current' = current /\ BusHeld(s)' \subseteq BusHeld(s) \cup {0}
         \/ /\ current # Bus!Nothing /\ s \in current.todo
            /\ current' = Bus!Nothing \/ current' = [id |-> current.id, todo |-> current.todo \ {s}]
            /\ BusHeld(s)' \subseteq BusHeld(s) \cup {current.id},
         BusSub(s)'
  PROVE  BusFlow' /\ (\A t \in Bus!Subs : BusSub(t)') /\ current' \in [id : Nat, todo : SUBSET Bus!Subs]
<1> USE DEF BusInv
<1>1. Len(sent) \in Nat /\ Len(busq) \in Nat /\ current.id \in Nat /\ current.todo \subseteq Bus!Subs
      /\ current = [id |-> current.id, todo |-> current.todo] /\ Bus!Subs' = Bus!Subs
  BY DEF BusTypes, Bus!Subs
<1>2. ASSUME NEW t \in Bus!Subs \ {s} PROVE BusSub(t)' /\ BusHeld(t)' = BusHeld(t)
  <2>1. BusSentGrows /\ Len(sent') \in Nat  BY <1>1 DEF BusSentGrows
  <2> QED BY <2>1, BusSame
<1>3. \A k \in 1..Len(busq) : busq[k] \in Nat /\ current.id < busq[k]
  BY DEF BusTypes, BusFlow
<1>4. ASSUME NEW t \in Bus!Subs, NEW hs \in BusHeld(t)', NEW k \in 1..Len(busq) PROVE hs < busq[k]
  <2>1. \A g \in BusHeld(t) : g < busq[k]  BY DEF BusFlow
  <2>2. CASE t = s  BY <2>1, <2>2, <1>3, <1>1
  <2>3. CASE t # s  BY <2>1, <2>3, <1>2
  <2> QED BY <2>2, <2>3
<1>5. CASE current' = current /\ BusHeld(s)' \subseteq BusHeld(s) \cup {0}
  <2>1. ASSUME NEW t \in current.todo, NEW hs \in BusHeld(t)' PROVE hs < current.id
    <3>1. (\A g \in BusHeld(t) : g < current.id) /\ t \in Bus!Subs /\ 0 < current.id  BY <1>1 DEF BusFlow
    <3>2. CASE t = s  BY <3>1, <3>2, <1>5, <1>1
    <3>3. CASE t # s  BY <3>1, <3>3, <1>2
    <3> QED BY <3>2, <3>3
  <2>2. BusFlow'
    BY <2>1, <1>1, <1>4, <1>5 DEF BusFlow, Bus!Nothing
  <2> QED BY <2>2, <1>2, <1>5 DEF BusTypes
<1>6. CASE current # Bus!Nothing /\ (current' = Bus!Nothing \/ current' = [id |-> current.id, todo |-> current.todo \ {s}])
  <2>1. current'.id \in Nat /\ current'.id <= current.id /\ current'.todo \subseteq current.todo \ {s}
        /\ current' \in [id : Nat, todo : SUBSET Bus!Subs]
    BY <1>1, <1>6 DEF Bus!Nothing
  <2>2. ASSUME NEW t \in current'.todo, NEW hs \in BusHeld(t)' PROVE hs < current'.id
    <3>1. t \in Bus!Subs \ {s} /\ t \in current.todo /\ current' = [id |-> current.id, todo |-> current.todo \ {s}]
      BY <2>1, <1>1, <1>6 DEF Bus!Nothing
    <3>2. \A g \in BusHeld(t) : g < current.id  BY <3>1 DEF BusFlow
    <3> QED BY <3>1, <3>2, <1>2
  <2>3. current' # Bus!Nothing => current'.id > 0
    BY <1>6 DEF BusFlow
  <2>4. current' = Bus!Nothing => current'.todo = {}
    BY DEF Bus!Nothing
  <2>5. BusFlow'
    BY <2>1, <2>2, <2>3, <2>4, <1>1, <1>3, <1>4 DEF BusFlow, Bus!Nothing
  <2> QED BY <2>1, <2>5, <1>2
<1> QED BY <1>2, <1>5, <1>6

\* What a step of one subscription has to show of it.
LEMMA BusSubStep ==
  ASSUME NEW s \in Bus!Subs, UNCHANGED <<cfg, hash, sent>>, NEW E, NEW Q, NEW W,
         ended'[s] = E, queues'[s] = Q, working'[s] = W, BusGood(s, E, Q, W)
  PROVE  BusSub(s)'
BY DEF BusSub, BusGood, BusLane, BusKey, Bus!Parts, Bus!Unordered

LEMMA BusHeldOf ==
  ASSUME NEW E, NEW Q, NEW W, NEW P
  PROVE  /\ \A i \in 1..Len(E) : E[i] \in BusHeldIn(E, Q, W, P)
         /\ \A p \in P : W[p] \in BusHeldIn(E, Q, W, P) /\ \A k \in 1..Len(Q[p]) : Q[p][k] \in BusHeldIn(E, Q, W, P)
BY DEF BusHeldIn

LEMMA BusHeldSubset ==
  ASSUME NEW E, NEW Q, NEW W, NEW P, NEW H,
         \A i \in 1..Len(E) : E[i] \in H,
         \A p \in P : W[p] \in H /\ \A k \in 1..Len(Q[p]) : Q[p][k] \in H
  PROVE  BusHeldIn(E, Q, W, P) \subseteq H
BY DEF BusHeldIn

\* Without a queue the work is done by the bus: it comes after all that was done.
LEMMA BusOnEvent == BusOK /\ BusInv /\ (\E s \in Bus!Subs : Bus!OnEvent(s)) => BusInv'
<1> SUFFICES ASSUME BusOK, BusInv, NEW s \in Bus!Subs, Bus!OnEvent(s) PROVE BusInv'  OBVIOUS
<1> USE DEF BusInv
<1> DEFINE id == current.id
           E == Append(ended[s], id)
<1>1. /\ current # Bus!Nothing /\ s \in current.todo /\ cfg.subs[s].queue = 0
      /\ ended' = [ended EXCEPT ![s] = E]
      /\ UNCHANGED <<cfg, phase, built, subscribed, hash, sent, busq, queues, working, dropped>>
      /\ current' = Bus!Nothing \/ current' = [id |-> id, todo |-> current.todo \ {s}]
  BY DEF Bus!OnEvent, Bus!HandedOn, Bus!Fixed, BusTypes
<1>2. Len(sent) \in Nat /\ id \in 1..Len(sent) /\ \A hs \in BusHeld(s) : hs < id
  BY <1>1 DEF BusTypes, BusFlow
<1>3. ended[s] \in Seq(1..Len(sent)) /\ queues[s] \in [Bus!Parts(s) -> Seq(1..Len(sent))] /\ working[s] \in [Bus!Parts(s) -> 0..Len(sent)]
  BY DEF BusSub, BusGood
<1>4. E \in Seq(1..Len(sent)) /\ Len(E) = Len(ended[s]) + 1 /\ Len(ended[s]) \in Nat
      /\ \A i \in 1..Len(E) : E[i] = IF i = Len(ended[s]) + 1 THEN id ELSE ended[s][i]
  <2> DEFINE S == 1..Len(sent)  q == ended[s]
  <2>1. q \in Seq(S) /\ id \in S  BY <1>2, <1>3
  <2> SUFFICES /\ Append(q, id) \in Seq(S) /\ Len(Append(q, id)) = Len(q) + 1 /\ Len(q) \in Nat
               /\ \A i \in 1..Len(Append(q, id)) : Append(q, id)[i] = IF i = Len(q) + 1 THEN id ELSE q[i]
    OBVIOUS
  <2> HIDE DEF id, S, q, E
  <2> QED BY <2>1, AppendOf
<1>5. \A p \in Bus!Parts(s) : Len(queues[s][p]) = 0 /\ working[s][p] = 0
  BY <1>1, <1>3 DEF BusSub, BusGood
<1>6. ended'[s] = E /\ ended' \in [Bus!Subs -> Seq(Nat)]
  <2>1. 1..Len(sent) \subseteq Nat  BY <1>2
  <2>2. E \in Seq(Nat)  BY <1>4, <2>1, SeqMonotone
  <2> HIDE DEF E
  <2> QED BY <1>1, <2>2 DEF BusTypes
<1>7. BusSub(s)'
  <2>1. \A i \in 1..Len(ended[s]) : ended[s][i] < id
    BY <1>2, BusHeldOf DEF BusHeld
  <2>2. ~Bus!Unordered(s) => \A i, j \in 1..Len(E) : i < j /\ BusKey(s, E[i]) = BusKey(s, E[j]) => E[i] < E[j]
    <3> SUFFICES ASSUME ~Bus!Unordered(s), NEW i \in 1..Len(E), NEW j \in 1..Len(E), i < j, BusKey(s, E[i]) = BusKey(s, E[j])
                 PROVE  E[i] < E[j]
      OBVIOUS
    <3>1. \A a, b \in 1..Len(ended[s]) : a < b /\ BusKey(s, ended[s][a]) = BusKey(s, ended[s][b]) => ended[s][a] < ended[s][b]
      BY DEF BusSub, BusGood
    <3>2. i \in 1..Len(ended[s]) /\ E[i] = ended[s][i]
      <4> HIDE DEF E, id
      <4> QED BY <1>4
    <3>3. CASE j = Len(ended[s]) + 1
      <4>1. E[j] = id  BY <1>4, <3>3
      <4> QED BY <4>1, <3>2, <2>1
    <3>4. CASE j # Len(ended[s]) + 1
      <4>1. j \in 1..Len(ended[s]) /\ E[j] = ended[s][j]
        <5> HIDE DEF E, id
        <5> QED BY <1>4, <3>4
      <4> QED BY <4>1, <3>1, <3>2
    <3> QED BY <3>3, <3>4
  <2>3. /\ ended'[s] = E /\ queues'[s] = queues[s] /\ working'[s] = working[s] /\ UNCHANGED <<cfg, hash, sent>>
        /\ \A p \in Bus!Parts(s) : Len(queues[s][p]) <= cfg.subs[s].queue /\ (cfg.subs[s].queue = 0 => working[s][p] = 0)
    BY <1>1, <1>5, <1>6
  <2> HIDE DEF E, id
  <2>4. BusGood(s, E, queues[s], working[s])
    BY <1>3, <1>4, <1>5, <2>2, <2>3 DEF BusGood
  <2> QED BY <2>3, <2>4, BusSubStep
<1>8. BusHeld(s)' \subseteq BusHeld(s) \cup {current.id}
  <2> DEFINE H == BusHeld(s) \cup {id}  P == Bus!Parts(s)  Q == queues[s]  W == working[s]
  <2>1. BusHeld(s)' = BusHeldIn(E, Q, W, P)
    BY <1>1, <1>6 DEF BusHeld, Bus!Parts
  <2>2. \A i \in 1..Len(ended[s]) : ended[s][i] \in H
    BY BusHeldOf DEF BusHeld
  <2>3. \A p \in P : W[p] \in H /\ \A k \in 1..Len(Q[p]) : Q[p][k] \in H
    BY BusHeldOf DEF BusHeld
  <2>4. \A i \in 1..Len(E) : E[i] \in H
    <3>1. id \in H  OBVIOUS
    <3> HIDE DEF E, H, id
    <3> SUFFICES ASSUME NEW i \in 1..Len(E) PROVE E[i] \in H  OBVIOUS
    <3>2. CASE i = Len(ended[s]) + 1  BY <1>4, <3>1, <3>2
    <3>3. CASE i # Len(ended[s]) + 1
      <4>1. i \in 1..Len(ended[s]) /\ E[i] = ended[s][i]  BY <1>4, <3>3
      <4> QED BY <4>1, <2>2
    <3> QED BY <3>2, <3>3
  <2> HIDE DEF E, P, Q, W, H
  <2>5. BusHeldIn(E, Q, W, P) \subseteq H
    BY <2>3, <2>4, BusHeldSubset
  <2> QED BY <2>1, <2>5 DEF H
<1>9. BusFlow' /\ (\A t \in Bus!Subs : BusSub(t)') /\ current' \in [id : Nat, todo : SUBSET Bus!Subs]
  <2>1. \A t \in Bus!Subs \ {s} : ended'[t] = ended[t]  BY <1>1 DEF BusTypes
  <2> QED BY <1>1, <1>7, <1>8, <2>1, BusHolds
<1> QED BY <1>1, <1>6, <1>9 DEF BusTypes, Bus!Subs

\* A message is queued in its lane, behind all that the subscription has.
LEMMA BusEnqueue == BusOK /\ BusInv /\ (\E s \in Bus!Subs : \E p \in Bus!Parts(s) : Bus!Enqueue(s, p)) => BusInv'
<1> SUFFICES ASSUME BusOK, BusInv, NEW s \in Bus!Subs, NEW p \in Bus!Parts(s), Bus!Enqueue(s, p) PROVE BusInv'  OBVIOUS
<1> USE DEF BusInv
<1> DEFINE id == current.id
           q == queues[s][p]
           r == IF Len(q) < cfg.subs[s].queue THEN Append(q, id) ELSE q
           Q == [queues[s] EXCEPT ![p] = r]
<1>1. /\ current # Bus!Nothing /\ s \in current.todo /\ cfg.subs[s].queue > 0
      /\ BusLane(s, p, id)
      /\ UNCHANGED <<cfg, phase, built, subscribed, hash, sent, busq, working, ended>>
      /\ current' = Bus!Nothing \/ current' = [id |-> id, todo |-> current.todo \ {s}]
      /\ IF Len(q) < cfg.subs[s].queue THEN queues' = [queues EXCEPT ![s][p] = Append(q, id)] /\ dropped' = dropped
         ELSE queues' = queues /\ dropped' = [dropped EXCEPT ![s] = @ + 1]
  BY BusPartsFor DEF Bus!Enqueue, Bus!HandedOn, Bus!Fixed, Bus!DroppedOne, BusTypes
<1>2. Len(sent) \in Nat /\ id \in 1..Len(sent) /\ \A hs \in BusHeld(s) : hs < id
  BY <1>1 DEF BusTypes, BusFlow
<1>3. ended[s] \in Seq(1..Len(sent)) /\ queues[s] \in [Bus!Parts(s) -> Seq(1..Len(sent))] /\ working[s] \in [Bus!Parts(s) -> 0..Len(sent)]
  BY DEF BusSub, BusGood
<1>4. /\ r \in Seq(1..Len(sent)) /\ Len(r) \in Nat /\ Len(q) \in Nat /\ Len(r) <= cfg.subs[s].queue /\ Len(r) <= Len(q) + 1
      /\ \A k \in 1..Len(r) : IF k \in 1..Len(q) THEN r[k] = q[k] ELSE k = Len(q) + 1 /\ r[k] = id
  <2> DEFINE S == 1..Len(sent)
  <2>1. q \in Seq(S) /\ id \in S  BY <1>2, <1>3
  <2>2. Len(q) \in Nat /\ cfg.subs[s].queue \in Nat /\ Len(q) <= cfg.subs[s].queue
    BY <2>1 DEF BusTypes, BusOK, Bus!Subs, BusSub, BusGood
  <2> HIDE DEF id, S, q
  <2>3. CASE Len(q) < cfg.subs[s].queue
    BY <2>1, <2>2, <2>3, AppendOf DEF S
  <2>4. CASE ~(Len(q) < cfg.subs[s].queue)
    BY <2>1, <2>2, <2>4 DEF S
  <2> QED BY <2>3, <2>4
<1>5. Q \in [Bus!Parts(s) -> Seq(1..Len(sent))] /\ Q[p] = r /\ \A o \in Bus!Parts(s) \ {p} : Q[o] = queues[s][o]
  <2> HIDE DEF r
  <2> QED BY <1>3, <1>4
<1>6. queues'[s] = Q /\ DOMAIN queues' = Bus!Subs /\ \A t \in Bus!Subs \ {s} : queues'[t] = queues[t]
  <2>1. CASE Len(q) < cfg.subs[s].queue
    BY <2>1, <1>1 DEF BusTypes
  <2>2. CASE ~(Len(q) < cfg.subs[s].queue)
    <3>1. Q = queues[s]  BY <2>2, <1>3
    <3> QED BY <3>1, <2>2, <1>1 DEF BusTypes
  <2> QED BY <2>1, <2>2
<1>h. /\ \A i \in 1..Len(ended[s]) : ended[s][i] < id
      /\ \A o \in Bus!Parts(s) : working[s][o] < id /\ \A k \in 1..Len(queues[s][o]) : queues[s][o][k] < id
  BY <1>2, BusHeldOf DEF BusHeld
<1>7. BusSub(s)'
  <2>1. ASSUME NEW o \in Bus!Parts(s) PROVE Len(Q[o]) <= cfg.subs[s].queue /\ (cfg.subs[s].queue = 0 => working[s][o] = 0)
    BY <1>1, <1>4, <1>5 DEF BusSub, BusGood
  <2>2. ASSUME ~Bus!Unordered(s), NEW o \in Bus!Parts(s)
        PROVE  /\ \A k \in 1..Len(Q[o]) : BusLane(s, o, Q[o][k]) /\ working[s][o] < Q[o][k]
               /\ \A j, k \in 1..Len(Q[o]) : j < k => Q[o][j] < Q[o][k]
               /\ \A i \in 1..Len(ended[s]) : BusLane(s, o, ended[s][i]) => \A k \in 1..Len(Q[o]) : ended[s][i] < Q[o][k]
    <3>1. /\ \A k \in 1..Len(queues[s][o]) : BusLane(s, o, queues[s][o][k]) /\ working[s][o] < queues[s][o][k]
          /\ \A j, k \in 1..Len(queues[s][o]) : j < k => queues[s][o][j] < queues[s][o][k]
          /\ \A i \in 1..Len(ended[s]) : BusLane(s, o, ended[s][i]) => \A k \in 1..Len(queues[s][o]) : ended[s][i] < queues[s][o][k]
      BY <2>2 DEF BusSub, BusGood
    <3>2. CASE o # p
      BY <3>1, <3>2, <1>5
    <3>3. CASE o = p
      <4> HIDE DEF id, r, Q
      <4>1. Q[o] = r /\ q = queues[s][o]  BY <3>3, <1>5
      <4> HIDE DEF q
      <4>2. \A k \in 1..Len(r) : BusLane(s, o, r[k]) /\ working[s][o] < r[k]
        BY <3>1, <3>3, <4>1, <1>1, <1>4, <1>h
      <4>3. \A j, k \in 1..Len(r) : j < k => r[j] < r[k]
        <5> SUFFICES ASSUME NEW j \in 1..Len(r), NEW k \in 1..Len(r), j < k PROVE r[j] < r[k]  OBVIOUS
        <5>1. j \in 1..Len(q) /\ r[j] = q[j]  BY <1>4
        <5>2. CASE k \in 1..Len(q)  BY <5>1, <5>2, <1>4, <3>1, <4>1
        <5>3. CASE k \notin 1..Len(q)  BY <5>1, <5>3, <1>4, <1>h, <4>1
        <5> QED BY <5>2, <5>3
      <4>4. \A i \in 1..Len(ended[s]) : BusLane(s, o, ended[s][i]) => \A k \in 1..Len(r) : ended[s][i] < r[k]
        BY <3>1, <4>1, <1>4, <1>h
      <4> QED BY <4>1, <4>2, <4>3, <4>4
    <3> QED BY <3>2, <3>3
  <2>3. BusGood(s, ended[s], Q, working[s])
    <3> HIDE DEF Q
    <3> QED BY <1>3, <1>5, <2>1, <2>2 DEF BusSub, BusGood
  <2> HIDE DEF Q
  <2> QED BY <1>1, <1>6, <2>3, BusSubStep
<1>8. BusHeld(s)' \subseteq BusHeld(s) \cup {current.id}
  <2> DEFINE H == BusHeld(s) \cup {id}
  <2>1. BusHeld(s)' = BusHeldIn(ended[s], Q, working[s], Bus!Parts(s))
    BY <1>1, <1>6 DEF BusHeld, Bus!Parts
  <2>2. /\ \A i \in 1..Len(ended[s]) : ended[s][i] \in H
        /\ \A o \in Bus!Parts(s) : working[s][o] \in H /\ \A k \in 1..Len(queues[s][o]) : queues[s][o][k] \in H
    BY BusHeldOf DEF BusHeld
  <2>3. id \in H  OBVIOUS
  <2> HIDE DEF H, Q, id, r
  <2>4. \A o \in Bus!Parts(s) : \A k \in 1..Len(Q[o]) : Q[o][k] \in H
    BY <1>4, <1>5, <2>2, <2>3
  <2>5. BusHeldIn(ended[s], Q, working[s], Bus!Parts(s)) \subseteq H
    BY <2>2, <2>4, BusHeldSubset
  <2> QED BY <2>1, <2>5 DEF H, id
<1>9. BusFlow' /\ (\A t \in Bus!Subs : BusSub(t)') /\ current' \in [id : Nat, todo : SUBSET Bus!Subs]
  BY <1>1, <1>6, <1>7, <1>8, BusHolds
<1>10. dropped' \in [Bus!Subs -> Int]
  BY <1>1 DEF BusTypes
<1> QED BY <1>1, <1>6, <1>9, <1>10 DEF BusTypes, Bus!Subs

\* A worker takes the first of its queue.
LEMMA BusWorkerTakes == BusOK /\ BusInv /\ (\E s \in Bus!Subs : \E p \in Bus!Parts(s) : Bus!WorkerTakes(s, p)) => BusInv'
<1> SUFFICES ASSUME BusOK, BusInv, NEW s \in Bus!Subs, NEW p \in Bus!Parts(s), Bus!WorkerTakes(s, p) PROVE BusInv'  OBVIOUS
<1> USE DEF BusInv
<1> DEFINE q == queues[s][p]
           Q == [queues[s] EXCEPT ![p] = Tail(q)]
           W == [working[s] EXCEPT ![p] = Head(q)]
<1>1. /\ working[s][p] = 0 /\ q # << >>
      /\ UNCHANGED <<cfg, phase, built, subscribed, hash, sent, busq, current, ended, dropped>>
      /\ queues' = [queues EXCEPT ![s][p] = Tail(q)] /\ working' = [working EXCEPT ![s][p] = Head(q)]
  BY DEF Bus!WorkerTakes, Bus!Fixed, BusTypes
<1>3. ended[s] \in Seq(1..Len(sent)) /\ queues[s] \in [Bus!Parts(s) -> Seq(1..Len(sent))] /\ working[s] \in [Bus!Parts(s) -> 0..Len(sent)]
      /\ Len(sent) \in Nat
  BY DEF BusSub, BusGood, BusTypes
<1>4. /\ Head(q) = q[1] /\ Head(q) \in 1..Len(sent) /\ Tail(q) \in Seq(1..Len(sent)) /\ Len(Tail(q)) = Len(q) - 1 /\ Len(q) \in Nat \ {0}
      /\ \A k \in 1..Len(Tail(q)) : Tail(q)[k] = q[k + 1]
  <2> DEFINE S == 1..Len(sent)
  <2>1. q \in Seq(S)  BY <1>3
  <2> HIDE DEF S, q
  <2>2. Len(q) \in Nat \ {0}  BY <2>1, <1>1
  <2> QED BY <2>1, <2>2, <1>1, HeadOf DEF S
<1>5. /\ Q \in [Bus!Parts(s) -> Seq(1..Len(sent))] /\ Q[p] = Tail(q) /\ \A o \in Bus!Parts(s) \ {p} : Q[o] = queues[s][o]
      /\ W \in [Bus!Parts(s) -> 0..Len(sent)] /\ W[p] = q[1] /\ \A o \in Bus!Parts(s) \ {p} : W[o] = working[s][o]
  BY <1>3, <1>4
<1>6. /\ queues'[s] = Q /\ DOMAIN queues' = Bus!Subs /\ \A t \in Bus!Subs \ {s} : queues'[t] = queues[t]
      /\ working'[s] = W /\ DOMAIN working' = Bus!Subs /\ \A t \in Bus!Subs \ {s} : working'[t] = working[t]
  BY <1>1 DEF BusTypes
<1>7. BusSub(s)'
  <2>1. ASSUME NEW o \in Bus!Parts(s) PROVE Len(Q[o]) <= cfg.subs[s].queue /\ (cfg.subs[s].queue = 0 => W[o] = 0)
    <3>1. Len(queues[s][o]) <= cfg.subs[s].queue /\ (cfg.subs[s].queue = 0 => working[s][o] = 0) /\ cfg.subs[s].queue \in Nat
      BY DEF BusSub, BusGood, BusTypes, BusOK, Bus!Subs
    <3>2. CASE o # p  BY <3>1, <3>2, <1>5
    <3>3. CASE o = p
      <4>1. Q[o] = Tail(q) /\ Len(q) <= cfg.subs[s].queue  BY <3>1, <3>3, <1>5
      <4> HIDE DEF Q, W, q
      <4> QED BY <4>1, <3>1, <1>4
    <3> QED BY <3>2, <3>3
  <2>2. ASSUME ~Bus!Unordered(s), NEW o \in Bus!Parts(s)
        PROVE  /\ \A k \in 1..Len(Q[o]) : BusLane(s, o, Q[o][k]) /\ W[o] < Q[o][k]
               /\ W[o] # 0 => BusLane(s, o, W[o])
               /\ \A j, k \in 1..Len(Q[o]) : j < k => Q[o][j] < Q[o][k]
               /\ \A i \in 1..Len(ended[s]) : BusLane(s, o, ended[s][i]) =>
                    /\ W[o] # 0 => ended[s][i] < W[o]
                    /\ \A k \in 1..Len(Q[o]) : ended[s][i] < Q[o][k]
    <3>1. /\ \A k \in 1..Len(queues[s][o]) : BusLane(s, o, queues[s][o][k]) /\ working[s][o] < queues[s][o][k]
          /\ working[s][o] # 0 => BusLane(s, o, working[s][o])
          /\ \A j, k \in 1..Len(queues[s][o]) : j < k => queues[s][o][j] < queues[s][o][k]
          /\ \A i \in 1..Len(ended[s]) : BusLane(s, o, ended[s][i]) =>
               /\ working[s][o] # 0 => ended[s][i] < working[s][o]
               /\ \A k \in 1..Len(queues[s][o]) : ended[s][i] < queues[s][o][k]
      BY <2>2 DEF BusSub, BusGood
    <3>2. CASE o # p
      BY <3>1, <3>2, <1>5
    <3>3. CASE o = p
      <4> DEFINE r == Tail(q)
      <4>1. Q[o] = r /\ q = queues[s][o] /\ W[o] = q[1]  BY <3>3, <1>5
      <4>2. /\ \A k \in 1..Len(r) : k + 1 \in 1..Len(q) /\ r[k] = q[k + 1]
            /\ 1 \in 1..Len(q) /\ Len(r) \in Nat
        BY <1>4
      <4> HIDE DEF q, r, Q, W
      <4>3. \A k \in 1..Len(r) : BusLane(s, o, r[k]) /\ q[1] < r[k]
        BY <3>1, <4>1, <4>2
      <4>4. \A j, k \in 1..Len(r) : j < k => r[j] < r[k]
        BY <3>1, <4>1, <4>2
      <4>5. BusLane(s, o, q[1])
        BY <3>1, <4>1, <4>2
      <4>6. \A i \in 1..Len(ended[s]) : BusLane(s, o, ended[s][i]) => ended[s][i] < q[1] /\ \A k \in 1..Len(r) : ended[s][i] < r[k]
        BY <3>1, <4>1, <4>2
      <4> QED BY <4>1, <4>3, <4>4, <4>5, <4>6
    <3> QED BY <3>2, <3>3
  <2>3. BusGood(s, ended[s], Q, W)
    <3> HIDE DEF Q, W
    <3> QED BY <1>3, <1>5, <2>1, <2>2 DEF BusSub, BusGood
  <2>4. ended'[s] = ended[s] /\ UNCHANGED <<cfg, hash, sent>>  BY <1>1
  <2> HIDE DEF Q, W
  <2> QED BY <2>4, <1>6, <2>3, BusSubStep
<1>8. BusHeld(s)' \subseteq BusHeld(s)
  <2> DEFINE H == BusHeld(s)
  <2>1. BusHeld(s)' = BusHeldIn(ended[s], Q, W, Bus!Parts(s))
    BY <1>1, <1>6 DEF BusHeld, Bus!Parts
  <2>2. /\ \A i \in 1..Len(ended[s]) : ended[s][i] \in H
        /\ \A o \in Bus!Parts(s) : working[s][o] \in H /\ \A k \in 1..Len(queues[s][o]) : queues[s][o][k] \in H
    BY BusHeldOf DEF BusHeld
  <2>3. /\ \A k \in 1..Len(Tail(q)) : k + 1 \in 1..Len(q) /\ Tail(q)[k] = q[k + 1]
        /\ 1 \in 1..Len(q)
    BY <1>4
  <2> HIDE DEF H
  <2>4. ASSUME NEW o \in Bus!Parts(s) PROVE W[o] \in H /\ \A k \in 1..Len(Q[o]) : Q[o][k] \in H
    <3>1. CASE o # p
      <4> HIDE DEF Q, W
      <4> QED BY <3>1, <1>5, <2>2
    <3>2. CASE o = p
      <4>1. \A k \in 1..Len(q) : q[k] \in H  BY <2>2
      <4>2. W[o] = q[1] /\ Q[o] = Tail(q)  BY <3>2, <1>5
      <4> HIDE DEF Q, W, q
      <4> QED BY <4>1, <4>2, <2>3
    <3> QED BY <3>1, <3>2
  <2> HIDE DEF Q, W
  <2>5. BusHeldIn(ended[s], Q, W, Bus!Parts(s)) \subseteq H
    BY <2>2, <2>4, BusHeldSubset
  <2> QED BY <2>1, <2>5 DEF H
<1>9. BusFlow' /\ (\A t \in Bus!Subs : BusSub(t)') /\ current' \in [id : Nat, todo : SUBSET Bus!Subs]
  BY <1>1, <1>6, <1>7, <1>8, BusHolds
<1> QED BY <1>1, <1>6, <1>9 DEF BusTypes, Bus!Subs

\* A worker has done its message: what is done of its lane came before.
LEMMA BusWorkerEnds == BusOK /\ BusInv /\ (\E s \in Bus!Subs : \E p \in Bus!Parts(s) : Bus!WorkerEnds(s, p)) => BusInv'
<1> SUFFICES ASSUME BusOK, BusInv, NEW s \in Bus!Subs, NEW p \in Bus!Parts(s), Bus!WorkerEnds(s, p) PROVE BusInv'  OBVIOUS
<1> USE DEF BusInv
<1> DEFINE w == working[s][p]
           W == [working[s] EXCEPT ![p] = 0]
           E == Append(ended[s], w)
<1>1. /\ w # 0
      /\ UNCHANGED <<cfg, phase, built, subscribed, hash, sent, busq, current, queues, dropped>>
      /\ ended' = [ended EXCEPT ![s] = E] /\ working' = [working EXCEPT ![s][p] = 0]
  BY DEF Bus!WorkerEnds, Bus!Fixed, BusTypes
<1>3. ended[s] \in Seq(1..Len(sent)) /\ queues[s] \in [Bus!Parts(s) -> Seq(1..Len(sent))] /\ working[s] \in [Bus!Parts(s) -> 0..Len(sent)]
      /\ Len(sent) \in Nat /\ w \in 1..Len(sent)
  BY <1>1 DEF BusSub, BusGood, BusTypes
<1>4. E \in Seq(1..Len(sent)) /\ Len(E) = Len(ended[s]) + 1 /\ Len(ended[s]) \in Nat
      /\ \A i \in 1..Len(E) : IF i \in 1..Len(ended[s]) THEN E[i] = ended[s][i] ELSE i = Len(ended[s]) + 1 /\ E[i] = w
  <2> DEFINE S == 1..Len(sent)  e == ended[s]
  <2>1. e \in Seq(S) /\ w \in S  BY <1>3
  <2> HIDE DEF w, S
  <2>2. Append(e, w) \in Seq(S) /\ Len(e) \in Nat /\ Len(Append(e, w)) = Len(e) + 1
        /\ \A i \in 1..(Len(e) + 1) : Append(e, w)[i] = IF i = Len(e) + 1 THEN w ELSE e[i]
    BY <2>1, AppendOf
  <2> QED BY <2>2 DEF S
<1>5. W \in [Bus!Parts(s) -> 0..Len(sent)] /\ W[p] = 0 /\ \A o \in Bus!Parts(s) \ {p} : W[o] = working[s][o]
  BY <1>3
<1>6. /\ working'[s] = W /\ DOMAIN working' = Bus!Subs /\ \A t \in Bus!Subs \ {s} : working'[t] = working[t]
      /\ ended'[s] = E /\ \A t \in Bus!Subs \ {s} : ended'[t] = ended[t]
      /\ ended' \in [Bus!Subs -> Seq(Nat)]
  <2>1. E \in Seq(Nat)
    <3>1. 1..Len(sent) \subseteq Nat  BY <1>3
    <3> HIDE DEF E
    <3> QED BY <3>1, <1>4, SeqMonotone
  <2> HIDE DEF E
  <2> QED BY <1>1, <2>1 DEF BusTypes
<1>7. BusSub(s)'
  <2>1. ASSUME NEW o \in Bus!Parts(s) PROVE Len(queues[s][o]) <= cfg.subs[s].queue /\ (cfg.subs[s].queue = 0 => W[o] = 0)
    BY <1>5 DEF BusSub, BusGood
  <2>2. ASSUME ~Bus!Unordered(s), NEW o \in Bus!Parts(s)
        PROVE  /\ \A k \in 1..Len(queues[s][o]) : BusLane(s, o, queues[s][o][k]) /\ W[o] < queues[s][o][k]
               /\ W[o] # 0 => BusLane(s, o, W[o])
               /\ \A j, k \in 1..Len(queues[s][o]) : j < k => queues[s][o][j] < queues[s][o][k]
               /\ \A i \in 1..Len(E) : BusLane(s, o, E[i]) =>
                    /\ W[o] # 0 => E[i] < W[o]
                    /\ \A k \in 1..Len(queues[s][o]) : E[i] < queues[s][o][k]
    <3>1. /\ \A k \in 1..Len(queues[s][o]) : BusLane(s, o, queues[s][o][k]) /\ working[s][o] < queues[s][o][k]
          /\ working[s][o] # 0 => BusLane(s, o, working[s][o])
          /\ \A j, k \in 1..Len(queues[s][o]) : j < k => queues[s][o][j] < queues[s][o][k]
          /\ \A i \in 1..Len(ended[s]) : BusLane(s, o, ended[s][i]) =>
               /\ working[s][o] # 0 => ended[s][i] < working[s][o]
               /\ \A k \in 1..Len(queues[s][o]) : ended[s][i] < queues[s][o][k]
      BY <2>2, <1>3 DEF BusSub, BusGood
    <3>q. \A k \in 1..Len(queues[s][o]) : queues[s][o][k] \in 1..Len(sent)
      BY <1>3
    <3>2. BusLane(s, p, w)
      BY <2>2, <1>1 DEF BusSub, BusGood
    <3>3. BusLane(s, o, w) => o = p
      BY <2>2, <3>2, BusOneLane
    <3>4. \A k \in 1..Len(queues[s][o]) : W[o] < queues[s][o][k]
      BY <3>1, <3>q, <1>5
    <3>5. W[o] # 0 => BusLane(s, o, W[o]) /\ o # p /\ W[o] = working[s][o]
      BY <3>1, <1>5
    <3>6. ASSUME NEW i \in 1..Len(E), BusLane(s, o, E[i])
          PROVE  (W[o] # 0 => E[i] < W[o]) /\ \A k \in 1..Len(queues[s][o]) : E[i] < queues[s][o][k]
      <4> HIDE DEF E, W
      <4>1. CASE i \in 1..Len(ended[s])
        BY <4>1, <3>6, <1>4, <3>1, <3>5
      <4>2. CASE i \notin 1..Len(ended[s])
        <5>1. E[i] = w /\ o = p  BY <4>2, <3>6, <1>4, <3>3
        <5> QED BY <5>1, <3>1, <1>5
      <4> QED BY <4>1, <4>2
    <3> QED BY <3>1, <3>4, <3>5, <3>6
  <2>3. ASSUME ~Bus!Unordered(s), NEW i \in 1..Len(E), NEW j \in 1..Len(E), i < j, BusKey(s, E[i]) = BusKey(s, E[j])
        PROVE  E[i] < E[j]
    <3>1. i \in 1..Len(ended[s]) /\ E[i] = ended[s][i]
      <4> HIDE DEF E
      <4> QED BY <1>4, <2>3
    <3>2. CASE j \in 1..Len(ended[s])
      <4>1. E[j] = ended[s][j]
        <5> HIDE DEF E
        <5> QED BY <1>4, <3>2
      <4> QED BY <4>1, <3>1, <3>2, <2>3 DEF BusSub, BusGood
    <3>3. CASE j \notin 1..Len(ended[s])
      <4>1. E[j] = w
        <5> HIDE DEF E
        <5> QED BY <1>4, <3>3
      <4>2. BusLane(s, p, w)
        BY <2>3, <1>1 DEF BusSub, BusGood
      <4>3. BusLane(s, p, ended[s][i])
        BY <4>1, <4>2, <3>1, <2>3 DEF BusLane, BusTakes, BusKey, Bus!Unordered
      <4>4. ended[s][i] < w
        BY <4>3, <3>1, <2>3, <1>1 DEF BusSub, BusGood
      <4> QED BY <4>1, <4>4, <3>1
    <3> QED BY <3>2, <3>3
  <2>4. BusGood(s, E, queues[s], W)
    <3> HIDE DEF E, W
    <3> QED BY <1>3, <1>4, <1>5, <2>1, <2>2, <2>3 DEF BusGood
  <2>5. queues'[s] = queues[s] /\ UNCHANGED <<cfg, hash, sent>>  BY <1>1
  <2> HIDE DEF E, W
  <2> QED BY <2>5, <1>6, <2>4, BusSubStep
<1>8. BusHeld(s)' \subseteq BusHeld(s) \cup {0}
  <2> DEFINE H == BusHeld(s) \cup {0}
  <2>1. BusHeld(s)' = BusHeldIn(E, queues[s], W, Bus!Parts(s))
    BY <1>1, <1>6 DEF BusHeld, Bus!Parts
  <2>2. /\ \A i \in 1..Len(ended[s]) : ended[s][i] \in H
        /\ \A o \in Bus!Parts(s) : working[s][o] \in H /\ \A k \in 1..Len(queues[s][o]) : queues[s][o][k] \in H
        /\ 0 \in H
    BY BusHeldOf DEF BusHeld
  <2> HIDE DEF H, E, W
  <2>3. \A i \in 1..Len(E) : E[i] \in H
    BY <1>4, <2>2
  <2>4. \A o \in Bus!Parts(s) : W[o] \in H /\ \A k \in 1..Len(queues[s][o]) : queues[s][o][k] \in H
    BY <1>5, <2>2
  <2>5. BusHeldIn(E, queues[s], W, Bus!Parts(s)) \subseteq H
    BY <2>3, <2>4, BusHeldSubset
  <2> QED BY <2>1, <2>5 DEF H
<1>9. BusFlow' /\ (\A t \in Bus!Subs : BusSub(t)') /\ current' \in [id : Nat, todo : SUBSET Bus!Subs]
  <2>1. \A t \in Bus!Subs \ {s} : ended'[t] = ended[t] /\ queues'[t] = queues[t] /\ working'[t] = working[t]
    BY <1>1, <1>6
  <2> QED BY <2>1, <1>1, <1>7, <1>8, BusHolds
<1> QED BY <1>1, <1>6, <1>9 DEF BusTypes, Bus!Subs

LEMMA BusHeldSent ==
  ASSUME BusInv, NEW s \in Bus!Subs, NEW hs \in BusHeld(s)
  PROVE  hs \in 0..Len(sent)
<1> DEFINE H == 0..Len(sent)
<1>1. ended[s] \in Seq(1..Len(sent)) /\ queues[s] \in [Bus!Parts(s) -> Seq(1..Len(sent))] /\ working[s] \in [Bus!Parts(s) -> 0..Len(sent)]
      /\ Len(sent) \in Nat
  BY DEF BusInv, BusSub, BusGood, BusTypes
<1>2. /\ \A i \in 1..Len(ended[s]) : ended[s][i] \in H
      /\ \A p \in Bus!Parts(s) : working[s][p] \in H /\ \A k \in 1..Len(queues[s][p]) : queues[s][p][k] \in H
  BY <1>1
<1> HIDE DEF H
<1>3. BusHeldIn(ended[s], queues[s], working[s], Bus!Parts(s)) \subseteq H
  BY <1>2, BusHeldSubset
<1> QED BY <1>3 DEF BusHeld, H

\* Steps that leave what subscriptions hold alone, and only add to what is sent.
LEMMA BusApart ==
  ASSUME BusInv, UNCHANGED <<cfg, hash, ended, queues, working>>, BusSentGrows, Len(sent') \in Nat
  PROVE  \A s \in Bus!Subs : BusSub(s)' /\ BusHeld(s)' = BusHeld(s)
<1> SUFFICES ASSUME NEW s \in Bus!Subs PROVE BusSub(s)' /\ BusHeld(s)' = BusHeld(s)  OBVIOUS
<1>1. BusTypes /\ BusSub(s)  BY DEF BusInv
<1>2. ended'[s] = ended[s] /\ queues'[s] = queues[s] /\ working'[s] = working[s]  OBVIOUS
<1> QED BY <1>1, <1>2, BusSame

LEMMA BusBehind ==
  ASSUME NEW q \in Seq(Nat), NEW n \in Nat, \A k \in 1..Len(q) : q[k] \in 1..n, \A j, k \in 1..Len(q) : j < k => q[j] < q[k]
  PROVE  LET r == Append(q, n + 1) IN
         /\ r \in Seq(Nat) /\ Len(q) \in Nat /\ Len(r) = Len(q) + 1
         /\ \A k \in 1..Len(r) : r[k] \in 1..(n + 1) /\ (r[k] = n + 1 \/ \E i \in 1..Len(q) : r[k] = q[i])
         /\ \A j, k \in 1..Len(r) : j < k => r[j] < r[k]
<1> DEFINE r == Append(q, n + 1)
<1>0. n + 1 \in Nat  OBVIOUS
<1>1. /\ r \in Seq(Nat) /\ Len(q) \in Nat /\ Len(r) = Len(q) + 1
      /\ \A i \in 1..(Len(q) + 1) : r[i] = IF i = Len(q) + 1 THEN n + 1 ELSE q[i]
  BY <1>0, AppendOf
<1> HIDE DEF r
<1>2. ASSUME NEW k \in 1..Len(r)
      PROVE  (k \in 1..Len(q) /\ r[k] = q[k]) \/ (k = Len(q) + 1 /\ r[k] = n + 1)
  BY <1>1
<1>3. \A k \in 1..Len(r) : r[k] \in 1..(n + 1) /\ (r[k] = n + 1 \/ \E i \in 1..Len(q) : r[k] = q[i])
  <2> SUFFICES ASSUME NEW k \in 1..Len(r) PROVE r[k] \in 1..(n + 1) /\ (r[k] = n + 1 \/ \E i \in 1..Len(q) : r[k] = q[i])  OBVIOUS
  <2>1. CASE k \in 1..Len(q) /\ r[k] = q[k]
    BY <2>1
  <2>2. CASE r[k] = n + 1  BY <2>2
  <2> QED BY <1>2, <2>1, <2>2
<1>4. \A j, k \in 1..Len(r) : j < k => r[j] < r[k]
  <2> SUFFICES ASSUME NEW j \in 1..Len(r), NEW k \in 1..Len(r), j < k PROVE r[j] < r[k]  OBVIOUS
  <2>1. j \in 1..Len(q) /\ r[j] = q[j]  BY <1>1, <1>2
  <2>2. CASE k \in 1..Len(q) /\ r[k] = q[k]  BY <2>1, <2>2
  <2>3. CASE r[k] = n + 1
    <3>1. q[j] \in 1..n  BY <2>1
    <3> QED BY <3>1, <2>1, <2>3
  <2> QED BY <1>2, <2>2, <2>3
<1> QED BY <1>1, <1>3, <1>4 DEF r

LEMMA BusSend == BusOK /\ BusInv /\ (\E m \in Messages : Bus!Send(m)) => BusInv'
<1> SUFFICES ASSUME BusOK, BusInv, NEW m \in Messages, Bus!Send(m) PROVE BusInv'  OBVIOUS
<1>0. UNCHANGED <<cfg, phase, built, subscribed, hash, current, queues, working, ended, dropped>> /\ Bus!Subs' = Bus!Subs
  BY DEF Bus!Send, Bus!Fixed, Bus!Subs
<1>1. sent \in Seq(BusSendable) /\ busq \in Seq(Nat) /\ Len(sent) \in Nat /\ m \in BusSendable /\ cfg.bus.queue \in Nat /\ current.id \in Nat
  <2>1. m \in BusSendable  BY DEF BusOK, BusSendable
  <2> QED BY <2>1 DEF BusInv, BusTypes, BusOK
<1>2. CASE Len(busq) < cfg.bus.queue
  <2>1. sent' = Append(sent, m) /\ busq' = Append(busq, Len(sent) + 1)  BY <1>2 DEF Bus!Send
  <2>2. sent' \in Seq(BusSendable) /\ Len(sent') = Len(sent) + 1 /\ \A i \in 1..(Len(sent) + 1) : sent'[i] = IF i = Len(sent) + 1 THEN m ELSE sent[i]
    BY <1>1, <2>1, AppendOf
  <2>3. /\ busq' \in Seq(Nat) /\ Len(busq') = Len(busq) + 1 /\ Len(busq) \in Nat
        /\ \A k \in 1..Len(busq') : busq'[k] \in 1..(Len(sent) + 1) /\ (busq'[k] = Len(sent) + 1 \/ \E i \in 1..Len(busq) : busq'[k] = busq[i])
        /\ \A j, k \in 1..Len(busq') : j < k => busq'[j] < busq'[k]
    <3>1. (\A k \in 1..Len(busq) : busq[k] \in 1..Len(sent)) /\ \A j, k \in 1..Len(busq) : j < k => busq[j] < busq[k]
      BY DEF BusInv, BusFlow
    <3> QED BY <1>1, <2>1, <3>1, BusBehind
  <2>4. BusSentGrows /\ Len(sent') \in Nat  BY <1>1, <2>2 DEF BusSentGrows
  <2>5. \A s \in Bus!Subs : BusSub(s)' /\ BusHeld(s)' = BusHeld(s)  BY <1>0, <2>4, BusApart
  <2>6. BusFlow'
    <3>1. current'.id <= Len(sent') /\ (current' # Bus!Nothing => current'.id > 0) /\ (current' = Bus!Nothing => current'.todo = {})
      BY <1>0, <1>1, <2>2 DEF BusInv, BusFlow
    <3>2. \A k \in 1..Len(busq') : busq'[k] \in 1..Len(sent') /\ current'.id < busq'[k]
      <4>1. \A i \in 1..Len(busq) : current.id < busq[i]  BY DEF BusInv, BusFlow
      <4>2. current.id < Len(sent) + 1  BY <1>1 DEF BusInv, BusFlow
      <4> QED BY <1>0, <2>2, <2>3, <4>1, <4>2
    <3>3. \A j, k \in 1..Len(busq') : j < k => busq'[j] < busq'[k]
      BY <2>3
    <3>4. ASSUME NEW s \in Bus!Subs, NEW hs \in BusHeld(s), NEW k \in 1..Len(busq') PROVE hs < busq'[k]
      <4>1. hs \in 0..Len(sent)  BY BusHeldSent
      <4>2. hs < Len(sent) + 1 /\ \A i \in 1..Len(busq) : hs < busq[i]  BY <4>1, <1>1 DEF BusInv, BusFlow
      <4> QED BY <4>2, <2>3
    <3>5. \A s \in current'.todo : \A hs \in BusHeld(s) : hs < current'.id
      BY <1>0 DEF BusInv, BusFlow
    <3>6. current'.todo \subseteq Bus!Subs
      BY <1>0 DEF BusInv, BusTypes
    <3>7. Bus!Nothing' = Bus!Nothing  BY DEF Bus!Nothing
    <3> QED BY <1>0, <2>5, <3>1, <3>2, <3>3, <3>4, <3>5, <3>6, <3>7 DEF BusFlow
  <2>7. BusTypes'
    BY <1>0, <1>1, <1>2, <2>2, <2>3 DEF BusInv, BusTypes
  <2> QED BY <1>0, <2>5, <2>6, <2>7 DEF BusInv
<1>3. CASE ~(Len(busq) < cfg.bus.queue)
  <2>1. UNCHANGED <<sent, busq>>  BY <1>3 DEF Bus!Send
  <2>2. BusSentGrows /\ Len(sent') \in Nat  BY <1>1, <2>1 DEF BusSentGrows
  <2>3. \A s \in Bus!Subs : BusSub(s)' /\ BusHeld(s)' = BusHeld(s)  BY <1>0, <2>2, BusApart
  <2>4. current.todo \subseteq Bus!Subs
    BY DEF BusInv, BusTypes
  <2> QED BY <1>0, <2>1, <2>3, <2>4 DEF BusInv, BusTypes, BusFlow, Bus!Nothing
<1> QED BY <1>2, <1>3

LEMMA BusBusTakes == BusOK /\ BusInv /\ Bus!BusTakes => BusInv'
<1> SUFFICES ASSUME BusOK, BusInv, Bus!BusTakes PROVE BusInv'  OBVIOUS
<1> DEFINE id == busq[1]  m == sent[id]
<1>0. UNCHANGED <<cfg, phase, built, subscribed, hash, queues, working, ended, dropped>> /\ Bus!Subs' = Bus!Subs
  BY DEF Bus!BusTakes, Bus!Fixed, Bus!Subs
<1>1. /\ sent \in Seq(BusSendable) /\ busq \in Seq(Nat) /\ Len(sent) \in Nat /\ busq # << >> /\ Len(busq) <= cfg.bus.queue
      /\ current.id = 0 /\ current.todo = {} /\ cfg.bus.queue \in Nat
  BY DEF BusInv, BusTypes, BusOK, Bus!BusTakes, Bus!Nothing
<1>2. /\ Head(busq) = id /\ Tail(busq) \in Seq(Nat) /\ Len(Tail(busq)) = Len(busq) - 1 /\ Len(busq) \in Nat \ {0}
      /\ \A k \in 1..Len(Tail(busq)) : Tail(busq)[k] = busq[k + 1]
  <2>1. Len(busq) \in Nat \ {0}  BY <1>1
  <2> QED BY <1>1, <2>1, HeadOf
<1>3. /\ id \in 1..Len(sent) /\ m \in BusSendable
      /\ \A k \in 1..Len(Tail(busq)) : k + 1 \in 1..Len(busq) /\ Tail(busq)[k] \in 1..Len(sent) /\ id < Tail(busq)[k]
      /\ \A j, k \in 1..Len(Tail(busq)) : j < k => Tail(busq)[j] < Tail(busq)[k]
  <2>1. \A k \in 1..Len(busq) : busq[k] \in 1..Len(sent)  BY DEF BusInv, BusFlow
  <2>2. \A j, k \in 1..Len(busq) : j < k => busq[j] < busq[k]  BY DEF BusInv, BusFlow
  <2>3. 1 \in 1..Len(busq) /\ \A k \in 1..Len(Tail(busq)) : k + 1 \in 1..Len(busq) /\ 1 < k + 1  BY <1>2
  <2> QED BY <1>1, <1>2, <2>1, <2>2, <2>3
<1>4. \A s \in Bus!Subs : \A hs \in BusHeld(s) : hs < id /\ hs \in 0..Len(sent) /\ \A k \in 1..Len(Tail(busq)) : hs < Tail(busq)[k]
  <2>1. 1 \in 1..Len(busq)  BY <1>2
  <2> QED BY <1>2, <1>3, <2>1, BusHeldSent DEF BusInv, BusFlow
<1>5. CASE Bus!Matching(m) # {}
  <2>1. current' = [id |-> id, todo |-> Bus!Matching(m)] /\ busq' = Tail(busq) /\ UNCHANGED sent
    BY <1>2, <1>5 DEF Bus!BusTakes
  <2>2. BusSentGrows /\ Len(sent') \in Nat  BY <1>1, <2>1 DEF BusSentGrows
  <2>3. \A s \in Bus!Subs : BusSub(s)' /\ BusHeld(s)' = BusHeld(s)  BY <1>0, <2>2, BusApart
  <2>4. Bus!Matching(m) \subseteq Bus!Subs  BY DEF Bus!Matching, BusInv, BusTypes
  <2> HIDE DEF id
  <2>5. BusTypes'
    BY <1>0, <1>1, <1>2, <1>3, <2>1, <2>4 DEF BusInv, BusTypes
  <2>6. BusFlow'
    <3>1. current'.id = id /\ current'.todo = Bus!Matching(m) /\ id \in Nat /\ id > 0 /\ id <= Len(sent)
      BY <1>1, <1>3, <2>1
    <3>2. current' # Bus!Nothing
      BY <3>1 DEF Bus!Nothing
    <3>3. /\ \A k \in 1..Len(busq') : busq'[k] \in 1..Len(sent') /\ current'.id < busq'[k]
          /\ \A j, k \in 1..Len(busq') : j < k => busq'[j] < busq'[k]
      BY <1>3, <2>1, <3>1
    <3>4. /\ \A s \in Bus!Subs' : \A hs \in BusHeld(s)' : \A k \in 1..Len(busq') : hs < busq'[k]
          /\ \A s \in current'.todo : \A hs \in BusHeld(s)' : hs < current'.id
      BY <1>0, <1>4, <2>1, <2>3, <2>4, <3>1
    <3> QED BY <2>1, <3>1, <3>2, <3>3, <3>4 DEF BusFlow
  <2> QED BY <1>0, <2>3, <2>5, <2>6 DEF BusInv
<1>6. CASE Bus!Matching(m) = {} /\ ~Bus!Republishes(m)
  <2>1. current' = current /\ busq' = Tail(busq) /\ UNCHANGED sent
    BY <1>2, <1>6 DEF Bus!BusTakes
  <2>2. BusSentGrows /\ Len(sent') \in Nat  BY <1>1, <2>1 DEF BusSentGrows
  <2>3. \A s \in Bus!Subs : BusSub(s)' /\ BusHeld(s)' = BusHeld(s)  BY <1>0, <2>2, BusApart
  <2> HIDE DEF id
  <2>5. BusTypes'
    BY <1>0, <1>1, <1>2, <1>3, <2>1 DEF BusInv, BusTypes
  <2>6. BusFlow'
    <3>1. \A k \in 1..Len(Tail(busq)) : 0 < Tail(busq)[k]  BY <1>3
    <3> QED BY <3>1, <1>0, <1>1, <1>3, <1>4, <2>1, <2>3 DEF BusInv, BusFlow, Bus!Nothing
  <2> QED BY <1>0, <2>3, <2>5, <2>6 DEF BusInv
<1>7. CASE Bus!Matching(m) = {} /\ Bus!Republishes(m)
  <2> DEFINE u == [m EXCEPT !.topic = "$undeliverable"]
             t == Tail(busq)
  <2>1. current' = current /\ sent' = Append(sent, u) /\ busq' = Append(t, Len(sent) + 1)
    BY <1>2, <1>7 DEF Bus!BusTakes
  <2>2. u \in BusSendable
    <3> HIDE DEF m
    <3>1. PICK o \in Messages : \E top \in {o.topic, "$undeliverable"} :
            m = [topic |-> top, field |-> o.field, value |-> o.value, payload |-> o.payload]
      BY <1>3 DEF BusSendable
    <3>2. u = [topic |-> "$undeliverable", field |-> o.field, value |-> o.value, payload |-> o.payload]
      BY <3>1
    <3> QED BY <3>2 DEF BusSendable
  <2> HIDE DEF u, id
  <2>3. sent' \in Seq(BusSendable) /\ Len(sent') = Len(sent) + 1 /\ \A i \in 1..(Len(sent) + 1) : sent'[i] = IF i = Len(sent) + 1 THEN u ELSE sent[i]
    BY <1>1, <2>1, <2>2, AppendOf
  <2>4. /\ busq' \in Seq(Nat) /\ Len(busq') = Len(t) + 1 /\ Len(t) \in Nat
        /\ \A k \in 1..Len(busq') : busq'[k] \in 1..(Len(sent) + 1) /\ (busq'[k] = Len(sent) + 1 \/ \E i \in 1..Len(t) : busq'[k] = t[i])
        /\ \A j, k \in 1..Len(busq') : j < k => busq'[j] < busq'[k]
    <3>1. /\ t \in Seq(Nat) /\ \A k \in 1..Len(t) : t[k] \in 1..Len(sent)
          /\ \A j, k \in 1..Len(t) : j < k => t[j] < t[k]
      BY <1>2, <1>3
    <3>2. busq' = Append(t, Len(sent) + 1) /\ Len(sent) \in Nat  BY <1>1, <2>1
    <3> HIDE DEF t
    <3> QED BY <3>1, <3>2, BusBehind
  <2>5. BusSentGrows /\ Len(sent') \in Nat  BY <1>1, <2>3 DEF BusSentGrows
  <2>6. \A s \in Bus!Subs : BusSub(s)' /\ BusHeld(s)' = BusHeld(s)  BY <1>0, <2>5, BusApart
  <2>7. BusTypes'
    <3>1. Len(busq') <= cfg.bus.queue
      <4>1. Len(t) = Len(busq) - 1 /\ Len(busq) \in Nat  BY <1>2
      <4> HIDE DEF t
      <4> QED BY <1>1, <2>4, <4>1
    <3> QED BY <1>0, <2>1, <2>3, <2>4, <3>1 DEF BusInv, BusTypes
  <2>8. BusFlow'
    <3>2. \A k \in 1..Len(busq') : busq'[k] \in 1..Len(sent') /\ 0 < busq'[k]
      <4> HIDE DEF t
      <4> QED BY <1>1, <2>3, <2>4
    <3>3. \A j, k \in 1..Len(busq') : j < k => busq'[j] < busq'[k]
      BY <2>4
    <3>4. ASSUME NEW s \in Bus!Subs, NEW hs \in BusHeld(s), NEW k \in 1..Len(busq') PROVE hs < busq'[k]
      <4>1. hs \in 0..Len(sent) /\ \A i \in 1..Len(t) : hs < t[i]  BY <1>4
      <4>2. hs < Len(sent) + 1  BY <4>1, <1>1
      <4> HIDE DEF t
      <4> QED BY <4>1, <4>2, <2>4
    <3>5. (current = Bus!Nothing)' /\ current'.id = 0 /\ current'.todo = {} /\ 0 <= Len(sent')
      BY <1>1, <2>1, <2>5 DEF Bus!BusTakes, Bus!Nothing
    <3> QED BY <1>0, <2>6, <3>2, <3>3, <3>4, <3>5 DEF BusFlow
  <2> QED BY <1>0, <2>6, <2>7, <2>8 DEF BusInv
<1> QED BY <1>5, <1>6, <1>7

LEMMA BusStep == BusOK /\ BusInv /\ [Bus!Next]_Bus!vars => BusInv'
<1> SUFFICES ASSUME BusOK, BusInv, [Bus!Next]_Bus!vars PROVE BusInv'  OBVIOUS
<1>1. ASSUME UNCHANGED <<cfg, hash, sent, busq, current, queues, working, ended, dropped>>,
             phase' \in {"bus", "subs", "running", "refused"}, built' \in 0..Len(cfg.subs), subscribed' \subseteq Bus!Subs
      PROVE  BusInv'
  <2>1. BusSentGrows /\ Len(sent') \in Nat /\ Bus!Subs' = Bus!Subs  BY <1>1 DEF BusSentGrows, BusInv, BusTypes, Bus!Subs
  <2>2. \A s \in Bus!Subs : BusSub(s)' /\ BusHeld(s)' = BusHeld(s)  BY <1>1, <2>1, BusApart
  <2>3. current.todo \subseteq Bus!Subs
    BY DEF BusInv, BusTypes
  <2> QED BY <1>1, <2>1, <2>2, <2>3 DEF BusInv, BusTypes, BusFlow, Bus!Nothing
<1>2. CASE Bus!BuildEventBus \/ Bus!Serve
  BY <1>1, <1>2 DEF Bus!BuildEventBus, Bus!Serve, Bus!Quiet, BusInv, BusTypes
<1>3. CASE Bus!Process
  <2>1. Len(cfg.subs) \in Nat  BY DEF BusInv, BusTypes, BusOK
  <2>2. built' \in 0..Len(cfg.subs) /\ subscribed' \subseteq Bus!Subs /\ phase' \in {"bus", "subs", "running", "refused"}
    BY <1>3, <2>1 DEF Bus!Process, Bus!Subs, BusInv, BusTypes
  <2> QED BY <1>1, <1>3, <2>2 DEF Bus!Process, Bus!Quiet
<1>4. CASE UNCHANGED Bus!vars
  BY <1>1, <1>4 DEF Bus!vars, BusInv, BusTypes
<1> QED BY <1>2, <1>3, <1>4, BusSend, BusBusTakes, BusOnEvent, BusEnqueue, BusWorkerTakes, BusWorkerEnds DEF Bus!Next

LEMMA BusInvariant == BusOK => (Bus!Spec => []BusInv)
<1> SUFFICES ASSUME BusOK PROVE Bus!Spec => []BusInv  OBVIOUS
<1>1. Bus!Init => BusInv  BY BusInit
<1>2. BusInv /\ [Bus!Next]_Bus!vars => BusInv'  BY BusStep
<1> QED BY <1>1, <1>2, PTL DEF Bus!Spec

\* The type invariant of buses and subscriptions, queue lengths included
\* (config/subs.go).
LEMMA BusTypeCorrect == BusOK => (Bus!Spec => []Bus!TypeOK)
<1> SUFFICES ASSUME BusOK PROVE Bus!Spec => []Bus!TypeOK  OBVIOUS
<1>1. BusInv => Bus!TypeOK
  <2> SUFFICES ASSUME BusInv PROVE Bus!TypeOK  OBVIOUS
  <2>1. cfg.bus.queue \in Nat /\ Len(busq) \in Nat  BY DEF BusInv, BusTypes, BusOK
  <2>2. \A s \in Bus!Subs : \A p \in Bus!Parts(s) : Len(queues[s][p]) <= cfg.subs[s].queue  BY DEF BusInv, BusSub, BusGood
  <2> QED BY <2>1, <2>2 DEF BusInv, BusTypes, Bus!TypeOK
<1>2. Bus!Spec => []BusInv  BY BusInvariant
<1> QED BY <1>1, <1>2, PTL

\* The key the code computes is the key its documentation promises.
LEMMA BusKeyPromised ==
  ASSUME BusOK, BusInv, NEW s \in Bus!Subs, ~Bus!Unordered(s), NEW m
  PROVE  Bus!Promised(s, m) = Bus!PartitionKey(cfg.subs[s].key, m)
<1>1. cfg.subs[s].key \in {"none", "topic", "field", "expr", "msg"}
  BY DEF BusOK, BusInv, BusTypes, Bus!Subs, Bus!Unordered
<1> QED BY <1>1 DEF Bus!Promised, Bus!PartitionKey

\* Work on messages of one key is done in the order they were sent, through
\* whatever partitions and workers (partition.go:118-190).
THEOREM BusKeyOrder == BusOK => (Bus!Spec => []Bus!KeyOrder)
<1> SUFFICES ASSUME BusOK PROVE Bus!Spec => []Bus!KeyOrder  OBVIOUS
<1>1. BusInv => Bus!KeyOrder
  <2> SUFFICES ASSUME BusInv, NEW s \in Bus!Subs, ~Bus!Unordered(s), NEW i \in 1..Len(ended[s]), NEW j \in 1..Len(ended[s]), i < j,
                      Bus!Promised(s, sent[ended[s][i]]) = Bus!Promised(s, sent[ended[s][j]])
               PROVE  ended[s][i] < ended[s][j]
    BY DEF Bus!KeyOrder
  <2>1. BusKey(s, ended[s][i]) = BusKey(s, ended[s][j])
    BY BusKeyPromised DEF BusKey
  <2> QED BY <2>1 DEF BusInv, BusSub, BusGood
<1>2. Bus!Spec => []BusInv  BY BusInvariant
<1> QED BY <1>1, <1>2, PTL

\* A message is dropped only while the member that shows pressure reads 1
\* (subs.go:376-388).
THEOREM BusPressureSeen == BusOK => (Bus!Spec => [][Bus!PressureSeen]_Bus!vars)
<1> SUFFICES ASSUME BusOK PROVE Bus!Spec => [][Bus!PressureSeen]_Bus!vars  OBVIOUS
<1>1. BusInv /\ [Bus!Next]_Bus!vars => [Bus!PressureSeen]_Bus!vars
  <2> SUFFICES ASSUME BusInv, Bus!Next, NEW s \in Bus!Subs, dropped'[s] # dropped[s]
               PROVE  Bus!QueueRatio(s).num = Bus!QueueRatio(s).den
    BY DEF Bus!PressureSeen
  <2>1. PICK o \in Bus!Subs : \E q \in Bus!Parts(o) : Bus!Enqueue(o, q)
    BY DEF Bus!Next, Bus!BuildEventBus, Bus!Serve, Bus!Process, Bus!Quiet, Bus!BusTakes, Bus!Send, Bus!OnEvent, Bus!WorkerTakes, Bus!WorkerEnds, Bus!vars
  <2>p. PICK p \in Bus!Parts(o) : Bus!Enqueue(o, p)  BY <2>1
  <2>2. ~(Len(queues[o][p]) < cfg.subs[o].queue) /\ dropped' = [dropped EXCEPT ![o] = @ + 1]
    BY <2>p DEF Bus!Enqueue, Bus!DroppedOne
  <2>3. o = s
    BY <2>2 DEF BusInv, BusTypes
  <2> DEFINE n == cfg.subs[s].queue  L == {Len(queues[s][q]) : q \in Bus!Parts(s)}  parts == cfg.subs[s].partitions
  <2>4. n \in Nat /\ parts \in Nat \ {0}
    BY <2>3 DEF BusInv, BusTypes, BusOK, Bus!Subs, Bus!Parts
  <2>5. \A q \in Bus!Parts(s) : Len(queues[s][q]) \in Nat /\ Len(queues[s][q]) <= n
    BY DEF BusInv, BusSub, BusGood
  <2>6. n \in L /\ \A x \in L : x \in Nat /\ x <= n
    <3>1. Len(queues[s][p]) = n  BY <2>2, <2>3, <2>4, <2>5
    <3> QED BY <2>3, <2>5, <3>1
  <2>7. Bus!Max(L) = n
    <3> HIDE DEF L, n
    <3> QED BY <2>4, <2>6 DEF Bus!Max
  <2>8. (n * parts) \div parts = n
    <3> HIDE DEF n, parts
    <3> QED BY <2>4
  <2> QED BY <2>7, <2>8 DEF Bus!QueueRatio, Bus!MaxQueueDepth, Bus!QueueCapacity
<1>2. Bus!Spec => []BusInv  BY BusInvariant
<1> QED BY <1>1, <1>2, PTL DEF Bus!Spec

-----------------------------------------------------------------------------
(* The line editor.                                                        *)

Edit == INSTANCE LineEditor WITH
  Calls <- Edits

EditorOK == IsFiniteSet(Edits) /\ Edit!NoCall \notin Edits

EditorIn == {"run", "decide", "unlink", "link", "rename"}
EditorPlaces == {"idle", "lock", "open", "done"} \cup EditorIn
EditorResults == {"none", "true", "false", "error", "killed", "string"}

EditorShape ==
  /\ pc \in [Edits -> EditorPlaces] /\ result \in [Edits -> EditorResults]
  /\ base = [c \in Edits |-> base[c]] /\ work = [c \in Edits |-> work[c]]
  /\ temp \subseteq Edits /\ lock \in Edits \cup {Edit!NoCall} /\ version \in Nat
  /\ \A c \in Edits :
       /\ pc[c] = "done" <=> result[c] # "none"
       /\ c \in temp => pc[c] \in EditorIn \cup {"done"}
       /\ c \in temp /\ pc[c] = "done" => result[c] = "killed"
       /\ editor[c].lock /\ pc[c] \in EditorIn \cup {"open"} => lock = c

EditorLocks == \A c \in Edits : editor[c].lock
EditorBacked(c) == backup = [there |-> TRUE, lines |-> base[c].lines]
EditorBehind(c) == \A d \in Edits \ {c} : pc[d] \in {"idle", "lock"}

\* Between reading the file and replacing it nobody else replaces it.
EditorBase ==
  EditorLocks =>
    /\ ~lost
    /\ \A c \in Edits :
         /\ pc[c] \in EditorIn => base[c].version = version /\ base[c].there = file.there
                                  /\ (base[c].there => base[c].lines = file.lines)
         /\ pc[c] = "rename" /\ editor[c].backup /\ base[c].there => EditorBacked(c)
         /\ result[c] = "true" /\ editor[c].backup /\ base[c].there /\ EditorBehind(c) => EditorBacked(c)

LEMMA EditorCounts == ASSUME NEW S PROVE Edit!Cardinality(S) = Cardinality(S)
BY Zenon DEF Edit!Cardinality, Cardinality

\* The calls that answered true.
EditorWrote == {c \in Edits : result[c] = "true"}
EditorCount ==
  /\ version = Cardinality(EditorWrote)
  /\ version > 0 => \E c \in EditorWrote : file.lines = work[c].out

LEMMA EditorInit == EditorOK /\ Edit!Init => EditorShape /\ EditorBase /\ EditorCount
<1> SUFFICES ASSUME EditorOK, Edit!Init PROVE EditorShape /\ EditorBase /\ EditorCount  OBVIOUS
<1>1. /\ pc = [c \in Edits |-> "idle"] /\ result = [c \in Edits |-> "none"]
      /\ base = [c \in Edits |-> Edit!Absent] /\ work = [c \in Edits |-> Edit!NoWork]
      /\ temp = {} /\ version = 0 /\ lock = Edit!NoCall /\ lost = FALSE
  BY Zenon DEF Edit!Init
<1>2. EditorShape  BY <1>1 DEF EditorShape, EditorPlaces, EditorResults, EditorIn
<1>3. EditorBase  BY <1>1 DEF EditorBase, EditorIn
<1>4. EditorWrote = {}  BY <1>1 DEF EditorWrote
<1>5. EditorCount  BY <1>1, <1>4, FS_EmptySet DEF EditorCount
<1> QED BY <1>2, <1>3, <1>5

\* What a call does to itself, and that it leaves the others alone.
LEMMA EditorMove ==
  ASSUME EditorOK, EditorShape, NEW c \in Edits, Edit!Step(c) \/ Edit!Crash(c)
  PROVE  /\ UNCHANGED editor /\ pc' = [pc EXCEPT ![c] = pc'[c]] /\ result' = [result EXCEPT ![c] = result'[c]]
         /\ base' = [base EXCEPT ![c] = base'[c]] /\ work' = [work EXCEPT ![c] = work'[c]]
<1> USE DEF EditorShape, Edit!Goto, Edit!Same, Edit!Disk, Edit!Removed
<1>1. CASE Edit!Enter(c) \/ Edit!StringMode(c) \/ Edit!AcquireFileLock(c) \/ Edit!Open(c)
  BY <1>1 DEF Edit!Enter, Edit!StringMode, Edit!AcquireFileLock, Edit!Open, Edit!Returns
<1>2. CASE Edit!Run(c) \/ Edit!RunFails(c) \/ Edit!Decide(c)
  BY <1>2 DEF Edit!Run, Edit!RunFails, Edit!Decide, Edit!Returns
<1>3. CASE Edit!Unlink(c) \/ Edit!Link(c) \/ Edit!Rename(c) \/ Edit!Crash(c)
  BY <1>3 DEF Edit!Unlink, Edit!Link, Edit!Rename, Edit!Crash, Edit!Returns
<1> QED BY <1>1, <1>2, <1>3 DEF Edit!Step

\* What is left to see of a step for the invariant's first part.
EditorKeeps(c) ==
  /\ UNCHANGED editor /\ pc' = [pc EXCEPT ![c] = pc'[c]] /\ result' = [result EXCEPT ![c] = result'[c]]
  /\ base' = [base EXCEPT ![c] = base'[c]] /\ work' = [work EXCEPT ![c] = work'[c]]
  /\ pc'[c] \in EditorPlaces /\ result'[c] \in EditorResults /\ (pc'[c] = "done" <=> result'[c] # "none")
  /\ temp' \subseteq temp \cup {c}
  /\ c \in temp' => pc'[c] \in EditorIn \cup {"done"} /\ (pc'[c] = "done" => result'[c] = "killed")
  /\ version' \in Nat /\ lock' \in {lock, c, Edit!NoCall}
  /\ lock' # lock => lock \in {c, Edit!NoCall}
  /\ editor[c].lock /\ pc'[c] \in EditorIn \cup {"open"} => lock' = c

LEMMA EditorKept == ASSUME EditorOK, EditorShape, NEW c \in Edits, EditorKeeps(c) PROVE EditorShape'
<1> USE DEF EditorShape, EditorKeeps
<1>1. pc' \in [Edits -> EditorPlaces] /\ result' \in [Edits -> EditorResults]  OBVIOUS
<1>2. base' = [d \in Edits |-> base'[d]] /\ work' = [d \in Edits |-> work'[d]]  OBVIOUS
<1>3. temp' \subseteq Edits /\ lock' \in Edits \cup {Edit!NoCall} /\ version' \in Nat  OBVIOUS
<1>4. \A d \in Edits \ {c} : pc'[d] = pc[d] /\ result'[d] = result[d]  OBVIOUS
<1>5. ASSUME NEW d \in Edits
      PROVE  /\ pc'[d] = "done" <=> result'[d] # "none"
             /\ d \in temp' => pc'[d] \in EditorIn \cup {"done"}
             /\ d \in temp' /\ pc'[d] = "done" => result'[d] = "killed"
  <2>1. CASE d = c  BY <2>1
  <2>2. CASE d # c  BY <2>2, <1>4
  <2> QED BY <2>1, <2>2
<1>6. ASSUME NEW d \in Edits, editor'[d].lock, pc'[d] \in EditorIn \cup {"open"} PROVE lock' = d
  <2>1. CASE d = c  BY <2>1, <1>6
  <2>2. CASE d # c
    <3>1. lock = d  BY <2>2, <1>4, <1>6
    <3>2. d # Edit!NoCall  BY DEF EditorOK
    <3> QED BY <2>2, <3>1, <3>2
  <2> QED BY <2>1, <2>2
<1> QED BY <1>1, <1>2, <1>3, <1>5, <1>6

LEMMA EditorShapeStep == EditorOK /\ EditorShape /\ [Edit!Next]_(Edit!vars) => EditorShape'
<1> SUFFICES ASSUME EditorOK, EditorShape, [Edit!Next]_(Edit!vars) PROVE EditorShape'  OBVIOUS
<1>1. CASE UNCHANGED Edit!vars
  <2>1. UNCHANGED <<editor, pc, base, work, temp, version, lock, result>>  BY <1>1 DEF Edit!vars
  <2> QED BY <2>1 DEF EditorShape
<1>2. ASSUME NEW c \in Edits, Edit!Step(c) \/ Edit!Crash(c) PROVE EditorShape'
  <2>1. /\ UNCHANGED editor /\ pc' = [pc EXCEPT ![c] = pc'[c]] /\ result' = [result EXCEPT ![c] = result'[c]]
        /\ base' = [base EXCEPT ![c] = base'[c]] /\ work' = [work EXCEPT ![c] = work'[c]]
    BY <1>2, EditorMove
  <2>2. lock \in Edits \cup {Edit!NoCall} /\ version \in Nat /\ pc \in [Edits -> EditorPlaces] /\ result \in [Edits -> EditorResults]
        /\ (pc[c] = "done" <=> result[c] # "none")
        /\ (c \in temp => pc[c] \in EditorIn \cup {"done"})
        /\ (editor[c].lock /\ pc[c] \in EditorIn \cup {"open"} => lock = c)
    BY DEF EditorShape
  <2>r. ASSUME NEW r \in EditorResults \ {"none"}, Edit!Returns(c, r)
        PROVE  pc'[c] = "done" /\ result'[c] = r /\ lock' = IF lock = c THEN Edit!NoCall ELSE lock
    BY <2>2, <2>r DEF Edit!Returns, Edit!Goto
  <2>e. "true" \in EditorResults \ {"none"} /\ "false" \in EditorResults \ {"none"} /\ "error" \in EditorResults \ {"none"} /\ "string" \in EditorResults \ {"none"}
    BY DEF EditorResults
  <2>g. ASSUME NEW p, Edit!Goto(c, p) PROVE pc'[c] = p  BY <2>2, <2>g DEF Edit!Goto
  <2>p. "lock" \in EditorPlaces /\ "open" \in EditorPlaces /\ "done" \in EditorPlaces /\ EditorIn \subseteq EditorPlaces
        /\ "lock" \notin EditorIn \cup {"open"} /\ "done" \notin EditorIn /\ "idle" \notin EditorIn \cup {"done"} /\ "lock" \notin EditorIn \cup {"done"}
        /\ "open" \notin EditorIn \cup {"done"} /\ "run" \in EditorIn /\ "decide" \in EditorIn /\ "unlink" \in EditorIn
        /\ "link" \in EditorIn /\ "rename" \in EditorIn
    BY DEF EditorPlaces, EditorIn
  <2>3. CASE Edit!Enter(c)
    <3>1. pc[c] = "idle" /\ UNCHANGED <<temp, version>>  BY <2>3 DEF Edit!Enter, Edit!Disk
    <3>3. CASE Edit!Goto(c, IF editor[c].lock THEN "lock" ELSE "open") /\ UNCHANGED <<result, lock>>
      <4>1. pc'[c] = IF editor[c].lock THEN "lock" ELSE "open"  BY <3>3, <2>2 DEF Edit!Goto
      <4>2. EditorKeeps(c)  BY <2>1, <2>2, <2>p, <3>1, <3>3, <4>1 DEF EditorKeeps
      <4> QED BY <4>2, EditorKept
    <3>4. ASSUME Edit!Returns(c, "error") PROVE EditorKeeps(c)
      BY <2>1, <2>2, <2>r, <2>e, <2>p, <3>1, <3>4 DEF EditorKeeps
    <3> QED BY <2>3, <3>3, <3>4, EditorKept DEF Edit!Enter
  <2>4. CASE Edit!StringMode(c)
    <3>1. pc[c] = "idle" /\ UNCHANGED <<temp, version>>  BY <2>4 DEF Edit!StringMode, Edit!Disk
    <3>2. PICK r \in EditorResults \ {"none"} : Edit!Returns(c, r)  BY <2>4, <2>e DEF Edit!StringMode
    <3>3. EditorKeeps(c)  BY <2>1, <2>2, <2>r, <2>p, <3>1, <3>2 DEF EditorKeeps
    <3> QED BY <3>3, EditorKept
  <2>5. CASE Edit!AcquireFileLock(c)
    <3>1. /\ pc[c] = "lock" /\ lock = Edit!NoCall /\ lock' = c /\ Edit!Goto(c, "open") /\ UNCHANGED <<temp, result, version>>
      BY <2>5 DEF Edit!AcquireFileLock, Edit!Disk, Edit!LockFree
    <3>2. EditorKeeps(c)  BY <2>1, <2>2, <2>g, <2>p, <3>1 DEF EditorKeeps
    <3> QED BY <3>2, EditorKept
  <2>6. CASE Edit!Open(c)
    <3>1. pc[c] = "open" /\ UNCHANGED version  BY <2>6 DEF Edit!Open, Edit!Disk
    <3>2. ASSUME Edit!Returns(c, "error"), UNCHANGED temp PROVE EditorKeeps(c)
      BY <2>1, <2>2, <2>r, <2>e, <2>p, <3>1, <3>2 DEF EditorKeeps
    <3>3. ASSUME temp' = temp \cup {c}, Edit!Goto(c, "run"), UNCHANGED <<result, lock>> PROVE EditorKeeps(c)
      BY <2>1, <2>2, <2>g, <2>p, <3>1, <3>3 DEF EditorKeeps
    <3> QED BY <2>6, <3>2, <3>3, EditorKept DEF Edit!Open
  <2>7. ASSUME NEW r \in EditorResults \ {"none"}, Edit!Returns(c, r), Edit!Removed(c), version' \in Nat PROVE EditorShape'
    <3>1. EditorKeeps(c)  BY <2>1, <2>2, <2>r, <2>p, <2>7 DEF EditorKeeps, Edit!Removed
    <3> QED BY <3>1, EditorKept
  <2>8. ASSUME NEW p \in EditorIn, pc[c] \in EditorIn, Edit!Goto(c, p), UNCHANGED <<result, lock, temp, version>> PROVE EditorShape'
    <3>1. EditorKeeps(c)  BY <2>1, <2>2, <2>g, <2>p, <2>8 DEF EditorKeeps
    <3> QED BY <3>1, EditorKept
  <2>9. CASE Edit!Run(c) \/ Edit!RunFails(c)
    BY <2>9, <2>7, <2>8, <2>2, <2>e, <2>p DEF Edit!Run, Edit!RunFails, Edit!Disk
  <2>10. CASE Edit!Decide(c)
    <3>1. pc[c] \in EditorIn /\ UNCHANGED version  BY <2>10, <2>p DEF Edit!Decide, Edit!Disk
    <3>2. CASE Edit!Returns(c, "false") /\ Edit!Removed(c)  BY <3>1, <3>2, <2>2, <2>7, <2>e
    <3>3. CASE Edit!Goto(c, IF editor[c].backup /\ base[c].there THEN "unlink" ELSE "rename") /\ UNCHANGED <<result, lock, temp>>
      BY <3>1, <3>3, <2>8, <2>p
    <3> QED BY <2>10, <3>2, <3>3 DEF Edit!Decide
  <2>11. CASE Edit!Unlink(c) \/ Edit!Link(c)
    BY <2>11, <2>7, <2>8, <2>2, <2>e, <2>p DEF Edit!Unlink, Edit!Link
  <2>12. CASE Edit!Rename(c)
    BY <2>12, <2>7, <2>2, <2>e DEF Edit!Rename
  <2>13. CASE Edit!Crash(c)
    <3>1. /\ pc[c] \notin {"idle", "done"} /\ Edit!Goto(c, "done") /\ result' = [result EXCEPT ![c] = "killed"]
          /\ lock' = (IF lock = c THEN Edit!NoCall ELSE lock) /\ UNCHANGED <<temp, version>>
      BY <2>13 DEF Edit!Crash, Edit!Disk
    <3>2. result'[c] = "killed" /\ "killed" \in EditorResults  BY <3>1, <2>2 DEF EditorResults
    <3>3. EditorKeeps(c)  BY <2>1, <2>2, <2>g, <2>p, <3>1, <3>2 DEF EditorKeeps
    <3> QED BY <3>3, EditorKept
  <2> QED BY <1>2, <2>3, <2>4, <2>5, <2>6, <2>9, <2>10, <2>11, <2>12, <2>13 DEF Edit!Step
<1> QED BY <1>1, <1>2 DEF Edit!Next

LEMMA EditorBaseStep == EditorOK /\ EditorShape /\ EditorBase /\ [Edit!Next]_(Edit!vars) => EditorBase'
<1> SUFFICES ASSUME EditorOK, EditorShape, EditorBase, [Edit!Next]_(Edit!vars) PROVE EditorBase'  OBVIOUS
<1>1. CASE UNCHANGED Edit!vars
  <2>1. UNCHANGED <<editor, pc, base, file, backup, version, lost, result>>  BY <1>1 DEF Edit!vars
  <2> QED BY <2>1 DEF EditorBase, EditorLocks, EditorBacked, EditorBehind
<1>2. ASSUME NEW c \in Edits, Edit!Step(c) \/ Edit!Crash(c) PROVE EditorBase'
  <2>1. /\ UNCHANGED editor /\ pc' = [pc EXCEPT ![c] = pc'[c]] /\ result' = [result EXCEPT ![c] = result'[c]]
        /\ base' = [base EXCEPT ![c] = base'[c]]
    BY <1>2, EditorMove
  <2> DEFINE Good ==
        /\ ~lost'
        /\ \A d \in Edits :
             /\ pc'[d] \in EditorIn => base'[d].version = version' /\ base'[d].there = file'.there
                                         /\ (base'[d].there => base'[d].lines = file'.lines)
             /\ pc'[d] = "rename" /\ editor[d].backup /\ base'[d].there => EditorBacked(d)'
             /\ result'[d] = "true" /\ editor[d].backup /\ base'[d].there /\ EditorBehind(d)' => EditorBacked(d)'
  <2> SUFFICES ASSUME EditorLocks PROVE Good
    BY <2>1 DEF EditorBase, EditorLocks
  <2>2. /\ ~lost
        /\ \A d \in Edits :
             /\ pc[d] \in EditorIn => base[d].version = version /\ base[d].there = file.there
                                     /\ (base[d].there => base[d].lines = file.lines)
             /\ pc[d] = "rename" /\ editor[d].backup /\ base[d].there => EditorBacked(d)
             /\ result[d] = "true" /\ editor[d].backup /\ base[d].there /\ EditorBehind(d) => EditorBacked(d)
    BY DEF EditorBase
  <2>3. \A d \in Edits \ {c} : pc'[d] = pc[d] /\ result'[d] = result[d] /\ base'[d] = base[d]
    BY <2>1 DEF EditorShape
  <2>4. \A d \in Edits \ {c} : pc[c] \in EditorIn \cup {"open"} => pc[d] \notin EditorIn \cup {"open"}
    BY DEF EditorShape, EditorLocks
  \* A call that has got further than waiting for the lock never waits again.
  <2>5. ASSUME NEW d \in Edits, EditorBehind(d)' PROVE EditorBehind(d)
    <3>1. ASSUME NEW e \in Edits \ {d} PROVE pc[e] \in {"idle", "lock"}
      <4>1. pc'[e] \in {"idle", "lock"}  BY <2>5 DEF EditorBehind
      <4>2. CASE e # c  BY <4>1, <4>2, <2>3
      <4>3. CASE e = c
        <5>1. pc'[c] \in {"idle", "lock"} => pc[c] \in {"idle", "lock"}
          BY <1>2 DEF EditorShape, Edit!Step, Edit!Crash, Edit!Enter, Edit!StringMode, Edit!AcquireFileLock, Edit!Open,
             Edit!Run, Edit!RunFails, Edit!Decide, Edit!Unlink, Edit!Link, Edit!Rename, Edit!Goto, Edit!Returns
        <5> QED BY <5>1, <4>1, <4>3
      <4> QED BY <4>2, <4>3
    <3> QED BY <3>1 DEF EditorBehind
  <2>d. pc[c] = "done" <=> result[c] # "none"  BY DEF EditorShape
  <2>f. pc \in [Edits -> EditorPlaces] /\ result \in [Edits -> EditorResults] /\ base = [d \in Edits |-> base[d]]  BY DEF EditorShape
  \* Steps that leave the disk alone and give no new place in the rename.
  <2>6. ASSUME UNCHANGED <<file, backup, version, lost>>, UNCHANGED base, result'[c] # "true" \/ UNCHANGED result,
               pc'[c] \in EditorIn => pc[c] \in EditorIn,
               pc'[c] = "rename" => pc[c] = "rename" \/ ~(editor[c].backup /\ base[c].there)
        PROVE  Good
    <3>1. ASSUME NEW d \in Edits
          PROVE  /\ pc'[d] \in EditorIn => pc[d] \in EditorIn
                 /\ pc'[d] = "rename" => pc[d] = "rename" \/ ~(editor[d].backup /\ base[d].there)
                 /\ result'[d] = "true" => result[d] = "true"
      BY <2>3, <2>6
    <3>2. \A d \in Edits : EditorBacked(d) => EditorBacked(d)'  BY <2>6 DEF EditorBacked
    <3> QED BY <3>1, <3>2, <2>1, <2>2, <2>5, <2>6
  <2>g. ASSUME NEW p, Edit!Goto(c, p) PROVE pc'[c] = p  BY <2>f, <2>g DEF Edit!Goto
  <2>r. ASSUME NEW r, Edit!Returns(c, r) PROVE pc'[c] = "done" /\ result'[c] = r
    BY <2>f, <2>r DEF Edit!Returns, Edit!Goto
  <2>p. /\ "done" \notin EditorIn /\ "lock" \notin EditorIn /\ "open" \notin EditorIn /\ "run" \in EditorIn
        /\ "decide" \in EditorIn /\ "unlink" \in EditorIn /\ "link" \in EditorIn /\ "rename" \in EditorIn
    BY DEF EditorIn
  \* No call that answered true is behind a call that is under way.
  <2>b. ASSUME pc'[c] \notin {"idle", "lock"}, NEW d \in Edits \ {c} PROVE ~EditorBehind(d)'
    BY <2>b DEF EditorBehind
  <2>7. CASE Edit!Enter(c)
    <3>1. UNCHANGED <<file, backup, version, lost, base>> /\ pc[c] = "idle"  BY <2>7 DEF Edit!Enter, Edit!Disk
    <3>2. ASSUME Edit!Returns(c, "error") PROVE Good  BY <3>1, <3>2, <2>6, <2>r, <2>p
    <3>3. ASSUME Edit!Goto(c, IF editor[c].lock THEN "lock" ELSE "open"), UNCHANGED result PROVE Good
      BY <3>1, <3>3, <2>6, <2>g, <2>p
    <3> QED BY <2>7, <3>2, <3>3 DEF Edit!Enter
  <2>8. CASE Edit!StringMode(c)
    <3>1. UNCHANGED <<file, backup, version, lost, base>>  BY <2>8 DEF Edit!StringMode, Edit!Disk
    <3>2. PICK r \in {"error", "string"} : Edit!Returns(c, r)  BY <2>8 DEF Edit!StringMode
    <3> QED BY <3>1, <3>2, <2>6, <2>r, <2>p
  <2>9. CASE Edit!AcquireFileLock(c)
    BY <2>9, <2>6, <2>g, <2>p DEF Edit!AcquireFileLock, Edit!Disk
  <2>10. CASE Edit!Open(c)
    <3>1. UNCHANGED <<file, backup, version, lost>> /\ pc[c] = "open"  BY <2>10 DEF Edit!Open, Edit!Disk
    <3>2. ASSUME Edit!Returns(c, "error"), UNCHANGED base PROVE Good  BY <3>1, <3>2, <2>6, <2>r, <2>p
    <3>3. ASSUME base' = [base EXCEPT ![c] = [there |-> file.there, version |-> version,
                                              lines |-> IF file.there THEN file.lines ELSE << >>]],
                 Edit!Goto(c, "run"), UNCHANGED result
          PROVE  Good
      <4>1. pc'[c] = "run"  BY <3>3, <2>g
      <4>2. base'[c].version = version /\ base'[c].there = file.there /\ (file.there => base'[c].lines = file.lines)
        BY <3>3, <2>f
      <4>3. result[c] # "true"  BY <3>1, <2>d, <2>f
      <4>4. ASSUME NEW d \in Edits \ {c}
            PROVE  /\ pc'[d] \in EditorIn => base'[d].version = version' /\ base'[d].there = file'.there
                                               /\ (base'[d].there => base'[d].lines = file'.lines)
                   /\ pc'[d] = "rename" /\ editor[d].backup /\ base'[d].there => EditorBacked(d)'
                   /\ ~EditorBehind(d)'
        <5>1. EditorBacked(d) => EditorBacked(d)'  BY <3>1, <2>3 DEF EditorBacked
        <5> QED BY <5>1, <3>1, <4>1, <2>b, <2>2, <2>3
      <4> QED BY <4>1, <4>2, <4>3, <4>4, <3>1, <3>3, <2>1, <2>2
    <3> QED BY <2>10, <3>2, <3>3 DEF Edit!Open
  <2>11. CASE Edit!Run(c) \/ Edit!RunFails(c)
    <3>1. UNCHANGED <<file, backup, version, lost, base>> /\ pc[c] = "run"  BY <2>11 DEF Edit!Run, Edit!RunFails, Edit!Disk
    <3>2. ASSUME NEW r \in {"false", "error"}, Edit!Returns(c, r) PROVE Good  BY <3>1, <3>2, <2>6, <2>r, <2>p
    <3>3. ASSUME Edit!Goto(c, "decide"), UNCHANGED result PROVE Good  BY <3>1, <3>3, <2>6, <2>g, <2>p
    <3> QED BY <2>11, <3>2, <3>3 DEF Edit!Run, Edit!RunFails
  <2>12. CASE Edit!Decide(c)
    <3>1. UNCHANGED <<file, backup, version, lost, base>> /\ pc[c] = "decide"  BY <2>12 DEF Edit!Decide, Edit!Disk
    <3>2. ASSUME Edit!Returns(c, "false") PROVE Good  BY <3>1, <3>2, <2>6, <2>r, <2>p
    <3>3. ASSUME Edit!Goto(c, IF editor[c].backup /\ base[c].there THEN "unlink" ELSE "rename"), UNCHANGED result PROVE Good
      <4>1. pc'[c] = IF editor[c].backup /\ base[c].there THEN "unlink" ELSE "rename"  BY <3>3, <2>g
      <4> QED BY <3>1, <3>3, <4>1, <2>6, <2>p
    <3> QED BY <2>12, <3>2, <3>3 DEF Edit!Decide
  <2>13. ASSUME pc[c] \in EditorIn, UNCHANGED <<file, version, lost, base, result>>, pc'[c] \in EditorIn,
                pc'[c] = "rename" => EditorBacked(c)'
         PROVE  Good
    <3>1. \A d \in Edits \ {c} : pc'[d] \notin EditorIn /\ ~EditorBehind(d)'
      BY <2>13, <2>b, <2>3, <2>4 DEF EditorIn
    <3>2. result'[c] # "true"  BY <2>13, <2>d, <2>f, <2>p
    <3> QED BY <3>1, <3>2, <2>1, <2>2, <2>13, <2>p
  <2>14. CASE Edit!Unlink(c)
    <3>1. pc'[c] = "link"  BY <2>14, <2>g DEF Edit!Unlink
    <3> QED BY <2>14, <3>1, <2>13, <2>p DEF Edit!Unlink
  <2>15. CASE Edit!Link(c)
    <3>1. UNCHANGED <<file, version, lost, base>> /\ pc[c] = "link"  BY <2>15 DEF Edit!Link
    <3>2. ASSUME Edit!Returns(c, "error"), UNCHANGED backup PROVE Good  BY <3>1, <3>2, <2>6, <2>r, <2>p
    <3>3. ASSUME file.there, backup' = [there |-> TRUE, lines |-> file.lines], Edit!Goto(c, "rename"), UNCHANGED result PROVE Good
      <4>1. base[c].there = file.there /\ (base[c].there => base[c].lines = file.lines)  BY <3>1, <2>2, <2>p
      <4>2. EditorBacked(c)'  BY <4>1, <3>1, <3>3 DEF EditorBacked
      <4>3. pc'[c] = "rename"  BY <3>3, <2>g
      <4> QED BY <4>2, <4>3, <3>1, <3>3, <2>13, <2>p
    <3> QED BY <2>15, <3>2, <3>3 DEF Edit!Link
  <2>16. CASE Edit!Rename(c)
    <3>1. /\ pc[c] = "rename" /\ lost' = (lost \/ base[c].version # version) /\ UNCHANGED <<base, backup>> /\ Edit!Returns(c, "true")
      BY <2>16 DEF Edit!Rename
    <3>2. ~lost'  BY <3>1, <2>2, <2>p
    <3>3. pc'[c] = "done"  BY <3>1, <2>r
    <3>4. \A d \in Edits \ {c} : pc'[d] \notin EditorIn /\ ~EditorBehind(d)'
      BY <3>1, <3>3, <2>b, <2>3, <2>4, <2>p
    <3>5. editor[c].backup /\ base'[c].there => EditorBacked(c)'  BY <3>1, <2>2 DEF EditorBacked
    <3>6. pc'[c] # "rename" /\ pc'[c] \notin EditorIn /\ \A d \in Edits \ {c} : pc'[d] # "rename"  BY <3>3, <3>4, <2>p
    <3> QED BY <3>2, <3>4, <3>5, <3>6, <2>1
  <2>17. CASE Edit!Crash(c)
    <3>1. /\ UNCHANGED <<file, backup, version, lost, base>> /\ Edit!Goto(c, "done") /\ result' = [result EXCEPT ![c] = "killed"]
      BY <2>17 DEF Edit!Crash, Edit!Disk
    <3>2. pc'[c] = "done" /\ result'[c] = "killed"  BY <3>1, <2>g, <2>f
    <3> QED BY <3>1, <3>2, <2>6, <2>p
  <2> QED BY <1>2, <2>7, <2>8, <2>9, <2>10, <2>11, <2>12, <2>14, <2>15, <2>16, <2>17 DEF Edit!Step
<1> QED BY <1>1, <1>2 DEF Edit!Next

LEMMA EditorCountStep == EditorOK /\ EditorShape /\ EditorCount /\ [Edit!Next]_(Edit!vars) => EditorCount'
<1> SUFFICES ASSUME EditorOK, EditorShape, EditorCount, [Edit!Next]_(Edit!vars) PROVE EditorCount'  OBVIOUS
<1>0. IsFiniteSet(EditorWrote)  BY FS_Subset DEF EditorWrote, EditorOK
<1>1. CASE UNCHANGED <<result, version, file, work>>
  BY <1>1 DEF EditorCount, EditorWrote
<1>2. ASSUME NEW c \in Edits, Edit!Step(c) \/ Edit!Crash(c) PROVE EditorCount'
  <2>1. /\ result' = [result EXCEPT ![c] = result'[c]] /\ work' = [work EXCEPT ![c] = work'[c]]
    BY <1>2, EditorMove
  <2>2. /\ result \in [Edits -> EditorResults] /\ work = [d \in Edits |-> work[d]] /\ (pc[c] = "done" <=> result[c] # "none")
        /\ pc \in [Edits -> EditorPlaces] /\ version \in Nat
    BY DEF EditorShape
  <2>3. \A d \in Edits \ {c} : result'[d] = result[d] /\ work'[d] = work[d]  BY <2>1, <2>2
  \* A call that answers true is done, and was not before.
  <2>4. ASSUME result[c] # "true", result'[c] # "true", UNCHANGED <<version, file>> PROVE EditorCount'
    <3>1. EditorWrote' = EditorWrote  BY <2>3, <2>4 DEF EditorWrote
    <3>2. \A d \in EditorWrote : work'[d] = work[d]  BY <2>3, <2>4 DEF EditorWrote
    <3> QED BY <3>1, <3>2, <2>4 DEF EditorCount
  <2>r. ASSUME NEW r, Edit!Returns(c, r) PROVE result'[c] = r  BY <2>2, <2>r DEF Edit!Returns
  <2>5. CASE Edit!Enter(c) \/ Edit!StringMode(c) \/ Edit!AcquireFileLock(c) \/ Edit!Open(c) \/ Edit!Run(c)
             \/ Edit!RunFails(c) \/ Edit!Decide(c)
    <3>1. UNCHANGED <<version, file>> /\ pc[c] # "done"
      BY <2>5 DEF Edit!Enter, Edit!StringMode, Edit!AcquireFileLock, Edit!Open, Edit!Run, Edit!RunFails, Edit!Decide, Edit!Disk
    <3>2. UNCHANGED result \/ \E r \in {"error", "string", "false"} : Edit!Returns(c, r)
      BY <2>5 DEF Edit!Enter, Edit!StringMode, Edit!AcquireFileLock, Edit!Open, Edit!Run, Edit!RunFails, Edit!Decide
    <3>3. result'[c] # "true" /\ result[c] # "true"  BY <3>1, <3>2, <2>2, <2>r
    <3> QED BY <3>1, <3>3, <2>4
  <2>6. CASE Edit!Unlink(c) \/ Edit!Link(c)
    <3>1. UNCHANGED <<version, file>> /\ pc[c] # "done"  BY <2>6 DEF Edit!Unlink, Edit!Link
    <3>2. UNCHANGED result \/ Edit!Returns(c, "error")  BY <2>6 DEF Edit!Unlink, Edit!Link
    <3>3. result'[c] # "true" /\ result[c] # "true"  BY <3>1, <3>2, <2>2, <2>r
    <3> QED BY <3>1, <3>3, <2>4
  <2>7. CASE Edit!Crash(c)
    <3>1. UNCHANGED <<version, file>> /\ pc[c] # "done" /\ result' = [result EXCEPT ![c] = "killed"]
      BY <2>7 DEF Edit!Crash, Edit!Disk
    <3>3. result'[c] # "true" /\ result[c] # "true"  BY <3>1, <2>2
    <3> QED BY <3>1, <3>3, <2>4
  <2>8. CASE Edit!Rename(c)
    <3>1. /\ pc[c] = "rename" /\ file'.lines = work[c].out /\ version' = version + 1 /\ UNCHANGED work /\ Edit!Returns(c, "true")
      BY <2>8 DEF Edit!Rename
    <3>2. result'[c] = "true" /\ result[c] # "true"  BY <3>1, <2>2, <2>r
    <3>3. EditorWrote' = EditorWrote \cup {c} /\ c \notin EditorWrote  BY <3>2, <2>3 DEF EditorWrote
    <3>4. Cardinality(EditorWrote') = Cardinality(EditorWrote) + 1  BY <3>3, <1>0, FS_AddElement
    <3>5. c \in EditorWrote' /\ file'.lines = work'[c].out  BY <3>1, <3>3
    <3> QED BY <3>1, <3>4, <3>5 DEF EditorCount
  <2> QED BY <1>2, <2>5, <2>6, <2>7, <2>8 DEF Edit!Step
<1> QED BY <1>1, <1>2 DEF Edit!Next, Edit!vars

LEMMA EditorInvariance == EditorOK => (Edit!Spec => [](EditorShape /\ EditorBase /\ EditorCount))
<1> SUFFICES ASSUME EditorOK PROVE Edit!Spec => [](EditorShape /\ EditorBase /\ EditorCount)  OBVIOUS
<1> QED BY EditorInit, EditorShapeStep, EditorBaseStep, EditorCountStep, PTL DEF Edit!Spec

\* A call's place, its result and the lock are what they can be, and the file
\* is not replaced more often than it is edited.
LEMMA EditorTypeCorrect == EditorOK => (Edit!Spec => []Edit!TypeOK)
<1> SUFFICES ASSUME EditorOK PROVE Edit!Spec => []Edit!TypeOK  OBVIOUS
<1>1. EditorShape /\ EditorCount => Edit!TypeOK
  <2> SUFFICES ASSUME EditorShape, EditorCount PROVE Edit!TypeOK  OBVIOUS
  <2>1. version <= Edit!Cardinality(Edits)
    <3>1. EditorWrote \subseteq Edits  BY DEF EditorWrote
    <3>2. Cardinality(EditorWrote) <= Cardinality(Edits)  BY <3>1, FS_Subset DEF EditorOK
    <3> QED BY <3>2, EditorCounts DEF EditorCount
  <2>2. \A c \in Edits : pc[c] \in EditorPlaces /\ result[c] \in EditorResults /\ temp \subseteq Edits /\ lock \in Edits \cup {Edit!NoCall}
    BY DEF EditorShape
  <2>3. temp \subseteq Edits /\ lock \in Edits \cup {Edit!NoCall}  BY DEF EditorShape
  <2>4. EditorPlaces = {"idle", "lock", "open", "run", "decide", "unlink", "link", "rename", "done"}
    BY DEF EditorPlaces, EditorIn
  <2>5. EditorResults = {"none", "true", "false", "error", "killed", "string"}  BY DEF EditorResults
  <2>6. ASSUME NEW c \in Edits
        PROVE  /\ pc[c] \in {"idle", "lock", "open", "run", "decide", "unlink", "link", "rename", "done"}
               /\ result[c] \in {"none", "true", "false", "error", "killed", "string"}
    BY Zenon, <2>2, <2>4, <2>5
  <2> QED BY Zenon, <2>1, <2>3, <2>6 DEF Edit!TypeOK
<1> QED BY <1>1, EditorInvariance, PTL

\* Every way out of a call but a kill removes its temporary file
\* (line.go:656, :770-788).
THEOREM EditorTempsRemoved == EditorOK => (Edit!Spec => []Edit!TempsRemoved)
<1> SUFFICES ASSUME EditorOK PROVE Edit!Spec => []Edit!TempsRemoved  OBVIOUS
<1>1. EditorShape => Edit!TempsRemoved  BY DEF EditorShape, Edit!TempsRemoved
<1> QED BY <1>1, EditorInvariance, PTL

\* Among editors that lock no edit overwrites another's, with any number of
\* calls and of kills (line.go:626, lock_unix.go:17).
THEOREM EditorLockedNothingLost == EditorOK => (Edit!Spec => []Edit!LockedNothingLost)
<1> SUFFICES ASSUME EditorOK PROVE Edit!Spec => []Edit!LockedNothingLost  OBVIOUS
<1>1. EditorBase => Edit!LockedNothingLost  BY DEF EditorBase, EditorLocks, Edit!LockedNothingLost
<1> QED BY <1>1, EditorInvariance, PTL

\* The file is one call's whole result, and is replaced once for every answer
\* that says so (line.go:786).
THEOREM EditorWholeOrUntouched == EditorOK => (Edit!Spec => []Edit!WholeOrUntouched)
<1> SUFFICES ASSUME EditorOK PROVE Edit!Spec => []Edit!WholeOrUntouched  OBVIOUS
<1>1. EditorCount => Edit!WholeOrUntouched
  <2>1. {c \in Edits : result[c] = "true"} = EditorWrote  BY DEF EditorWrote
  <2>2. \A c \in EditorWrote : c \in Edits /\ result[c] = "true"  BY DEF EditorWrote
  <2>3. ASSUME EditorCount, version > 0 PROVE \E c \in Edits : result[c] = "true" /\ file.lines = work[c].out
    BY <2>2, <2>3 DEF EditorCount
  <2>4. EditorCount => version = Edit!Cardinality({c \in Edits : result[c] = "true"})  BY <2>1, EditorCounts DEF EditorCount
  <2> QED BY Zenon, <2>3, <2>4 DEF Edit!WholeOrUntouched
<1> QED BY <1>1, EditorInvariance, PTL

\* The backup is what the last edit was based on (line.go:776).
THEOREM EditorBackupIsBase == EditorOK => (Edit!Spec => []Edit!BackupIsBase)
<1> SUFFICES ASSUME EditorOK PROVE Edit!Spec => []Edit!BackupIsBase  OBVIOUS
<1>1. EditorBase => Edit!BackupIsBase
  BY DEF EditorBase, EditorLocks, EditorBehind, EditorBacked, Edit!BackupIsBase
<1> QED BY <1>1, EditorInvariance, PTL

=============================================================================
