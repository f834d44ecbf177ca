-------------------------- MODULE PipelineProofs ---------------------------
(***************************************************************************)
(* Proofs about the two modules of the message pipeline: Delivery is an    *)
(* instance by the names of its variables, Lifecycle is extended.          *)
(*                                                                         *)
(* Delivery, for every set of written attributes and every choice of       *)
(* subscribers behind the receiver: a delivery is settled once, the        *)
(* deadline is kept and its log is true, and under ack = "auto" nothing is *)
(* acknowledged before its work is done.                                   *)
(*                                                                         *)
(* Lifecycle, for any number of receivers, with or without a queue behind  *)
(* the bus: what is left running when the process ends, what the queues    *)
(* hold when the transports stop, and when an acknowledgement may be       *)
(* refused.                                                                *)
(***************************************************************************)
EXTENDS Lifecycle, FiniteSetTheorems, WellFoundedInduction, TLAPS

CONSTANTS AckValues, Extra, TimeoutValues, Targets

VARIABLES policy, chain, point, work, outcome, by, timer, logs, told

Delivery == INSTANCE Delivery

-----------------------------------------------------------------------------
(* The settler.                                                            *)

\* One call settles an open delivery the way it asks, or changes nothing.
LEMMA AttemptSettlesOpen ==
  ASSUME NEW how, NEW who, NEW r \in Delivery!Results, Delivery!Attempt(how, who, r)
  PROVE  \/ outcome = "open" /\ r = "settled" /\ outcome' = how /\ by' = who
         \/ r # "settled" /\ UNCHANGED <<outcome, by>>
BY DEF Delivery!Attempt, Delivery!Results

-----------------------------------------------------------------------------
(* The chain is fixed when the receiver is built.                          *)

\* The targets GetSubscriberFromExpression knows.
TargetsOK == Targets \subseteq {"bus", "busq", "sync", "async", "proxy"}

\* The subscribers a chain is made of.
Kinds == {"baggage", "settle", "queue", "transform", "action", "handle", "bus",
          "producers", "deferring producers", "proxy", "async producer"}

\* Every subscriber but the last either reports the one behind it (Unwrap) or
\* takes the message over and defers: none of them handles the message.
PassesOn(e) == Delivery!Unwraps(e) \/ Delivery!TakesOver(e)
Passing(s) == s \in Seq(Kinds) /\ \A j \in 1..Len(s) : PassesOn(s[j])
WellBuilt(s) ==
  /\ s \in Seq(Kinds) /\ Len(s) >= 1
  /\ \A j \in 1..(Len(s) - 1) : PassesOn(s[j])

\* Wrapping keeps a chain well built.
LEMMA WrapWellBuilt ==
  ASSUME NEW s, NEW t, Passing(s), WellBuilt(t)
  PROVE  WellBuilt(s \o t)
<1> DEFINE c == s \o t
<1>1. /\ s \in Seq(Kinds) /\ t \in Seq(Kinds)
      /\ Len(s) \in Nat /\ Len(t) \in Nat /\ Len(t) >= 1
  BY DEF Passing, WellBuilt
<1>2. /\ c \in Seq(Kinds) /\ Len(c) = Len(s) + Len(t)
      /\ \A j \in 1..Len(c) : c[j] = IF j <= Len(s) THEN s[j] ELSE t[j - Len(s)]
  BY <1>1
<1> HIDE DEF c
<1>3. ASSUME NEW j \in 1..(Len(c) - 1) PROVE PassesOn(c[j])
  <2>1. CASE j <= Len(s)
    BY <1>1, <1>2, <2>1 DEF Passing
  <2>2. CASE j > Len(s)
    <3>1. j - Len(s) \in 1..(Len(t) - 1) /\ c[j] = t[j - Len(s)]
      BY <1>1, <1>2, <2>2
    <3> QED BY <3>1 DEF WellBuilt
  <2> QED BY <1>1, <2>1, <2>2
<1>4. WellBuilt(c)
  BY <1>1, <1>2, <1>3 DEF WellBuilt
<1> QED BY <1>4 DEF c

\* One subscriber, in front of another or alone.
LEMMA OneSubscriber ==
  ASSUME NEW e \in Kinds
  PROVE  WellBuilt(<<e>>) /\ (PassesOn(e) => Passing(<<e>>))
<1> DEFINE s == <<e>>
<1>1. s \in Seq(Kinds) /\ Len(s) = 1 /\ s[1] = e
  OBVIOUS
<1> HIDE DEF s
<1>2. WellBuilt(s) /\ (PassesOn(e) => Passing(s))
  BY <1>1 DEF WellBuilt, Passing
<1> QED BY <1>2 DEF s

LEMMA PassingEmpty == Passing(<<>>)
BY DEF Passing

LEMMA PassingConcat ==
  ASSUME NEW s, NEW t, Passing(s), Passing(t)
  PROVE  Passing(s \o t)
<1> DEFINE c == s \o t
<1>1. s \in Seq(Kinds) /\ t \in Seq(Kinds) /\ Len(s) \in Nat /\ Len(t) \in Nat
  BY DEF Passing
<1>2. /\ c \in Seq(Kinds) /\ Len(c) = Len(s) + Len(t)
      /\ \A j \in 1..Len(c) : c[j] = IF j <= Len(s) THEN s[j] ELSE t[j - Len(s)]
  BY <1>1
<1> HIDE DEF c
<1>3. ASSUME NEW j \in 1..Len(c) PROVE PassesOn(c[j])
  <2>1. CASE j <= Len(s)
    BY <1>1, <1>2, <2>1 DEF Passing
  <2>2. CASE j > Len(s)
    <3>1. j - Len(s) \in 1..Len(t) /\ c[j] = t[j - Len(s)]
      BY <1>1, <1>2, <2>2
    <3> QED BY <3>1 DEF Passing
  <2> QED BY <1>1, <2>1, <2>2
<1>4. Passing(c)
  BY <1>2, <1>3 DEF Passing
<1> QED BY <1>4 DEF c

USE DEF Delivery!SettleUnwrap, Delivery!BaggageUnwrap, Delivery!HandleUnwrap, Delivery!ProxyUnwrap

\* Two, three and four of them, the last handling the message or not.
LEMMA TwoSubscribers ==
  ASSUME NEW a \in Kinds, NEW b \in Kinds, PassesOn(a)
  PROVE  WellBuilt(<<a, b>>)
<1> DEFINE s == <<a, b>>
<1>1. s \in Seq(Kinds) /\ Len(s) = 2 /\ s[1] = a
  OBVIOUS
<1> HIDE DEF s
<1>2. WellBuilt(s)
  BY <1>1 DEF WellBuilt
<1> QED BY <1>2 DEF s

LEMMA ThreeSubscribers ==
  ASSUME NEW a \in Kinds, NEW b \in Kinds, NEW c \in Kinds, PassesOn(a), PassesOn(b)
  PROVE  WellBuilt(<<a, b, c>>)
<1> DEFINE s == <<a, b, c>>
<1>1. s \in Seq(Kinds) /\ Len(s) = 3 /\ s[1] = a /\ s[2] = b
  OBVIOUS
<1> HIDE DEF s
<1>2. WellBuilt(s)
  BY <1>1 DEF WellBuilt
<1> QED BY <1>2 DEF s

LEMMA FourSubscribers ==
  ASSUME NEW a \in Kinds, NEW b \in Kinds, NEW c \in Kinds, NEW d \in Kinds,
         PassesOn(a), PassesOn(b), PassesOn(c)
  PROVE  WellBuilt(<<a, b, c, d>>)
<1> DEFINE s == <<a, b, c, d>>
<1>1. s \in Seq(Kinds) /\ Len(s) = 4 /\ s[1] = a /\ s[2] = b /\ s[3] = c
  OBVIOUS
<1> HIDE DEF s
<1>2. WellBuilt(s)
  BY <1>1 DEF WellBuilt
<1> QED BY <1>2 DEF s

\* What stands behind a subscriber expression is well built, ...
LEMMA TargetWellBuilt ==
  ASSUME TargetsOK, NEW t \in Targets
  PROVE  WellBuilt(Delivery!GetSubscriberFromExpression(t))
<1>1. t \in {"bus", "busq", "sync", "async", "proxy"}
  BY DEF TargetsOK
<1>2. /\ "handle" \in Kinds /\ "bus" \in Kinds /\ "queue" \in Kinds /\ "action" \in Kinds
      /\ "producers" \in Kinds /\ "deferring producers" \in Kinds
      /\ "proxy" \in Kinds /\ "async producer" \in Kinds
  BY DEF Kinds
<1>3. PassesOn("handle") /\ PassesOn("bus") /\ PassesOn("queue") /\ PassesOn("proxy")
  BY DEF PassesOn, Delivery!Unwraps, Delivery!TakesOver
<1>4. WellBuilt(<<"handle", "bus", "action">>)
  BY <1>2, <1>3, ThreeSubscribers
<1>5. WellBuilt(<<"handle", "bus", "queue", "action">>)
  BY <1>2, <1>3, FourSubscribers
<1>6. WellBuilt(<<"producers">>) /\ WellBuilt(<<"deferring producers">>)
  BY <1>2, OneSubscriber
<1>7. WellBuilt(<<"proxy", "async producer">>)
  BY <1>2, <1>3, TwoSubscribers
<1> QED BY <1>1, <1>4, <1>5, <1>6, <1>7 DEF Delivery!GetSubscriberFromExpression

\* ... so is what ResolveQueue makes of a source it accepts ...
LEMMA QueueWellBuilt ==
  ASSUME TargetsOK, NEW s \in Delivery!Sources, Delivery!ResolveQueueOK(s)
  PROVE  WellBuilt(Delivery!ResolveQueue(s))
<1> DEFINE q == IF s.queue THEN <<"queue">> ELSE <<>>
           t == IF s.transforms THEN <<"transform">> ELSE <<>>
           e == IF s.action THEN <<"action">> ELSE Delivery!GetSubscriberFromExpression(s.target)
<1>0. "queue" \in Kinds /\ "transform" \in Kinds /\ "action" \in Kinds
  BY DEF Kinds
<1>1. Passing(q)
  BY <1>0, OneSubscriber, PassingEmpty DEF PassesOn, Delivery!TakesOver
<1>2. Passing(t)
  BY <1>0, OneSubscriber, PassingEmpty DEF PassesOn, Delivery!Unwraps
<1>3. WellBuilt(<<"action">>)
  BY <1>0, OneSubscriber
<1>4. ~s.action => s.target \in Targets
  BY DEF Delivery!Sources, Delivery!ResolveQueueOK
<1>5. WellBuilt(e)
  BY <1>3, <1>4, TargetWellBuilt
<1> HIDE DEF q, t, e
<1>6. WellBuilt((q \o t) \o e)
  BY <1>1, <1>2, <1>5, PassingConcat, WrapWellBuilt
<1> QED BY <1>6, Zenon DEF Delivery!ResolveQueue, q, t, e

\* ... and so is the whole chain, with the settle_timeout wrapper right behind
\* the baggage filter exactly where the policy has a bound.
ChainOK ==
  /\ WellBuilt(chain) /\ Len(chain) >= 2 /\ chain[1] = "baggage"
  /\ policy.timeout > 0 => chain[2] = "settle" /\ Len(chain) >= 3

LEMMA PolicyTyped ==
  ASSUME NEW a, NEW t, Delivery!ResolveAck(a, t) # Delivery!Refused
  PROVE  Delivery!ResolveAck(a, t) \in [mode : {"auto", "manual", Extra}, timeout : {0, 5}]
<1>1. Delivery!ParseDuration(t) \in {0, 5, -1}
  BY DEF Delivery!ParseDuration
<1> DEFINE mode == IF a = "" THEN "auto" ELSE a
           timeout == IF t = "" THEN 0 ELSE Delivery!ParseDuration(t)
<1>2. mode \in {"auto", "manual", Extra}
  BY Zenon DEF Delivery!ResolveAck
<1>3. Delivery!ResolveAck(a, t) = [mode |-> mode, timeout |-> timeout]
  BY Zenon DEF Delivery!ResolveAck
<1>4. ASSUME t # "" PROVE Delivery!ParseDuration(t) = 5
  <2>1. Delivery!ParseDuration(t) > 0
    BY <1>4, Zenon DEF Delivery!ResolveAck
  <2> QED BY <1>1, <2>1
<1>5. timeout \in {0, 5}
  BY <1>4, Zenon
<1> HIDE DEF mode, timeout
<1>6. [mode |-> mode, timeout |-> timeout] \in [mode : {"auto", "manual", Extra}, timeout : {0, 5}]
  BY <1>2, <1>5
<1> QED BY <1>3, <1>6, Zenon

LEMMA InitChain ==
  ASSUME TargetsOK, Delivery!Init
  PROVE  ChainOK /\ policy \in [mode : {"auto", "manual", Extra}, timeout : {0, 5}]
<1>1. policy \in [mode : {"auto", "manual", Extra}, timeout : {0, 5}]
  BY PolicyTyped DEF Delivery!Init
<1>2. PICK s \in Delivery!Sources :
        /\ Delivery!ResolveQueueOK(s)
        /\ chain = Delivery!NewBaggageFilterSubscriber(Delivery!NewSettleTimeoutSubscriber(policy, Delivery!ResolveQueue(s)))
  BY DEF Delivery!Init
<1> DEFINE q == Delivery!ResolveQueue(s)
           w == <<"settle">> \o q
<1>3. WellBuilt(q)
  BY <1>2, QueueWellBuilt
<1>4. /\ "baggage" \in Kinds /\ "settle" \in Kinds
      /\ Passing(<<"baggage">>) /\ Passing(<<"settle">>)
  <2>1. "baggage" \in Kinds /\ "settle" \in Kinds
    BY DEF Kinds
  <2>2. PassesOn("baggage") /\ PassesOn("settle")
    BY DEF PassesOn, Delivery!Unwraps
  <2> QED BY <2>1, <2>2, OneSubscriber
<1> HIDE DEF q
<1>5. /\ WellBuilt(w) /\ WellBuilt(<<"baggage">> \o q) /\ WellBuilt(<<"baggage">> \o w)
  BY <1>3, <1>4, WrapWellBuilt
<1>6. q \in Seq(Kinds) /\ Len(q) >= 1 /\ Len(q) \in Nat
  BY <1>3 DEF WellBuilt
<1>7. /\ w \in Seq(Kinds) /\ Len(w) = Len(q) + 1 /\ w[1] = "settle"
  BY <1>4, <1>6
<1> HIDE DEF w
<1>8. /\ Len(<<"baggage">> \o q) = Len(q) + 1 /\ (<<"baggage">> \o q)[1] = "baggage"
  BY <1>4, <1>6
<1>9. /\ Len(<<"baggage">> \o w) = Len(w) + 1 /\ (<<"baggage">> \o w)[1] = "baggage"
      /\ (<<"baggage">> \o w)[2] = w[1]
  BY <1>4, <1>6, <1>7
<1>10. CASE policy.timeout <= 0
  <2>1. chain = <<"baggage">> \o q
    BY <1>2, <1>10 DEF Delivery!NewBaggageFilterSubscriber, Delivery!NewSettleTimeoutSubscriber, q
  <2> QED BY <1>1, <1>5, <1>6, <1>8, <1>10, <2>1 DEF ChainOK
<1>11. CASE policy.timeout > 0
  <2>1. chain = <<"baggage">> \o w
    BY <1>1, <1>2, <1>11 DEF Delivery!NewBaggageFilterSubscriber,
      Delivery!NewSettleTimeoutSubscriber, q, w
  <2> QED BY <1>1, <1>5, <1>6, <1>7, <1>9, <2>1 DEF ChainOK
<1> QED BY <1>1, <1>10, <1>11

\* The least element that Min chooses exists.
LEMMA MinIsLeast ==
  ASSUME NEW S \in SUBSET Nat, S # {}
  PROVE  Delivery!Min(S) \in S /\ \A y \in S : Delivery!Min(S) <= y
<1> DEFINE R == {ss \in Nat \X Nat : ss[1] < ss[2]}
<1>1. IsWellFoundedOn(R, Nat)
  BY NatLessThanWellFounded, Zenon DEF OpToRel
<1>2. \A x, y \in Nat : <<y, x>> \notin R => x <= y
  <2> SUFFICES ASSUME NEW x \in Nat, NEW y \in Nat, ~(x <= y) PROVE <<y, x>> \in R
    OBVIOUS
  <2>1. <<y, x>> \in Nat \X Nat /\ <<y, x>>[1] = y /\ <<y, x>>[2] = x
    OBVIOUS
  <2>2. y < x
    OBVIOUS
  <2> QED BY <2>1, <2>2, Zenon
<1> HIDE DEF R
<1>3. \E x \in S : \A y \in S : ~(<<y, x>> \in R)
  BY <1>1, WFMin
<1>4. \E x \in S : \A y \in S : x <= y
  BY <1>2, <1>3
<1> QED BY <1>4, Zenon DEF Delivery!Min

\* Where a delivery stops: everything before the stop is a wrapper.
LEMMA StopsAt ==
  ASSUME ChainOK, NEW i \in Nat, i < Len(chain)
  PROVE  /\ Delivery!NextStop(i) \in (i + 1)..Len(chain)
         /\ Delivery!TakesOver(chain[Delivery!NextStop(i)]) \/ Delivery!NextStop(i) = Len(chain)
         /\ \A j \in (i + 1)..(Delivery!NextStop(i) - 1) : Delivery!Unwraps(chain[j]) /\ ~Delivery!TakesOver(chain[j])
<1> DEFINE S == {j \in (i + 1)..Len(chain) : Delivery!TakesOver(chain[j]) \/ j = Len(chain)}
           n == Delivery!Min(S)
<1>1. Len(chain) \in Nat
  BY DEF ChainOK, WellBuilt
<1>2. S \in SUBSET Nat /\ Len(chain) \in S
  BY <1>1
<1>3. n \in S /\ \A y \in S : n <= y
  BY <1>2, MinIsLeast
<1>4. ASSUME NEW j \in (i + 1)..(n - 1) PROVE Delivery!Unwraps(chain[j]) /\ ~Delivery!TakesOver(chain[j])
  <2>1. j \in (i + 1)..Len(chain) /\ j \notin S /\ j \in 1..(Len(chain) - 1)
    BY <1>1, <1>3
  <2> QED BY <2>1 DEF ChainOK, WellBuilt, PassesOn
<1> QED BY <1>3, <1>4 DEF Delivery!NextStop

\* A subscriber that takes a message over is not mistaken for one that handles
\* it, however many wrappers stand in front of it: DispositionOf walks exactly
\* to the subscriber the delivery stops at.
LEMMA TakenOverIsDeferred ==
  ASSUME ChainOK, NEW i \in Nat, i < Len(chain), Delivery!TakesOver(chain[Delivery!NextStop(i)])
  PROVE  Delivery!DispositionOf(i + 1) = "deferred"
<1> DEFINE n == Delivery!NextStop(i)
           E == {j \in (i + 1)..Len(chain) : j = Len(chain) \/ ~Delivery!Unwraps(chain[j])}
<1>1. Len(chain) \in Nat
  BY DEF ChainOK, WellBuilt
<1>2. ~Delivery!Unwraps(chain[n]) /\ Delivery!Defers(chain[n])
  BY DEF Delivery!TakesOver, Delivery!Unwraps, Delivery!Defers, Delivery!DeliveryDisposition
<1>3. n \in E /\ \A j \in E : n <= j
  BY <1>1, <1>2, StopsAt
<1>4. E \in SUBSET Nat
  BY <1>1
<1>5. Delivery!Min(E) = n
  <2>1. Delivery!Min(E) \in E /\ \A y \in E : Delivery!Min(E) <= y
    BY <1>3, <1>4, MinIsLeast
  <2>2. n \in Nat /\ Delivery!Min(E) \in Nat
    BY <1>3, <1>4, <2>1
  <2> HIDE DEF E, n
  <2> QED BY <1>3, <2>1, <2>2
<1> QED BY <1>2, <1>5 DEF Delivery!DispositionOf

-----------------------------------------------------------------------------
(* The inductive invariant.                                                *)

\* The race for the settler, told from the timer's place in it: a stopped
\* timer means somebody settled, a log line means the deadline ran, and a
\* deadline that ran without settling an open delivery has said so.
SettlerInv ==
  /\ by \in {"nobody", "config", "framework", "deadline"}
  /\ outcome \in {"open", "lapsed"} => by = "nobody"
  /\ timer = "stopped" => outcome # "open"
  /\ timer # "done" => logs = {} /\ by # "deadline"
  /\ timer = "done" => (("warn" \in logs) <=> (by = "deadline"))
  /\ timer = "done" /\ outcome = "open" => "error" \in logs

\* The timer is armed on the way through the wrapper, before anything behind
\* it sees the message.
ArmedInv == policy.timeout > 0 /\ timer = "unarmed" => point[0] = "waiting"

\* The message is at one settle point at a time and its work is done once; a
\* delivery that returned without an error to a point that will settle on it
\* is one whose work is done, and one that returned an error is one whose work
\* failed.
Holds(i) == point[i] \in {"waiting", "acting"}
Handles(i) == i = Len(chain) \/ Delivery!DispositionOf(i + 1) = "handled"
WorkInv ==
  /\ \A i, j \in Delivery!Points : Holds(i) /\ Holds(j) => i = j
  /\ work # "todo" => \A i \in Delivery!Points : ~Holds(i)
  /\ \A i \in Delivery!Points : point[i] = "nil" /\ Handles(i) => work = "ok"
  /\ \A i \in Delivery!Points : point[i] = "err" => work = "failed"
  /\ Delivery!NoEarlyAck

IndInv == Delivery!TypeOK /\ ChainOK /\ SettlerInv /\ ArmedInv /\ WorkInv

LEMMA PointsTyped ==
  ASSUME ChainOK
  PROVE  Delivery!Points \subseteq 0..Len(chain) /\ 0 \in Delivery!Points /\ Len(chain) \in Nat
BY DEF ChainOK, WellBuilt, Delivery!Points

LEMMA InitInd ==
  ASSUME TargetsOK, Delivery!Init
  PROVE  IndInv
<1>1. ChainOK /\ policy \in [mode : {"auto", "manual", Extra}, timeout : {0, 5}]
  BY InitChain
<1>2. point \in [Delivery!Points -> {"none", "waiting", "acting", "nil", "err", "done"}]
  BY DEF Delivery!Init
<1>3. Delivery!TypeOK
  BY <1>1, <1>2 DEF Delivery!Init, Delivery!TypeOK
<1>4. SettlerInv
  BY DEF Delivery!Init, SettlerInv
<1>5. 0 \in Delivery!Points /\ point[0] = "waiting"
  BY <1>1, PointsTyped DEF Delivery!Init
<1>6. WorkInv
  BY DEF Delivery!Init, WorkInv, Holds, Delivery!NoEarlyAck
<1> QED BY <1>1, <1>3, <1>4, <1>5, <1>6 DEF IndInv, ArmedInv

\* The policy, the chain and so the settle points never change.
LEMMA BuiltOnce ==
  ASSUME [Delivery!Next]_Delivery!vars
  PROVE  UNCHANGED <<policy, chain>>
BY DEF Delivery!Next, Delivery!vars, Delivery!Hop, Delivery!Deliver, Delivery!Produce,
  Delivery!Return, Delivery!SettleOnReturn, Delivery!InboundAck, Delivery!InboundNack,
       Delivery!InboundSettle, Delivery!Fire, Delivery!Expire, Delivery!Lapse

LEMMA StepChain ==
  ASSUME IndInv, [Delivery!Next]_Delivery!vars
  PROVE  /\ ChainOK' /\ Delivery!Points' = Delivery!Points /\ policy' = policy /\ chain' = chain
         /\ \A i : Handles(i)' <=> Handles(i)
         /\ Delivery!Points \subseteq 0..Len(chain) /\ 0 \in Delivery!Points /\ Len(chain) \in Nat
<1>1. UNCHANGED <<policy, chain>>
  BY BuiltOnce
<1> QED BY <1>1, PointsTyped
           DEF IndInv, ChainOK, WellBuilt, Delivery!Points, Handles, Delivery!DispositionOf

\* What a settle call of the framework or the configuration does to the race:
\* the clock stops exactly when it settles, and only a bounded point stops it.
LEMMA CallKeepsSettler ==
  ASSUME IndInv, NEW how \in {"acked", "nacked"}, NEW who \in {"config", "framework"},
         NEW r \in Delivery!Results, Delivery!Attempt(how, who, r),
         timer' = Delivery!Settled(r) \/ timer' = timer, UNCHANGED logs
  PROVE  SettlerInv' /\ outcome' \in {"open", "acked", "nacked", "lapsed"}
<1>1. \/ outcome = "open" /\ r = "settled" /\ outcome' = how /\ by' = who
      \/ r # "settled" /\ UNCHANGED <<outcome, by>>
  BY AttemptSettlesOpen
<1> QED BY <1>1 DEF IndInv, Delivery!TypeOK, SettlerInv, Delivery!Settled

LEMMA StepDeliver ==
  ASSUME IndInv, NEW i \in Delivery!Points, i < Len(chain), Delivery!Deliver(i),
    [Delivery!Next]_Delivery!vars
  PROVE  IndInv'
<1> DEFINE n == Delivery!NextStop(i)
<1>1. /\ ChainOK' /\ Delivery!Points' = Delivery!Points /\ policy' = policy /\ chain' = chain
      /\ \A k : Handles(k)' <=> Handles(k)
      /\ Delivery!Points \subseteq 0..Len(chain) /\ 0 \in Delivery!Points /\ Len(chain) \in Nat
  BY StepChain
<1>2. ChainOK /\ i \in Nat
  BY <1>1 DEF IndInv
<1>3. n \in (i + 1)..Len(chain)
  BY <1>2, StopsAt
<1>4. Delivery!TakesOver(chain[n]) => n \in Delivery!Points /\ ~Handles(i)
  <2> SUFFICES ASSUME Delivery!TakesOver(chain[n]) PROVE n \in Delivery!Points /\ ~Handles(i)
    OBVIOUS
  <2>1. Delivery!DispositionOf(i + 1) = "deferred"
    BY <1>2, TakenOverIsDeferred
  <2> QED BY <1>1, <1>2, <1>3, <2>1 DEF Delivery!Points, Handles
<1>5. point[i] = "waiting" /\ work = "todo"
  BY DEF Delivery!Deliver, IndInv, Delivery!TypeOK, WorkInv, Holds
<1>6. /\ timer' \in {timer, "armed"} /\ (timer' # timer => timer = "unarmed")
      /\ UNCHANGED <<policy, chain, work, outcome, by, logs, told>>
  BY DEF Delivery!Deliver
<1>7. \/ /\ Delivery!TakesOver(chain[n]) /\ point' = [point EXCEPT ![i] = "nil", ![n] = "waiting"]
      \/ point' = [point EXCEPT ![i] = "acting"]
  BY DEF Delivery!Deliver
<1> HIDE DEF n
<1>8. Delivery!TypeOK'
  BY <1>1, <1>4, <1>6, <1>7 DEF IndInv, Delivery!TypeOK
<1>9. SettlerInv'
  BY <1>6 DEF IndInv, SettlerInv
<1>10. ArmedInv'
  <2> SUFFICES ASSUME policy.timeout > 0, timer' = "unarmed" PROVE point'[0] = "waiting"
    BY <1>1 DEF ArmedInv
  <2>1. timer = "unarmed" /\ point[0] = "waiting"
    BY <1>6 DEF IndInv, Delivery!TypeOK, ArmedInv
  <2>2. CASE i = 0
    <3>1. chain[2] = "settle" /\ chain[1] = "baggage" /\ Len(chain) >= 3
      BY <1>2 DEF ChainOK
    <3>2. n # 1
      <4>1. ~Delivery!TakesOver(chain[1])
        BY <3>1 DEF Delivery!TakesOver
      <4> QED BY <1>2, <2>2, <3>1, <4>1, StopsAt DEF n
    <3>3. 2 \in (i + 1)..n
      BY <1>1, <1>3, <2>2, <3>2
    <3>4. timer' = "armed"
      BY <2>1, <3>1, <3>3 DEF Delivery!Deliver, n
    <3> QED BY <3>4
  <2>3. CASE i # 0
    BY <1>1, <1>2, <1>3, <1>5, <1>7, <2>1, <2>3 DEF IndInv, Delivery!TypeOK, WorkInv, Holds
  <2> QED BY <2>2, <2>3
<1>11. \A k \in Delivery!Points : k # i => ~Holds(k)
  BY <1>5 DEF IndInv, WorkInv, Holds
<1>12. \A k \in Delivery!Points :
         Holds(k)' => k = IF Delivery!TakesOver(chain[n]) /\ point'[n] = "waiting" /\ point'[i] = "nil" THEN n ELSE i
  <2>1. CASE Delivery!TakesOver(chain[n]) /\ point' = [point EXCEPT ![i] = "nil", ![n] = "waiting"]
    BY <1>1, <1>2, <1>3, <1>4, <1>11, <2>1 DEF IndInv, Delivery!TypeOK, Holds
  <2>2. CASE point' = [point EXCEPT ![i] = "acting"]
    BY <1>1, <1>11, <2>2 DEF IndInv, Delivery!TypeOK, Holds
  <2> QED BY <1>7, <2>1, <2>2
<1>13. \A k \in Delivery!Points : /\ point'[k] = "nil" /\ Handles(k) => point[k] = "nil"
                                  /\ point'[k] = "err" => point[k] = "err"
  BY <1>1, <1>2, <1>3, <1>4, <1>7 DEF IndInv, Delivery!TypeOK
<1>14. WorkInv'
  BY <1>1, <1>5, <1>6, <1>12, <1>13 DEF IndInv, WorkInv, Delivery!NoEarlyAck
<1> QED BY <1>1, <1>8, <1>9, <1>10, <1>14 DEF IndInv

LEMMA StepProduce ==
  ASSUME IndInv, NEW i \in Delivery!Points, Delivery!Produce(i), [Delivery!Next]_Delivery!vars
  PROVE  IndInv'
<1>1. /\ ChainOK' /\ Delivery!Points' = Delivery!Points /\ policy' = policy /\ chain' = chain
      /\ \A k : Handles(k)' <=> Handles(k)
      /\ Delivery!Points \subseteq 0..Len(chain) /\ 0 \in Delivery!Points /\ Len(chain) \in Nat
  BY StepChain
<1>2. i # 0
  BY <1>1 DEF Delivery!Produce, IndInv, ChainOK
<1>3. Delivery!TypeOK' /\ SettlerInv'
  BY <1>1 DEF Delivery!Produce, IndInv, Delivery!TypeOK, SettlerInv
<1>4. ArmedInv'
  BY <1>1, <1>2 DEF Delivery!Produce, IndInv, Delivery!TypeOK, ArmedInv
<1>5. WorkInv'
  BY <1>1 DEF Delivery!Produce, IndInv, Delivery!TypeOK, WorkInv, Holds, Delivery!NoEarlyAck
<1> QED BY <1>1, <1>3, <1>4, <1>5 DEF IndInv

LEMMA StepReturn ==
  ASSUME IndInv, NEW i \in Delivery!Points, NEW ok \in BOOLEAN, Delivery!Return(i, ok),
    [Delivery!Next]_Delivery!vars
  PROVE  IndInv'
<1>1. /\ ChainOK' /\ Delivery!Points' = Delivery!Points /\ policy' = policy /\ chain' = chain
      /\ \A k : Handles(k)' <=> Handles(k)
      /\ Delivery!Points \subseteq 0..Len(chain) /\ 0 \in Delivery!Points /\ Len(chain) \in Nat
  BY StepChain
<1>2. /\ point[i] = "acting" /\ UNCHANGED <<outcome, by, timer, logs, told>>
      /\ \/ work' = "ok" /\ point' = [point EXCEPT ![i] = "nil"]
         \/ work' = "failed" /\ point' = [point EXCEPT ![i] = "err"]
  BY DEF Delivery!Return
<1>3. Delivery!TypeOK' /\ SettlerInv'
  BY <1>1, <1>2 DEF IndInv, Delivery!TypeOK, SettlerInv
<1>4. ArmedInv'
  BY <1>1, <1>2 DEF IndInv, Delivery!TypeOK, ArmedInv
<1>5. work = "todo"
  BY <1>2 DEF IndInv, Delivery!TypeOK, WorkInv, Holds
<1>6. WorkInv'
  BY <1>1, <1>2, <1>5 DEF IndInv, Delivery!TypeOK, WorkInv, Holds, Delivery!NoEarlyAck
<1> QED BY <1>1, <1>3, <1>4, <1>6 DEF IndInv

LEMMA StepSettleOnReturn ==
  ASSUME IndInv, NEW i \in Delivery!Points, Delivery!SettleOnReturn(i),
    [Delivery!Next]_Delivery!vars
  PROVE  IndInv'
<1> DEFINE how == IF point[i] = "nil" THEN "acked" ELSE "nacked"
<1>1. /\ ChainOK' /\ Delivery!Points' = Delivery!Points /\ policy' = policy /\ chain' = chain
      /\ \A k : Handles(k)' <=> Handles(k)
      /\ Delivery!Points \subseteq 0..Len(chain) /\ 0 \in Delivery!Points /\ Len(chain) \in Nat
  BY StepChain
<1>2. /\ point[i] \in {"nil", "err"} /\ point' = [point EXCEPT ![i] = "done"]
      /\ UNCHANGED <<work, logs, told>>
  BY DEF Delivery!SettleOnReturn
<1>3. \/ UNCHANGED <<outcome, by, timer>>
      \/ /\ point[i] = "err" \/ Handles(i)
         /\ \E r \in Delivery!Results : /\ Delivery!Attempt(how, "framework", r)
                                        /\ timer' = Delivery!Settled(r) \/ timer' = timer
  BY DEF Delivery!SettleOnReturn, Handles
<1>4. SettlerInv' /\ timer' \in {timer, "stopped"} /\ (timer' # timer => timer = "armed")
      /\ outcome' \in {"open", "acked", "nacked", "lapsed"}
  <2>1. CASE UNCHANGED <<outcome, by, timer>>
    BY <1>2, <2>1 DEF IndInv, Delivery!TypeOK, SettlerInv
  <2>2. ASSUME NEW r \in Delivery!Results, Delivery!Attempt(how, "framework", r),
               timer' = Delivery!Settled(r) \/ timer' = timer
        PROVE  SettlerInv' /\ timer' \in {timer, "stopped"} /\ (timer' # timer => timer = "armed")
               /\ outcome' \in {"open", "acked", "nacked", "lapsed"}
    BY <1>2, <2>2, CallKeepsSettler DEF Delivery!Settled
  <2> QED BY <1>3, <2>1, <2>2
<1>5. Delivery!TypeOK'
  BY <1>1, <1>2, <1>4 DEF IndInv, Delivery!TypeOK
<1>6. ArmedInv'
  BY <1>1, <1>2, <1>4 DEF IndInv, Delivery!TypeOK, ArmedInv
<1>7. Delivery!NoEarlyAck'
  <2>1. CASE UNCHANGED <<outcome, by>>
    BY <1>2, <2>1 DEF IndInv, WorkInv, Delivery!NoEarlyAck
  <2>2. ASSUME point[i] = "err" \/ Handles(i), outcome' = how PROVE Delivery!NoEarlyAck'
    BY <1>2, <2>2 DEF IndInv, WorkInv, Delivery!NoEarlyAck
  <2> QED BY <1>3, <2>1, <2>2, AttemptSettlesOpen
<1>8. WorkInv'
  BY <1>1, <1>2, <1>7 DEF IndInv, Delivery!TypeOK, WorkInv, Holds
<1> QED BY <1>1, <1>4, <1>5, <1>6, <1>8 DEF IndInv

LEMMA StepInbound ==
  ASSUME IndInv, NEW i \in Delivery!Points, NEW how \in {"acked", "nacked"},
         Delivery!InboundSettle(i, how), [Delivery!Next]_Delivery!vars
  PROVE  IndInv'
<1>1. /\ ChainOK' /\ Delivery!Points' = Delivery!Points /\ policy' = policy /\ chain' = chain
      /\ \A k : Handles(k)' <=> Handles(k)
      /\ Delivery!Points \subseteq 0..Len(chain) /\ 0 \in Delivery!Points /\ Len(chain) \in Nat
  BY StepChain
<1>2. PICK r \in Delivery!Results : /\ Delivery!Attempt(how, "config", r) /\ told' = Delivery!SettleResult(r)
                                    /\ timer' = Delivery!Settled(r) \/ timer' = timer
  BY DEF Delivery!InboundSettle
<1>3. UNCHANGED <<point, work, logs>>
  BY DEF Delivery!InboundSettle
<1>4. SettlerInv' /\ outcome' \in {"open", "acked", "nacked", "lapsed"}
  BY <1>2, <1>3, CallKeepsSettler
<1>5. timer' \in {timer, "stopped"} /\ (timer' # timer => timer = "armed")
  BY <1>2 DEF Delivery!Settled
<1>6. told' \in {"true", "false", "fails"}
  BY <1>2 DEF Delivery!SettleResult, Delivery!Results
<1>7. Delivery!TypeOK' /\ ArmedInv'
  BY <1>1, <1>3, <1>4, <1>5, <1>6 DEF IndInv, Delivery!TypeOK, ArmedInv
<1>8. WorkInv'
  BY <1>1, <1>2, <1>3, AttemptSettlesOpen DEF IndInv, WorkInv, Holds, Delivery!NoEarlyAck
<1> QED BY <1>1, <1>4, <1>7, <1>8 DEF IndInv

LEMMA StepTimer ==
  ASSUME IndInv, Delivery!Fire \/ Delivery!Expire \/ Delivery!Lapse \/ UNCHANGED Delivery!vars, [Delivery!Next]_Delivery!vars
  PROVE  IndInv'
<1>1. /\ ChainOK' /\ Delivery!Points' = Delivery!Points /\ policy' = policy /\ chain' = chain
      /\ \A k : Handles(k)' <=> Handles(k)
  BY StepChain
<1>2. UNCHANGED <<point, work, told>>
  BY DEF Delivery!Fire, Delivery!Expire, Delivery!Lapse, Delivery!vars
<1>3. CASE Delivery!Fire
  <2>1. Delivery!TypeOK' /\ SettlerInv' /\ ArmedInv'
    BY <1>1, <1>3 DEF Delivery!Fire, IndInv, Delivery!TypeOK, SettlerInv, ArmedInv
  <2> QED BY <1>1, <1>2, <1>3, <2>1 DEF Delivery!Fire, IndInv, WorkInv, Holds, Delivery!NoEarlyAck
<1>4. CASE Delivery!Expire
  <2>1. PICK r \in Delivery!Results : Delivery!Attempt("nacked", "deadline", r) /\ logs' = logs \cup Delivery!ExpireLog(r)
    BY <1>4 DEF Delivery!Expire
  <2>2. timer = "fired" /\ timer' = "done"
    BY <1>4 DEF Delivery!Expire
  <2>3. \/ /\ outcome = "open" /\ r = "settled" /\ outcome' = "nacked" /\ by' = "deadline"
           /\ logs' = logs \cup {"warn"}
        \/ /\ outcome = "open" /\ r = "error" /\ UNCHANGED <<outcome, by>>
           /\ logs' = logs \cup {"error"}
        \/ /\ outcome # "open" /\ UNCHANGED <<outcome, by>>
           /\ logs' \in {logs, logs \cup {"error"}}
    BY <2>1, Zenon DEF Delivery!Attempt, Delivery!ExpireLog, Delivery!Results
  <2>4. Delivery!TypeOK' /\ SettlerInv' /\ ArmedInv'
    BY <1>1, <1>2, <2>2, <2>3 DEF IndInv, Delivery!TypeOK, SettlerInv, ArmedInv
  <2>5. WorkInv'
    BY <1>1, <1>2, <2>3 DEF IndInv, WorkInv, Holds, Delivery!NoEarlyAck
  <2> QED BY <1>1, <2>4, <2>5 DEF IndInv
<1>5. CASE Delivery!Lapse
  <2>1. Delivery!TypeOK' /\ SettlerInv' /\ ArmedInv'
    BY <1>1, <1>5 DEF Delivery!Lapse, IndInv, Delivery!TypeOK, SettlerInv, ArmedInv
  <2> QED BY <1>1, <1>2, <1>5, <2>1 DEF Delivery!Lapse, IndInv, WorkInv, Holds, Delivery!NoEarlyAck
<1>6. CASE UNCHANGED Delivery!vars
  <2>1. Delivery!TypeOK' /\ SettlerInv' /\ ArmedInv'
    BY <1>1, <1>6 DEF Delivery!vars, IndInv, Delivery!TypeOK, SettlerInv, ArmedInv
  <2> QED BY <1>1, <1>2, <1>6, <2>1 DEF Delivery!vars, IndInv, WorkInv, Holds, Delivery!NoEarlyAck
<1> QED BY <1>3, <1>4, <1>5, <1>6

LEMMA StepInd ==
  ASSUME IndInv, [Delivery!Next]_Delivery!vars
  PROVE  IndInv'
<1>1. ASSUME NEW i \in Delivery!Points, Delivery!Hop(i) PROVE IndInv'
  BY <1>1, StepDeliver, StepProduce, StepReturn, StepSettleOnReturn DEF Delivery!Hop
<1>2. ASSUME NEW i \in Delivery!Points, Delivery!InboundAck(i) \/ Delivery!InboundNack(i) PROVE IndInv'
  BY <1>2, StepInbound DEF Delivery!InboundAck, Delivery!InboundNack
<1> QED BY <1>1, <1>2, StepTimer DEF Delivery!Next

\* The inductive invariant holds for every receiver that can be built.
THEOREM Invariance == TargetsOK /\ Delivery!Spec => []IndInv
<1>1. TargetsOK /\ Delivery!Init => IndInv
  BY InitInd
<1>2. IndInv /\ [Delivery!Next]_Delivery!vars => IndInv'
  BY StepInd
<1> QED BY <1>1, <1>2, PTL DEF Delivery!Spec

\* Type correctness: a delivery has a state at exactly its settle points, under
\* a policy ResolveAck accepted.
THEOREM TypeCorrect == TargetsOK /\ Delivery!Spec => []Delivery!TypeOK
<1>1. IndInv => Delivery!TypeOK
  BY DEF IndInv
<1> QED BY <1>1, Invariance, PTL

\* What a call of the framework or the configuration does to the promise: it
\* settles and may end the clock, or it leaves settlement and clock alone.
PromisedState == <<work, outcome, by, Delivery!Clock, logs>>

LEMMA CallKeepsPromise ==
  ASSUME IndInv, NEW how \in {"acked", "nacked"}, NEW who \in {"config", "framework"},
         NEW r \in Delivery!Results, Delivery!Attempt(how, who, r),
         timer' = Delivery!Settled(r) \/ timer' = timer, UNCHANGED <<work, logs>>
  PROVE  Delivery!Promise!Settle(how, who) \/ UNCHANGED PromisedState
<1>1. \/ outcome = "open" /\ r = "settled" /\ outcome' = how /\ by' = who
      \/ r # "settled" /\ UNCHANGED <<outcome, by>>
  BY AttemptSettlesOpen
<1>2. CASE r = "settled"
  <2>1. timer' = timer \/ (timer = "armed" /\ timer' = "stopped")
    BY <1>2 DEF Delivery!Settled
  <2>2. \/ Delivery!Clock' = Delivery!Clock
        \/ Delivery!Clock = "on" /\ Delivery!Clock' = "over"
    BY <2>1 DEF Delivery!Clock
  <2> QED BY <1>1, <1>2, <2>2 DEF Delivery!Promise!Settle
<1>3. CASE r # "settled"
  BY <1>1, <1>3 DEF Delivery!Settled, Delivery!Clock, PromisedState
<1> QED BY <1>2, <1>3

\* Each action takes the promise's step, or none.
LEMMA StepAsPromised ==
  ASSUME IndInv, [Delivery!Next]_Delivery!vars
  PROVE  [Delivery!Promise!Next]_PromisedState
<1> USE DEF Delivery!Promise!Next, PromisedState
<1>1. ASSUME NEW i \in Delivery!Points, i < Len(chain), Delivery!Deliver(i)
      PROVE  Delivery!Promise!Arm \/ UNCHANGED PromisedState
  BY <1>1 DEF Delivery!Deliver, Delivery!Promise!Arm, Delivery!Clock
<1>2. ASSUME NEW i \in Delivery!Points, Delivery!Produce(i) PROVE UNCHANGED PromisedState
  BY <1>2 DEF Delivery!Produce, Delivery!Clock
<1>3. ASSUME NEW i \in Delivery!Points, NEW ok \in BOOLEAN, Delivery!Return(i, ok)
      PROVE  Delivery!Promise!Work
  <2>1. point[i] = "acting" /\ work' \in {"ok", "failed"} /\ UNCHANGED <<outcome, by, timer, logs>>
    BY <1>3 DEF Delivery!Return
  <2>2. work = "todo"
    BY <2>1 DEF IndInv, Delivery!TypeOK, WorkInv, Holds
  <2> QED BY <2>1, <2>2 DEF Delivery!Promise!Work, Delivery!Clock
<1>4. ASSUME NEW i \in Delivery!Points, Delivery!SettleOnReturn(i)
      PROVE  Delivery!Promise!Framework \/ UNCHANGED PromisedState
  <2> DEFINE how == IF point[i] = "nil" THEN "acked" ELSE "nacked"
  <2>1. point[i] \in {"nil", "err"} /\ UNCHANGED <<work, logs>>
    BY <1>4 DEF Delivery!SettleOnReturn
  <2>2. \/ UNCHANGED <<outcome, by, timer>>
        \/ /\ point[i] = "err" \/ Handles(i)
           /\ \E r \in Delivery!Results : /\ Delivery!Attempt(how, "framework", r)
                                          /\ timer' = Delivery!Settled(r) \/ timer' = timer
    BY <1>4 DEF Delivery!SettleOnReturn, Handles
  <2>3. CASE UNCHANGED <<outcome, by, timer>>
    BY <2>1, <2>3 DEF Delivery!Clock
  <2>4. ASSUME point[i] = "err" \/ Handles(i), NEW r \in Delivery!Results,
               Delivery!Attempt(how, "framework", r), timer' = Delivery!Settled(r) \/ timer' = timer
        PROVE  Delivery!Promise!Framework \/ UNCHANGED PromisedState
    <3>1. \/ how = "acked" /\ work = "ok"
          \/ how = "nacked" /\ work = "failed"
      BY <2>1, <2>4 DEF IndInv, WorkInv
    <3>2. Delivery!Promise!Settle(how, "framework") \/ UNCHANGED PromisedState
      BY <2>1, <2>4, CallKeepsPromise
    <3> QED BY <3>1, <3>2 DEF Delivery!Promise!Framework
  <2> QED BY <2>2, <2>3, <2>4
<1>5. ASSUME NEW i \in Delivery!Points, NEW how \in {"acked", "nacked"}, Delivery!InboundSettle(i, how)
      PROVE  Delivery!Promise!Config \/ UNCHANGED PromisedState
  <2>1. PICK r \in Delivery!Results : /\ Delivery!Attempt(how, "config", r)
                                      /\ timer' = Delivery!Settled(r) \/ timer' = timer
    BY <1>5 DEF Delivery!InboundSettle
  <2>2. point[i] = "acting" /\ UNCHANGED <<work, logs>>
    BY <1>5 DEF Delivery!InboundSettle
  <2>3. work = "todo"
    BY <2>2 DEF IndInv, Delivery!TypeOK, WorkInv, Holds
  <2>4. Delivery!Promise!Settle(how, "config") \/ UNCHANGED PromisedState
    BY <2>1, <2>2, CallKeepsPromise
  <2> QED BY <2>3, <2>4 DEF Delivery!Promise!Config
<1>6. CASE Delivery!Fire
  BY <1>6 DEF Delivery!Fire, Delivery!Clock
<1>7. CASE Delivery!Expire
  <2>1. PICK r \in Delivery!Results : /\ Delivery!Attempt("nacked", "deadline", r)
                                      /\ logs' = logs \cup Delivery!ExpireLog(r)
    BY <1>7 DEF Delivery!Expire
  <2>2. Delivery!Clock = "on" /\ Delivery!Clock' = "over" /\ UNCHANGED work
    BY <1>7 DEF Delivery!Expire, Delivery!Clock
  <2>3. \/ /\ outcome = "open" /\ outcome' = "nacked" /\ by' = "deadline"
           /\ logs' = logs \cup {"warn"}
        \/ /\ outcome \in {"open", "lapsed"} /\ UNCHANGED <<outcome, by>>
           /\ logs' = logs \cup {"error"}
        \/ /\ outcome \notin {"open", "lapsed"} /\ UNCHANGED <<outcome, by>>
           /\ logs' = logs \cup {}
    BY <2>1, Zenon DEF Delivery!Attempt, Delivery!ExpireLog, Delivery!Results
  <2>4. outcome \in {"open", "acked", "nacked", "lapsed"}
    BY DEF IndInv, Delivery!TypeOK
  <2> QED BY <2>2, <2>3, <2>4 DEF Delivery!Promise!Expire
<1>8. CASE Delivery!Lapse
  BY <1>8 DEF Delivery!Lapse, Delivery!Promise!Lapse, Delivery!Clock
<1>9. CASE UNCHANGED Delivery!vars
  BY <1>9 DEF Delivery!vars, Delivery!Clock
<1> QED
  BY <1>1, <1>2, <1>3, <1>4, <1>5, <1>6, <1>7, <1>8, <1>9
     DEF Delivery!Next, Delivery!Hop, Delivery!InboundAck, Delivery!InboundNack

LEMMA StartsAsPromised == Delivery!Init => Delivery!Promise!Init
BY DEF Delivery!Init, Delivery!Promise!Init, Delivery!Clock

\* Refinement: a delivery implements SettlePromise.  Through every chain of
\* queues, buses, wrappers and producers the framework acks only work that is
\* done and nacks only work that failed; a clock that ran ends with a settlement
\* or with an expiry that settled, reported or had nothing left to do
\* (DispositionOf, deadlineSettler.settled, expire).
THEOREM DeliversAsPromised == TargetsOK => (Delivery!Spec => Delivery!SettlesAsPromised)
<1> SUFFICES ASSUME TargetsOK PROVE Delivery!Spec => Delivery!SettlesAsPromised
  OBVIOUS
<1>1. Delivery!Spec => []IndInv
  BY Invariance
<1>2. IndInv /\ [Delivery!Next]_Delivery!vars => [Delivery!Promise!Next]_PromisedState
  BY StepAsPromised
<1>3. IndInv /\ [Delivery!Next]_Delivery!vars => [Delivery!Promise!Next]_Delivery!Promise!vars
  BY <1>2 DEF PromisedState, Delivery!Promise!vars
<1> QED BY <1>1, <1>3, StartsAsPromised, PTL
        DEF Delivery!Spec, Delivery!SettlesAsPromised, Delivery!Promise!Spec

\* Under ack = "auto" nothing is acknowledged before its work is done, through
\* every chain of wrappers, queues, buses and producers (DispositionOf, Unwrap).
THEOREM NeverAckedEarly == TargetsOK /\ Delivery!Spec => []Delivery!NoEarlyAck
<1>1. IndInv => Delivery!NoEarlyAck
  BY DEF IndInv, WorkInv
<1> QED BY <1>1, Invariance, PTL

\* The deadline's log claims a nack exactly when that nack settled the delivery,
\* however the expiry races the framework and the configuration (expire).
THEOREM LogIsTrue == TargetsOK /\ Delivery!Spec => []Delivery!LogTellsTruth
<1>1. IndInv => Delivery!LogTellsTruth
  BY DEF IndInv, SettlerInv, Delivery!LogTellsTruth
<1> QED BY <1>1, Invariance, PTL

\* A bounded delivery nobody settled keeps its deadline until the deadline has
\* failed and said so: no failed settle call stops the clock, and the clock
\* runs before anything behind the wrapper sees the message.
THEOREM DeadlineAlwaysHeld == TargetsOK /\ Delivery!Spec => []Delivery!DeadlineHeld
<1>1. IndInv => Delivery!DeadlineHeld
  BY DEF IndInv, Delivery!TypeOK, SettlerInv, ArmedInv, Delivery!DeadlineHeld
<1> QED BY <1>1, Invariance, PTL

-----------------------------------------------------------------------------
(* The process.                                                            *)

\* The receivers have names of their own (a block's name is unique within its
\* kind, and the model writes the other components by their kinds).
ConfigOK ==
  /\ Receivers \in Seq(Rcv) /\ SubQueue \in BOOLEAN
  /\ Rcv \cap {"bus", "sub", "plain", "ticker", "trigger", "tick", "farewell", "subq"} = {}

-----------------------------------------------------------------------------
(* The inductive invariant.                                                *)

Transports == Rcv \cup {"plain"}
\* What has a Stop: the transports, and the trigger with a goroutine.
Halted == Transports \cup {"ticker"}
Places == {"source", "bus", "bus running", "rq", "rq running", "subq", "subq running",
           "acting", "done", "refused"}
Holders ==
  {h \in [name : Rcv \cup {"bus", "subq"}, pend : {{"bus"}, {"subq"}, {"rq"}, {"unsettled"}},
          closes : BOOLEAN] : h.pend = {"unsettled"} => h.name \in Rcv}
Lists == [Startables : Seq(Transports), Drainables : Seq(Rcv), InFlight : Seq(Holders),
          PreStoppables : Seq({"trigger"}), Stoppables : Seq(Halted)]
Phases == {"build", "discard drain", "discarded", "start", "run", "drain", "prestop",
           "quiesce", "close", "stop", "exited"}

TypeInv ==
  /\ phase \in Phases /\ at \in Nat /\ built \in 0..Len(Blocks) /\ config \in Lists
  /\ up \subseteq Halted \cup {"bus", "subq", "rq"} /\ accepting \subseteq Transports
  /\ where \in [Messages -> Places]
  /\ settled \in [Rcv -> {"no", "acked", "nacked", "refused"}]
  /\ closed \subseteq Queues /\ readings \in Nat /\ sum \in Nat
  /\ closer \in 0..Len(InFlight)
  /\ phase \in {"start", "quiesce"} => at >= 1

InList(s, e) == \E i \in 1..Len(s) : s[i] = e

\* What a processed block owes the lists of the configuration.
RegisteredOK(b) ==
  /\ b \in Halted => InList(Stoppables, b)
  /\ b \in Rcv => InList(Drainables, b) /\ InList(InFlight, Holder(b, {"unsettled"}, FALSE))
  /\ b \in Queued => InList(InFlight, Holder(b, {"rq"}, TRUE))
  /\ b = "bus" => InList(InFlight, Holder("bus", {"bus"}, FALSE))
  /\ b = "sub" /\ SubQueue => InList(InFlight, Holder("subq", {"subq"}, TRUE))

\* The build is over before anything is started, and by then every block has
\* registered what it needs of the phases to come.
BuildInv ==
  /\ phase # "build" => built = Len(Blocks)
  /\ \A k \in 1..built : RegisteredOK(Blocks[k])
  /\ phase \in {"build", "discard drain"} => up \subseteq {"bus", "subq", "rq"} /\ accepting = {}
  /\ phase = "discarded" => up \subseteq Queues

\* Where a message can be: a settled one has reached the end of its way, and
\* one that left its source came over a transport that is still up.
MessageInv ==
  /\ \A m \in Rcv : settled[m] # "no" => where[m] \in {"done", "refused"}
  /\ \A m \in Messages : where[m] \in {"rq", "rq running"} => m \in Queued
  /\ \A m \in Messages : where[m] \in {"subq", "subq running"} => SubQueue
  /\ phase \notin {"discarded", "stop", "exited"} =>
       \A m \in Rcv : where[m] # "source" => m \in up

\* While nothing was warned of, drain ends with every receiver closed.
DrainInv ==
  ~warned =>
    /\ phase = "drain" => \A k \in (at + 1)..Len(Drainables) : Drainables[k] \notin accepting
    /\ phase \in {"prestop", "quiesce", "close", "stop", "exited"} => accepting \cap Rcv = {}

\* A receiver's message that no longer needs its transport, and never will.
AtRest(m) == where[m] = "source" \/ settled[m] # "no"

\* pendingWork's sum is honest about every holder it has read, however much
\* moved meanwhile: what it counted as at rest has stayed so.
QuiesceInv ==
  ~warned =>
    /\ phase = "quiesce" /\ sum = 0 =>
         \A k \in 1..Len(InFlight) :
           k < at /\ InFlight[k].pend = {"unsettled"} => AtRest(InFlight[k].name)
    /\ phase \in {"close", "stop", "exited"} => \A m \in Rcv : AtRest(m)

\* The queues the closer has passed are closed and stay empty.
Emptied(q) == q \in closed /\ \A m \in Messages : where[m] \notin {q, Running(q)}
CloseInv ==
  /\ phase \notin {"close", "stop", "exited"} => closed = {} /\ closer = 0
  /\ phase \in {"close", "stop", "exited"} =>
       \A k \in 1..Len(InFlight) :
         k > closer /\ InFlight[k].closes => Emptied(QueueOf(InFlight[k]))
  /\ phase \in {"stop", "exited"} /\ ~warned => closer = 0

\* What the stop loop has passed is down: a transport takes nothing more in, and
\* the ticker's goroutine is out of its action.
Down(c) == c \notin up /\ (c = "ticker" => where["tick"] # "acting")
StopInv ==
  /\ phase = "stop" => \A k \in 1..Len(Stoppables) : k > at => Down(Stoppables[k])
  /\ phase = "exited" => \A k \in 1..Len(Stoppables) : Down(Stoppables[k])

ProcessIndInv == /\ TypeInv /\ BuildInv /\ MessageInv /\ DrainInv /\ QuiesceInv /\ CloseInv /\ StopInv
          /\ RefusedOnlyWarned

-----------------------------------------------------------------------------
(* Lists and blocks.                                                       *)

LEMMA InAppended ==
  ASSUME NEW S, NEW s \in Seq(S), NEW e \in S
  PROVE  /\ InList(Append(s, e), e)
         /\ \A x : InList(s, x) => InList(Append(s, e), x)
<1> DEFINE t == Append(s, e)
<1>1. /\ Len(s) \in Nat /\ Len(t) = Len(s) + 1 /\ t[Len(s) + 1] = e
      /\ \A i \in 1..Len(s) : t[i] = s[i]
  OBVIOUS
<1> HIDE DEF t
<1>2. InList(t, e) /\ \A x : InList(s, x) => InList(t, x)
  BY <1>1 DEF InList
<1> QED BY <1>2 DEF t

LEMMA ConcatAt ==
  ASSUME NEW S, NEW s \in Seq(S), NEW t \in Seq(S)
  PROVE  /\ s \o t \in Seq(S) /\ Len(s) \in Nat /\ Len(t) \in Nat
         /\ Len(s \o t) = Len(s) + Len(t)
         /\ \A i \in 1..Len(s) : (s \o t)[i] = s[i]
         /\ \A i \in 1..Len(t) : (s \o t)[Len(s) + i] = t[i]
OBVIOUS

LEMMA InConcat ==
  ASSUME NEW S, NEW s \in Seq(S), NEW t \in Seq(S)
  PROVE  \A x : InList(s, x) \/ InList(t, x) => InList(s \o t, x)
<1> DEFINE c == s \o t
<1>1. /\ Len(s) \in Nat /\ Len(t) \in Nat /\ Len(c) = Len(s) + Len(t)
      /\ \A i \in 1..Len(s) : c[i] = s[i]
      /\ \A i \in 1..Len(t) : c[Len(s) + i] = t[i]
  BY ConcatAt
<1> HIDE DEF c
<1>2. \A x : InList(s, x) => InList(c, x)
  <2> SUFFICES ASSUME NEW x, NEW i \in 1..Len(s), s[i] = x PROVE \E k \in 1..Len(c) : c[k] = x
    BY DEF InList
  <2>1. i \in 1..Len(c) /\ c[i] = x
    BY <1>1
  <2> QED BY <2>1
<1>3. \A x : InList(t, x) => InList(c, x)
  <2> SUFFICES ASSUME NEW x, NEW i \in 1..Len(t), t[i] = x PROVE \E k \in 1..Len(c) : c[k] = x
    BY DEF InList
  <2>1. Len(s) + i \in 1..Len(c) /\ c[Len(s) + i] = x
    BY <1>1
  <2> QED BY <2>1
<1> QED BY <1>2, <1>3, Zenon DEF c

LEMMA EmptyList == \A S : <<>> \in Seq(S)
OBVIOUS

LEMMA PairAt ==
  ASSUME NEW S, NEW a \in S, NEW b \in S
  PROVE  <<a, b>> \in Seq(S) /\ Len(<<a, b>>) = 2 /\ <<a, b>>[1] = a /\ <<a, b>>[2] = b
OBVIOUS

LEMMA TripleAt ==
  ASSUME NEW S, NEW a \in S, NEW b \in S, NEW c \in S
  PROVE  /\ <<a, b, c>> \in Seq(S) /\ Len(<<a, b, c>>) = 3
         /\ <<a, b, c>>[1] = a /\ <<a, b, c>>[2] = b
OBVIOUS

\* What a holder counts tells the receivers' unsettled deliveries from depths.
LEMMA Counts == {"unsettled"} \notin {{"bus"}, {"subq"}, {"rq"}}
<1>1. "unsettled" \in {"unsettled"} /\ \A q \in {"bus", "subq", "rq"} : "unsettled" \notin {q}
  OBVIOUS
<1> QED BY <1>1, Zenon

LEMMA OneHolder ==
  ASSUME NEW h \in Holders
  PROVE  <<h>> \in Seq(Holders) /\ InList(<<h>>, h)
<1>1. <<h>> \in Seq(Holders) /\ Len(<<h>>) = 1 /\ <<h>>[1] = h
  OBVIOUS
<1> QED BY <1>1 DEF InList

\* A block owes the phases what it registers, and nothing else is added.
LEMMA RegistersTyped ==
  ASSUME ConfigOK, NEW b
  PROVE  /\ Registers(b) \in Seq(Holders)
         /\ b \in Rcv => InList(Registers(b), Holder(b, {"unsettled"}, FALSE))
         /\ b \in Queued => InList(Registers(b), Holder(b, {"rq"}, TRUE))
         /\ b = "bus" => InList(Registers(b), Holder("bus", {"bus"}, FALSE))
         /\ b = "sub" /\ SubQueue => InList(Registers(b), Holder("subq", {"subq"}, TRUE))
<1>1. Queued \subseteq Rcv
  BY DEF ConfigOK, Queued, Rcv
<1>2. Rcv \cap {"bus", "sub"} = {}
  BY DEF ConfigOK
<1>3. CASE b = "bus"
  <2>1. Holder("bus", {"bus"}, FALSE) \in Holders
    BY Counts DEF Holder, Holders
  <2>2. Registers(b) = <<Holder("bus", {"bus"}, FALSE)>>
    BY <1>2, <1>3, Zenon DEF Registers
  <2> QED BY <1>1, <1>2, <1>3, <2>1, <2>2, OneHolder
<1>4. CASE b = "sub"
  <2>1. Holder("subq", {"subq"}, TRUE) \in Holders
    BY Counts DEF Holder, Holders
  <2>2. Registers(b) = IF SubQueue THEN <<Holder("subq", {"subq"}, TRUE)>> ELSE <<>>
    BY <1>2, <1>4, Zenon DEF Registers
  <2>3. CASE SubQueue
    BY <1>1, <1>2, <1>4, <2>1, <2>2, <2>3, OneHolder
  <2>4. CASE ~SubQueue
    BY <1>1, <1>2, <1>4, <2>2, <2>4, EmptyList, Zenon
  <2> QED BY <2>3, <2>4
<1>5. CASE b \in Rcv
  <2> DEFINE q == Holder(b, {"rq"}, TRUE)
             u == Holder(b, {"unsettled"}, FALSE)
             s == IF b \in Queued THEN <<q>> ELSE <<>>
  <2>1. q \in Holders /\ u \in Holders
    BY <1>5, Counts DEF Holder, Holders
  <2>2. Registers(b) = s \o <<u>>
    BY <1>2, <1>5 DEF Registers
  <2> HIDE DEF q, u
  <2>3. s \in Seq(Holders) /\ (b \in Queued => InList(s, q))
    BY <2>1, OneHolder
  <2>4. <<u>> \in Seq(Holders) /\ InList(<<u>>, u)
    BY <2>1, OneHolder
  <2> HIDE DEF s
  <2>5. s \o <<u>> \in Seq(Holders)
    BY <2>3, <2>4
  <2>6. InList(s \o <<u>>, u) /\ (b \in Queued => InList(s \o <<u>>, q))
    BY <2>3, <2>4, InConcat
  <2> QED BY <1>2, <1>5, <2>2, <2>5, <2>6 DEF q, u
<1>6. CASE b \notin Rcv \cup {"bus", "sub"}
  <2>1. Registers(b) = <<>>
    BY <1>6, Zenon DEF Registers
  <2> QED BY <1>1, <1>6, <2>1, EmptyList, Zenon
<1> QED BY <1>3, <1>4, <1>5, <1>6

LEMMA BlocksAre ==
  ASSUME ConfigOK
  PROVE  /\ Len(Receivers) \in Nat /\ Len(Blocks) = Len(Receivers) + 5
         /\ Blocks[1] = "bus" /\ Blocks[2] = "sub" /\ Blocks[Len(Receivers) + 3] = "plain"
         /\ Blocks[Len(Receivers) + 4] = "ticker"
         /\ \A i \in 1..Len(Receivers) : Blocks[i + 2] = Receivers[i]
<1> DEFINE K == Rcv \cup {"bus", "sub", "plain", "ticker", "trigger"}
           h == <<"bus", "sub">>
           t == <<"plain", "ticker", "trigger">>
<1>1. "bus" \in K /\ "sub" \in K /\ "plain" \in K /\ "ticker" \in K /\ "trigger" \in K /\ Rcv \subseteq K
  OBVIOUS
<1> HIDE DEF K
<1>2. /\ h \in Seq(K) /\ Len(h) = 2 /\ h[1] = "bus" /\ h[2] = "sub"
      /\ t \in Seq(K) /\ Len(t) = 3 /\ t[1] = "plain" /\ t[2] = "ticker"
  BY <1>1, PairAt, TripleAt
<1>3. Receivers \in Seq(K) /\ Len(Receivers) \in Nat
  BY <1>1 DEF ConfigOK
<1> HIDE DEF h, t
<1> DEFINE r == h \o Receivers
<1>4. /\ r \in Seq(K) /\ Len(r) = Len(h) + Len(Receivers)
      /\ \A i \in 1..Len(h) : r[i] = h[i]
      /\ \A i \in 1..Len(Receivers) : r[Len(h) + i] = Receivers[i]
  <2>1. h \in Seq(K) /\ Receivers \in Seq(K)
    BY <1>2, <1>3
  <2>2. r \in Seq(K)
    BY <2>1, ConcatAt
  <2>3. Len(r) = Len(h) + Len(Receivers)
    BY <2>1, ConcatAt
  <2>4. \A i \in 1..Len(h) : r[i] = h[i]
    BY <2>1, ConcatAt
  <2>5. \A i \in 1..Len(Receivers) : r[Len(h) + i] = Receivers[i]
    BY <2>1, ConcatAt
  <2> QED BY <2>2, <2>3, <2>4, <2>5
<1>5. Blocks = r \o t
  BY DEF Blocks, h, t
<1> HIDE DEF r
<1>6. /\ Len(Blocks) = Len(r) + Len(t)
      /\ \A i \in 1..Len(r) : Blocks[i] = r[i]
      /\ \A i \in 1..Len(t) : Blocks[Len(r) + i] = t[i]
  <2>1. r \in Seq(K) /\ t \in Seq(K)
    BY <1>2, <1>4
  <2>2. Len(r \o t) = Len(r) + Len(t)
    BY <2>1, ConcatAt
  <2>3. \A i \in 1..Len(r) : (r \o t)[i] = r[i]
    BY <2>1, ConcatAt
  <2>4. \A i \in 1..Len(t) : (r \o t)[Len(r) + i] = t[i]
    BY <2>1, ConcatAt
  <2> QED BY <1>5, <2>2, <2>3, <2>4
<1>7. Len(r) = Len(Receivers) + 2 /\ Len(Blocks) = Len(Receivers) + 5
  BY <1>2, <1>3, <1>4, <1>6
<1>8. Blocks[1] = "bus" /\ Blocks[2] = "sub"
  BY <1>2, <1>3, <1>4, <1>6, <1>7
<1>9. Blocks[Len(Receivers) + 3] = "plain" /\ Blocks[Len(Receivers) + 4] = "ticker"
  BY <1>2, <1>3, <1>6, <1>7
<1>10. ASSUME NEW i \in 1..Len(Receivers) PROVE Blocks[i + 2] = Receivers[i]
  <2>1. i + 2 \in 1..Len(r) /\ 2 + i = i + 2
    BY <1>3, <1>7
  <2> QED BY <1>2, <1>4, <1>6, <2>1
<1> QED BY <1>3, <1>7, <1>8, <1>9, <1>10

\* Once the build is over, the lists are complete.
LEMMA AllRegistered ==
  ASSUME ConfigOK, TypeInv, BuildInv, phase # "build"
  PROVE  /\ \A m \in Halted : InList(Stoppables, m)
         /\ \A m \in Rcv : InList(Drainables, m) /\ InList(InFlight, Holder(m, {"unsettled"}, FALSE))
         /\ \A m \in Queued : InList(InFlight, Holder(m, {"rq"}, TRUE))
         /\ SubQueue => InList(InFlight, Holder("subq", {"subq"}, TRUE))
         /\ InFlight # <<>>
<1>1. built = Len(Blocks)
  BY DEF BuildInv
<1>2. ASSUME NEW m \in Rcv PROVE RegisteredOK(m)
  <2>1. PICK i \in 1..Len(Receivers) : m = Receivers[i]
    BY DEF Rcv, ConfigOK
  <2>2. i + 2 \in 1..built /\ Blocks[i + 2] = m
    BY <1>1, <2>1, BlocksAre
  <2> QED BY <2>2 DEF BuildInv
<1>3. RegisteredOK("bus") /\ RegisteredOK("sub") /\ RegisteredOK("plain") /\ RegisteredOK("ticker")
  <2>1. /\ 1 \in 1..built /\ 2 \in 1..built
        /\ Len(Receivers) + 3 \in 1..built /\ Len(Receivers) + 4 \in 1..built
    BY <1>1, BlocksAre
  <2> QED BY <2>1, BlocksAre DEF BuildInv
<1>4. Queued \subseteq Rcv
  BY DEF ConfigOK, Queued, Rcv
<1>5. InFlight # <<>>
  <2>1. InList(InFlight, Holder("bus", {"bus"}, FALSE))
    BY <1>3 DEF RegisteredOK
  <2>2. ~InList(<<>>, Holder("bus", {"bus"}, FALSE))
    BY DEF InList
  <2> QED BY <2>1, <2>2
<1> QED BY <1>2, <1>3, <1>4, <1>5 DEF RegisteredOK, Halted, Transports

-----------------------------------------------------------------------------
(* What the steps do.                                                      *)

\* A message's step: it moves that message along the pipeline, settles it at
\* the end of its way, and touches nothing of the process.
MovesTo(m, p) ==
  /\ p \in Places /\ where' = [where EXCEPT ![m] = p]
  /\ \/ /\ where[m] = "source" /\ m \in accepting /\ m \in up /\ m \notin Sent
        /\ p = "bus" \/ (p = "rq" /\ m \in Queued /\ "rq" \notin closed)
        /\ UNCHANGED settled
     \/ /\ where[m] = "source" /\ m \in accepting /\ m \in up /\ m \in Queued
        /\ "rq" \in closed /\ p = "refused" /\ settled' = [settled EXCEPT ![m] = "nacked"]
     \/ /\ where[m] = "rq" /\ p = "rq running" /\ UNCHANGED settled
     \/ /\ where[m] = "bus" /\ p = "bus running" /\ UNCHANGED settled
     \/ /\ where[m] = "subq" /\ p = "subq running" /\ UNCHANGED settled
     \/ /\ where[m] = "rq running" /\ p = "bus" /\ UNCHANGED settled
     \/ /\ where[m] = "bus running" /\ SubQueue /\ "subq" \notin closed /\ p = "subq"
        /\ UNCHANGED settled
     \/ /\ where[m] \in {"bus running", "subq running"}
        /\ p = "done" \/ (p = "refused" /\ "subq" \in closed)
        /\ settled' = IF m \in Rcv THEN [settled EXCEPT ![m] = SettledAs(m, p)] ELSE settled

LEMMA RunningIs ==
  /\ Running("rq") = "rq running" /\ Running("bus") = "bus running"
  /\ Running("subq") = "subq running"
BY DEF Running

LEMMA MessageMoves ==
  ASSUME NEW m \in Messages, Receive(m) \/ Work(m)
  PROVE  /\ UNCHANGED <<phase, at, built, config, up, accepting, closed, readings, sum, late,
                        closer, warned>>
         /\ \E p \in Places : MovesTo(m, p)
<1> USE DEF Places
<1>1. UNCHANGED <<phase, at, built, config, up, accepting, closed, readings, sum, late, closer, warned>>
  BY DEF Receive, Work, Take, PublishFromQueue, Dispatch, Act, Keep
<1>2. CASE Receive(m)
  <2>1. CASE m \notin Queued
    <3>1. MovesTo(m, "bus")
      BY <1>2, <2>1 DEF Receive, MovesTo
    <3> QED BY <1>1, <3>1
  <2>2. CASE m \in Queued /\ "rq" \in closed
    <3>1. MovesTo(m, "refused")
      BY <1>2, <2>2 DEF Receive, MovesTo
    <3> QED BY <1>1, <3>1
  <2>3. CASE m \in Queued /\ "rq" \notin closed
    <3>1. MovesTo(m, "rq")
      BY <1>2, <2>3 DEF Receive, MovesTo
    <3> QED BY <1>1, <3>1
  <2> QED BY <2>1, <2>2, <2>3
<1>3. ASSUME NEW q \in {"rq", "bus", "subq"}, Take(m, q) PROVE \E p \in Places : MovesTo(m, p)
  <2>1. MovesTo(m, Running(q))
    BY <1>3, RunningIs DEF Take, MovesTo
  <2> QED BY <2>1, RunningIs
<1>4. CASE PublishFromQueue(m)
  <2>1. MovesTo(m, "bus")
    BY <1>4 DEF PublishFromQueue, MovesTo
  <2> QED BY <1>1, <2>1
<1>5. CASE Dispatch(m)
  <2>1. CASE SubQueue /\ "subq" \in closed
    <3>1. MovesTo(m, "refused")
      BY <1>5, <2>1 DEF Dispatch, Finish, MovesTo
    <3> QED BY <1>1, <3>1
  <2>2. CASE SubQueue /\ "subq" \notin closed
    <3>1. MovesTo(m, "subq")
      BY <1>5, <2>2 DEF Dispatch, MovesTo
    <3> QED BY <1>1, <3>1
  <2>3. CASE ~SubQueue
    <3>1. MovesTo(m, "done")
      BY <1>5, <2>3 DEF Dispatch, Finish, MovesTo
    <3> QED BY <1>1, <3>1
  <2> QED BY <2>1, <2>2, <2>3
<1>6. CASE Act(m)
  <2>1. MovesTo(m, "done")
    BY <1>6 DEF Act, Finish, MovesTo
  <2> QED BY <1>1, <2>1
<1> QED BY <1>1, <1>2, <1>3, <1>4, <1>5, <1>6 DEF Work

\* The other steps, by what they share: only those of the process itself, of
\* the clock and of the closing goroutine remain.
ProcessStep == Main \/ PreStopReturns \/ Deadline \/ CloseStep \/ TickBegins \/ TickEnds

LEMMA StepSplit ==
  ASSUME [Next]_vars
  PROVE  \/ \E m \in Messages : Receive(m) \/ Work(m)
         \/ ProcessStep
         \/ UNCHANGED vars
BY DEF Next, ProcessStep

LEMMA MessagesFinite == ConfigOK => IsFiniteSet(Messages)
<1> SUFFICES ASSUME ConfigOK PROVE IsFiniteSet(Messages)
  OBVIOUS
<1>1. IsFiniteSet(1..Len(Receivers))
  BY FS_Interval DEF ConfigOK
<1> DEFINE f == [i \in 1..Len(Receivers) |-> Receivers[i]]
<1>2. f \in Surjection(1..Len(Receivers), Rcv)
  BY DEF Surjection, Rcv, ConfigOK
<1>3. IsFiniteSet(Rcv)
  BY <1>1, <1>2, FS_Surjection
<1>4. IsFiniteSet({"plain"} \cup Sent)
  <2>1. Sent = {"tick"} \cup {"farewell"}
    BY DEF Sent
  <2>2. IsFiniteSet({"plain"}) /\ IsFiniteSet({"tick"}) /\ IsFiniteSet({"farewell"})
    BY FS_Singleton, Zenon
  <2>3. IsFiniteSet({"tick"} \cup {"farewell"})
    BY <2>2, FS_Union, Zenon
  <2> QED BY <2>1, <2>2, <2>3, FS_Union, Zenon
<1>5. Messages = Rcv \cup ({"plain"} \cup Sent)
  BY DEF Messages
<1> QED BY <1>3, <1>4, <1>5, FS_Union, Zenon

LEMMA PendingCounts ==
  ASSUME ConfigOK, TypeInv, NEW h \in Holders
  PROVE  /\ Pending(h) \in Nat
         /\ h.pend = {"unsettled"} /\ h.name \in Rcv /\ Pending(h) = 0 => AtRest(h.name)
<1>1. IsFiniteSet({m \in Messages : where[m] \in h.pend})
  BY MessagesFinite, FS_Subset
<1>2. Cardinality({m \in Messages : where[m] \in h.pend}) \in Nat
  BY <1>1, FS_CardinalityType
<1>3. h.pend = {"unsettled"} =>
        Pending(h) = IF where[h.name] \notin {"source", "broker"} /\ settled[h.name] = "no" THEN 1 ELSE 0
  BY Zenon DEF Pending
<1>4. h.pend = {"unsettled"} /\ h.name \in Rcv /\ Pending(h) = 0 => AtRest(h.name)
  <2> SUFFICES ASSUME h.pend = {"unsettled"}, h.name \in Rcv, Pending(h) = 0, where[h.name] # "source"
               PROVE  settled[h.name] # "no"
    BY DEF AtRest
  <2>1. where[h.name] \in Places
    BY DEF TypeInv, Messages
  <2>2. where[h.name] \notin {"source", "broker"}
    BY <2>1 DEF Places
  <2>3. ASSUME settled[h.name] = "no" PROVE FALSE
    <3>1. Pending(h) = 1
      BY <1>3, <2>2, <2>3, Zenon
    <3> QED BY <3>1
  <2> QED BY <2>3
<1>5. Pending(h) \in Nat
  BY <1>2, <1>3 DEF Pending
<1> QED BY <1>4, <1>5

-----------------------------------------------------------------------------
(* The build: types and what the lists hold.                               *)

LEMMA ProcessInitInd ==
  ASSUME ConfigOK, Init
  PROVE  ProcessIndInv
<1>1. Len(Blocks) \in Nat
  BY BlocksAre
<1>2. config \in Lists /\ Len(InFlight) = 0
  <2> USE DEF Init, Lists, InFlight
  <2>1. <<>> \in Seq(Transports) /\ <<>> \in Seq(Halted) /\ <<>> \in Seq(Rcv) /\ <<>> \in Seq(Holders) /\ <<>> \in Seq({"trigger"})
    BY EmptyList, Zenon
  <2> QED BY <2>1
<1>3. TypeInv
  BY <1>1, <1>2 DEF Init, TypeInv, Phases, Places, Queues
<1>4. BuildInv
  BY DEF Init, BuildInv
<1>5. MessageInv /\ RefusedOnlyWarned
  BY DEF Init, MessageInv, RefusedOnlyWarned, Messages
<1>6. DrainInv /\ QuiesceInv /\ CloseInv /\ StopInv
  BY DEF Init, DrainInv, QuiesceInv, CloseInv, StopInv
<1> QED BY <1>3, <1>4, <1>5, <1>6 DEF ProcessIndInv

LEMMA ListsGrow ==
  ASSUME ConfigOK, NEW c \in Lists, NEW b
  PROVE  /\ Registered(c, b) \in Lists
         /\ Len(Registered(c, b).InFlight) >= Len(c.InFlight)
         /\ \A x : InList(c.Stoppables, x) => InList(Registered(c, b).Stoppables, x)
         /\ \A x : InList(c.Drainables, x) => InList(Registered(c, b).Drainables, x)
         /\ \A x : InList(c.InFlight, x) \/ InList(Registers(b), x)
                     => InList(Registered(c, b).InFlight, x)
         /\ b \in Halted => InList(Registered(c, b).Stoppables, b)
         /\ b \in Rcv => InList(Registered(c, b).Drainables, b)
<1> DEFINE r == Registered(c, b)
<1>1. /\ c.Startables \in Seq(Transports) /\ c.Drainables \in Seq(Rcv) /\ c.InFlight \in Seq(Holders)
      /\ c.PreStoppables \in Seq({"trigger"}) /\ c.Stoppables \in Seq(Halted)
  BY DEF Lists
<1>2. Registers(b) \in Seq(Holders)
  BY RegistersTyped
<1>3. /\ r.Startables = IF b \in Transports THEN Append(c.Startables, b) ELSE c.Startables
      /\ r.Drainables = IF b \in Rcv THEN Append(c.Drainables, b) ELSE c.Drainables
      /\ r.InFlight = c.InFlight \o Registers(b)
      /\ r.PreStoppables = IF b = "trigger" THEN Append(c.PreStoppables, b) ELSE c.PreStoppables
      /\ r.Stoppables = IF b \in Halted THEN Append(c.Stoppables, b) ELSE c.Stoppables
      /\ r = [Startables |-> r.Startables, Drainables |-> r.Drainables, InFlight |-> r.InFlight,
              PreStoppables |-> r.PreStoppables, Stoppables |-> r.Stoppables]
  BY DEF Registered, Halted, Transports
<1> HIDE DEF r
<1>4. r.Startables \in Seq(Transports) /\ r.Stoppables \in Seq(Halted)
  BY <1>1, <1>3
<1>5. r.Drainables \in Seq(Rcv)
  BY <1>1, <1>3
<1>6. r.PreStoppables \in Seq({"trigger"})
  BY <1>1, <1>3
<1>7. r.InFlight \in Seq(Holders)
  BY <1>1, <1>2, <1>3, ConcatAt
<1>8. Len(r.InFlight) >= Len(c.InFlight)
  BY <1>1, <1>2, <1>3, ConcatAt
<1>9. r \in Lists
  BY <1>3, <1>4, <1>5, <1>6, <1>7 DEF Lists
<1>10. \A x : InList(c.InFlight, x) \/ InList(Registers(b), x) => InList(r.InFlight, x)
  BY <1>1, <1>2, <1>3, InConcat
<1>11. /\ \A x : InList(c.Stoppables, x) => InList(r.Stoppables, x)
       /\ b \in Halted => InList(r.Stoppables, b)
  BY <1>1, <1>3, InAppended
<1>12. /\ \A x : InList(c.Drainables, x) => InList(r.Drainables, x)
       /\ b \in Rcv => InList(r.Drainables, b)
  BY <1>1, <1>3, InAppended
<1> QED BY <1>8, <1>9, <1>10, <1>11, <1>12 DEF r

LEMMA FlightCounted == \A c \in Lists : Len(c.InFlight) \in Nat
<1> SUFFICES ASSUME NEW c \in Lists PROVE Len(c.InFlight) \in Nat
  OBVIOUS
<1>1. c.InFlight \in Seq(Holders)
  BY DEF Lists
<1> QED BY <1>1

LEMMA TypeProcess ==
  ASSUME ConfigOK, ProcessIndInv, ProcessStep
  PROVE  TypeInv'
<1> USE DEF ProcessIndInv, TypeInv, Messaging, Quiet
<1>0. Len(Blocks) \in Nat /\ Len(Blocks)' = Len(Blocks)
  BY BlocksAre DEF Blocks
<1>1. config \in Lists /\ Len(InFlight) \in Nat /\ Len(Startables) \in Nat /\ Len(Drainables) \in Nat
      /\ Len(PreStoppables) \in Nat /\ Len(Stoppables) \in Nat
  BY DEF Lists, InFlight, Startables, Drainables, PreStoppables, Stoppables
<1>a. closer \in Nat /\ closer <= Len(InFlight)
  BY <1>1
<1> USE DEF Phases
<1>2. CASE ProcessBlock
  <2>1. config' \in Lists /\ Len(InFlight') >= Len(InFlight) /\ Len(InFlight') \in Nat
    <3>1. config' = Registered(config, Blocks[built + 1])
      BY <1>2 DEF ProcessBlock
    <3>2. config' \in Lists /\ Len(config'.InFlight) >= Len(config.InFlight)
      BY <1>1, <3>1, ListsGrow, Zenon
    <3> QED BY <3>2, FlightCounted, Zenon DEF InFlight
  <2>2. StartedByBuild(Blocks[built + 1]) \subseteq {"bus", "subq", "rq"}
    BY DEF StartedByBuild
  <2> QED BY <1>0, <1>1, <1>2, <2>1, <2>2 DEF ProcessBlock
<1>3. CASE BuildFailed
  BY <1>0, <1>1, <1>3 DEF BuildFailed, InFlight
<1>4. CASE Built
  BY <1>0, <1>1, <1>4 DEF Built, InFlight
<1>5. CASE Discard
  BY <1>0, <1>1, <1>5 DEF Discard, DiscardStops, InFlight
<1>6. CASE StartOne
  <2>1. Startables[at] \in Transports
    BY <1>1, <1>6 DEF StartOne, Lists, Startables
  <2> QED BY <1>0, <1>1, <1>6, <2>1 DEF StartOne, InFlight, Halted
<1>7. CASE StartTerminal \/ Started \/ Signal
  <2>1. /\ UNCHANGED <<built, config, accepting, where, settled, closed, readings, sum, closer>>
        /\ up' \subseteq up \cup {"ticker"}
    BY <1>7 DEF StartTerminal, Started, Signal
  <2>2. phase' \in {"drain", "run"} /\ at' \in Nat
    <3>1. CASE StartTerminal
      BY <1>1, <3>1 DEF StartTerminal
    <3>2. CASE Started
      BY <3>2 DEF Started
    <3>3. CASE Signal
      BY <1>1, <3>3 DEF Signal
    <3> QED BY <1>7, <3>1, <3>2, <3>3
  <2> QED BY <1>0, <1>1, <2>1, <2>2 DEF InFlight, Halted
<1>8. CASE DrainOne
  BY <1>0, <1>1, <1>8 DEF DrainOne, InFlight
<1>9. CASE Drained \/ PreStopped
  <2>1. UNCHANGED <<built, config, up, accepting, where, settled, closed, readings, sum, closer>>
    BY <1>9 DEF Drained, PreStopped
  <2>2. /\ phase' \in {"prestop", "stop", "quiesce"} /\ at' \in Nat
        /\ phase' = "quiesce" => at' >= 1
    <3>1. CASE Drained
      BY <1>1, <3>1 DEF Drained
    <3>2. CASE PreStopped
      BY <1>1, <3>2 DEF PreStopped
    <3> QED BY <1>9, <3>1, <3>2
  <2> QED BY <1>0, <1>1, <2>1, <2>2 DEF InFlight
<1>10. CASE PreStopOne \/ PreStopReturns
  <2>1. where' \in [Messages -> Places]
    BY <1>10 DEF PreStopOne, PreStopReturns, Places
  <2>2. UNCHANGED <<phase, built, config, up, accepting, settled, closed, readings, sum, closer>>
    BY <1>10 DEF PreStopOne, PreStopReturns
  <2>3. phase = "prestop" /\ at' \in Nat
    <3>1. phase = "prestop" /\ at >= 1 /\ at' \in {at, at - 1}
      BY <1>10 DEF PreStopOne, PreStopReturns
    <3>2. at \in Nat
      OBVIOUS
    <3> HIDE DEF TypeInv, ProcessIndInv
    <3> QED BY <3>1, <3>2
  <2> QED BY <1>0, <1>1, <2>1, <2>2, <2>3 DEF InFlight
<1>11. CASE PendingWork
  <2>1. InFlight[at] \in Holders
    BY <1>1, <1>11 DEF PendingWork, Lists, InFlight
  <2>2. Pending(InFlight[at]) \in Nat
    BY <2>1, PendingCounts
  <2> QED BY <1>0, <1>1, <1>11, <2>2 DEF PendingWork, InFlight
<1>12. CASE Quiesce
  <2>1. UNCHANGED <<built, config, up, accepting, where, settled, closed>>
    BY <1>12 DEF Quiesce
  <2>2. /\ sum' \in Nat /\ readings' \in Nat
        /\ (phase' = "close" /\ at' = 0) \/ (phase' = "quiesce" /\ at' = 1)
    BY <1>12 DEF Quiesce
  <2>3. closer' \in {closer, Len(InFlight)}
    BY <1>12 DEF Quiesce
  <2>4. InFlight' = InFlight
    BY <2>1 DEF InFlight
  <2>5. closer' \in 0..Len(InFlight)'
    <3> HIDE DEF TypeInv, ProcessIndInv
    <3> QED BY <1>1, <1>a, <2>3, <2>4
  <2>6. phase' \in Phases /\ at' \in Nat /\ (phase' \in {"start", "quiesce"} => at' >= 1)
    <3> HIDE DEF TypeInv, ProcessIndInv
    <3>1. CASE phase' = "close" /\ at' = 0
      BY <3>1
    <3>2. CASE phase' = "quiesce" /\ at' = 1
      BY <3>2
    <3> QED BY <2>2, <3>1, <3>2
  <2>7. built' \in 0..Len(Blocks)' /\ config' \in Lists
    BY <1>0, <2>1
  <2>8. /\ up' \subseteq Halted \cup {"bus", "subq", "rq"} /\ accepting' \subseteq Transports
        /\ where' \in [Messages -> Places] /\ closed' \subseteq Queues
        /\ settled' \in [Rcv -> {"no", "acked", "nacked", "refused"}]
    BY <2>1
  <2> QED BY <2>2, <2>5, <2>6, <2>7, <2>8
<1>13. CASE CloseQueues
  BY <1>0, <1>1, <1>13 DEF CloseQueues, InFlight
<1>14. CASE StopOne
  BY <1>0, <1>1, <1>14 DEF StopOne, InFlight
<1>15. CASE Exit \/ Deadline
  BY <1>0, <1>1, <1>15 DEF Exit, Deadline, InFlight
<1>16. CASE CloseStep
  <2>1. closed' \subseteq Queues
    BY <1>16 DEF CloseStep, QueueOf, Queues
  <2>2. closer' \in 0..Len(InFlight)
    <3>1. closer > 0 /\ (closer' = closer \/ closer' = closer - 1)
      BY <1>16, Zenon DEF CloseStep
    <3> HIDE DEF TypeInv, ProcessIndInv
    <3> QED BY <1>1, <1>a, <3>1
  <2> QED BY <1>0, <1>1, <1>16, <2>1, <2>2 DEF CloseStep, InFlight
<1>17. CASE TickBegins \/ TickEnds
  <2>1. where' \in [Messages -> Places]
    BY <1>17 DEF TickBegins, TickEnds, Places
  <2> QED BY <1>0, <1>1, <1>17, <2>1 DEF TickBegins, TickEnds, Keep, InFlight
<1> QED BY <1>2, <1>3, <1>4, <1>5, <1>6, <1>7, <1>8, <1>9, <1>10, <1>11, <1>12, <1>13, <1>14,
           <1>15, <1>16, <1>17 DEF ProcessStep, Main

LEMMA TypeStep ==
  ASSUME ConfigOK, ProcessIndInv, [Next]_vars
  PROVE  TypeInv'
<1>1. ASSUME NEW m \in Messages, Receive(m) \/ Work(m) PROVE TypeInv'
  <2>1. /\ UNCHANGED <<phase, at, built, config, up, accepting, closed, readings, sum, late,
                       closer, warned>>
        /\ \E p \in Places : MovesTo(m, p)
    BY <1>1, MessageMoves
  <2>2. where' \in [Messages -> Places]
    BY <2>1 DEF MovesTo, ProcessIndInv, TypeInv
  <2>3. settled' \in [Rcv -> {"no", "acked", "nacked", "refused"}]
    BY <2>1 DEF MovesTo, ProcessIndInv, TypeInv, SettledAs
  <2> QED BY <2>1, <2>2, <2>3 DEF ProcessIndInv, TypeInv, InFlight, Blocks
<1>2. CASE UNCHANGED vars
  BY <1>2 DEF vars, ProcessIndInv, TypeInv, InFlight, Blocks
<1> QED BY <1>1, <1>2, TypeProcess, StepSplit

LEMMA BuildStep ==
  ASSUME ConfigOK, ProcessIndInv, [Next]_vars
  PROVE  BuildInv'
<1>1. ASSUME UNCHANGED <<config, built>>, NEW k \in 1..built PROVE RegisteredOK(Blocks[k])'
  BY <1>1 DEF ProcessIndInv, BuildInv, RegisteredOK, Stoppables, Drainables, InFlight, Blocks
<1>2. ASSUME UNCHANGED <<config, built, phase, up, accepting>> PROVE BuildInv'
  BY <1>1, <1>2 DEF ProcessIndInv, BuildInv, Blocks
<1>3. CASE ProcessBlock
  <2>1. /\ phase = "build" /\ phase' = "build" /\ built' = built + 1 /\ built \in Nat
        /\ config' = Registered(config, Blocks[built + 1]) /\ config \in Lists
        /\ up' = up \cup StartedByBuild(Blocks[built + 1]) /\ accepting' = accepting
    BY <1>3, BlocksAre DEF ProcessBlock, ProcessIndInv, TypeInv
  <2>2. ASSUME NEW b, RegisteredOK(b) \/ b = Blocks[built + 1] PROVE RegisteredOK(b)'
    <3>1. CASE RegisteredOK(b)
      <4>0. PICK n : n = Blocks[built + 1]
        OBVIOUS
      <4>a. config \in Lists /\ config' = Registered(config, n)
        BY <2>1, <4>0
      <4>1. /\ \A x : InList(Stoppables, x) => InList(Stoppables', x)
            /\ \A x : InList(Drainables, x) => InList(Drainables', x)
            /\ \A x : InList(InFlight, x) => InList(InFlight', x)
        BY <4>a, ListsGrow DEF Stoppables, Drainables, InFlight
      <4> QED BY <3>1, <4>1 DEF RegisteredOK, InList, Holder
    <3>2. CASE b = Blocks[built + 1]
      <4>1. config' = Registered(config, b) /\ config \in Lists
        BY <2>1, <3>2
      <4>2. /\ b \in Halted => InList(Stoppables', b)
            /\ b \in Rcv => InList(Drainables', b)
            /\ \A x : InList(Registers(b), x) => InList(InFlight', x)
        BY <4>1, ListsGrow DEF Stoppables, Drainables, InFlight
      <4>3. /\ b \in Rcv => InList(Registers(b), Holder(b, {"unsettled"}, FALSE))
            /\ b \in Queued => InList(Registers(b), Holder(b, {"rq"}, TRUE))
            /\ b = "bus" => InList(Registers(b), Holder("bus", {"bus"}, FALSE))
            /\ b = "sub" /\ SubQueue => InList(Registers(b), Holder("subq", {"subq"}, TRUE))
        BY RegistersTyped
      <4> QED BY <4>2, <4>3 DEF RegisteredOK, InList, Holder
    <3> QED BY <2>2, <3>1, <3>2
  <2>3. StartedByBuild(Blocks[built + 1]) \subseteq {"bus", "subq", "rq"}
    BY DEF StartedByBuild
  <2>4. ASSUME NEW k \in 1..(built + 1) PROVE RegisteredOK(Blocks[k])'
    <3>1. RegisteredOK(Blocks[k]) \/ Blocks[k] = Blocks[built + 1]
      BY <2>1 DEF ProcessIndInv, BuildInv
    <3> DEFINE b == Blocks[k]
    <3>2. RegisteredOK(b)'
      <4> HIDE DEF b
      <4> QED BY <2>2, <3>1 DEF b
    <3> QED BY <3>2
  <2> QED BY <2>1, <2>3, <2>4 DEF ProcessIndInv, BuildInv, Blocks
<1>4. CASE BuildFailed \/ Built
  BY <1>1, <1>4 DEF BuildFailed, Built, ProcessIndInv, BuildInv, Blocks
<1>5. CASE Discard
  BY <1>1, <1>5 DEF Discard, DiscardStops, ProcessIndInv, BuildInv, Blocks, Queues
<1>6. CASE StartOne
  BY <1>1, <1>6 DEF StartOne, ProcessIndInv, BuildInv, Blocks
<1>7. CASE StartTerminal \/ Started \/ Signal
  BY <1>1, <1>7 DEF StartTerminal, Started, Signal, ProcessIndInv, BuildInv, Blocks
<1>8. CASE DrainOne \/ Drained
  BY <1>1, <1>8 DEF DrainOne, Drained, ProcessIndInv, BuildInv, Blocks
<1>9. CASE PreStopOne \/ PreStopReturns \/ PreStopped
  BY <1>1, <1>9 DEF PreStopOne, PreStopReturns, PreStopped, ProcessIndInv, BuildInv, Blocks
<1>10. CASE PendingWork \/ Deadline \/ CloseStep \/ TickBegins \/ TickEnds
  BY <1>2, <1>10 DEF PendingWork, Deadline, CloseStep, TickBegins, TickEnds, Keep
<1>11. CASE Quiesce
  BY <1>1, <1>11 DEF Quiesce, ProcessIndInv, BuildInv, Blocks
<1>12. CASE CloseQueues
  BY <1>1, <1>12 DEF CloseQueues, ProcessIndInv, BuildInv, Blocks
<1>13. CASE StopOne \/ Exit
  BY <1>1, <1>13 DEF StopOne, Exit, ProcessIndInv, BuildInv, Blocks
<1>14. ASSUME NEW m \in Messages, Receive(m) \/ Work(m) PROVE BuildInv'
  BY <1>2, <1>14, MessageMoves
<1>15. CASE UNCHANGED vars
  BY <1>2, <1>15 DEF vars
<1> QED BY <1>3, <1>4, <1>5, <1>6, <1>7, <1>8, <1>9, <1>10, <1>11, <1>12, <1>13, <1>14, <1>15,
           StepSplit DEF ProcessStep, Main

-----------------------------------------------------------------------------
(* The messages.                                                           *)

\* The process itself moves what the two triggers do, and no receiver's message;
\* only starting and stopping change which transports are up.
LEMMA ProcessFrame ==
  ASSUME ConfigOK, ProcessIndInv, ProcessStep
  PROVE  /\ settled' = settled
         /\ \A m \in Rcv : where'[m] = where[m]
         /\ \A m \in Messages : where'[m] \in {where[m], "bus", "acting", "done"}
         /\ phase' \notin {"discarded", "stop", "exited"} =>
              up \subseteq up' /\ phase \notin {"discarded", "stop", "exited"}
<1> USE DEF Messaging, Quiet
<1>0. /\ "farewell" \notin Rcv /\ "tick" \notin Rcv
      /\ where \in [Messages -> Places] /\ Rcv \subseteq Messages
  BY DEF ConfigOK, ProcessIndInv, TypeInv, Messages
<1>1. CASE PreStopOne \/ PreStopReturns
  <2>1. \E w \in {"acting", "bus", "done"} : where' = [where EXCEPT !["farewell"] = w]
    BY <1>1 DEF PreStopOne, PreStopReturns
  <2> QED BY <1>0, <1>1, <2>1 DEF PreStopOne, PreStopReturns
<1>8. CASE TickBegins \/ TickEnds
  <2>1. \E w \in {"acting", "done"} : where' = [where EXCEPT !["tick"] = w]
    BY <1>8 DEF TickBegins, TickEnds
  <2> QED BY <1>0, <1>8, <2>1 DEF TickBegins, TickEnds, Keep
<1>2. CASE CloseStep
  BY <1>2, Zenon DEF CloseStep
<1>3. CASE ProcessBlock \/ BuildFailed \/ Built \/ Discard
  BY <1>3 DEF ProcessBlock, BuildFailed, Built, Discard
<1>4. CASE StartOne \/ StartTerminal \/ Started \/ Signal
  BY <1>4 DEF StartOne, StartTerminal, Started, Signal
<1>5. CASE DrainOne \/ Drained \/ PreStopped
  BY <1>5 DEF DrainOne, Drained, PreStopped
<1>6. CASE PendingWork \/ Quiesce \/ Deadline
  BY <1>6 DEF PendingWork, Quiesce, Deadline
<1>7. CASE CloseQueues \/ StopOne \/ Exit
  BY <1>7 DEF CloseQueues, StopOne, Exit
<1> QED BY <1>1, <1>2, <1>3, <1>4, <1>5, <1>6, <1>7, <1>8 DEF ProcessStep, Main

LEMMA MessageStep ==
  ASSUME ConfigOK, ProcessIndInv, [Next]_vars
  PROVE  MessageInv'
<1> USE DEF ProcessIndInv, MessageInv
<1>1. CASE ProcessStep
  <2>1. /\ settled' = settled
        /\ \A m \in Rcv : where'[m] = where[m]
        /\ \A m \in Messages : where'[m] \in {where[m], "bus", "acting", "done"}
        /\ phase' \notin {"discarded", "stop", "exited"} =>
             up \subseteq up' /\ phase \notin {"discarded", "stop", "exited"}
    BY <1>1, ProcessFrame
  <2> QED BY <2>1
<1>2. ASSUME NEW m \in Messages, Receive(m) \/ Work(m) PROVE MessageInv'
  <2>1. UNCHANGED <<phase, up, accepting, closed>> /\ \E p \in Places : MovesTo(m, p)
    BY <1>2, MessageMoves
  <2>2. PICK p \in Places : MovesTo(m, p)
    BY <2>1
  <2>3. where \in [Messages -> Places] /\ settled \in [Rcv -> {"no", "acked", "nacked", "refused"}]
        /\ Rcv \subseteq Messages
    BY DEF TypeInv, Messages
  <2>4. where'[m] = p /\ \A n \in Messages : n # m => where'[n] = where[n]
    BY <2>2, <2>3 DEF MovesTo
  <2>5. \A n \in Rcv : n # m => settled'[n] = settled[n]
    BY <2>2, <2>3 DEF MovesTo
  <2>6. m \in Rcv /\ settled'[m] # "no" => p \in {"done", "refused"}
    <3>1. CASE UNCHANGED settled
      <4>1. where[m] \notin {"done", "refused"}
        BY <2>2 DEF MovesTo
      <4> QED BY <3>1, <4>1
    <3>2. CASE ~UNCHANGED settled
      BY <2>2, <3>2 DEF MovesTo
    <3> QED BY <3>1, <3>2
  <2>7. /\ p \in {"rq", "rq running"} => m \in Queued
        /\ p \in {"subq", "subq running"} => SubQueue
    BY <2>2 DEF MovesTo
  <2>8. where[m] = "source" => m \in up
    BY <2>2 DEF MovesTo
  <2>9. \A n \in Rcv : settled'[n] # "no" => where'[n] \in {"done", "refused"}
    BY <2>3, <2>4, <2>5, <2>6
  <2>10. /\ \A n \in Messages : where'[n] \in {"rq", "rq running"} => n \in Queued
         /\ \A n \in Messages : where'[n] \in {"subq", "subq running"} => SubQueue
    BY <2>4, <2>7
  <2>11. phase \notin {"discarded", "stop", "exited"} => \A n \in Rcv : where'[n] # "source" => n \in up
    BY <2>3, <2>4, <2>8
  <2> QED BY <2>1, <2>9, <2>10, <2>11
<1>3. CASE UNCHANGED vars
  BY <1>3 DEF vars
<1> QED BY <1>1, <1>2, <1>3, StepSplit

LEMMA DrainStep ==
  ASSUME ConfigOK, ProcessIndInv, [Next]_vars
  PROVE  DrainInv'
<1> SUFFICES ASSUME ~warned' PROVE DrainInv'
  BY DEF DrainInv
<1> USE DEF ProcessIndInv, DrainInv, Messaging, Quiet, Drainables
<1>1. ASSUME UNCHANGED <<phase, at, config, warned, accepting>> PROVE DrainInv'
  BY <1>1
<1>2. CASE ProcessBlock \/ BuildFailed \/ Built \/ Discard
  BY <1>2 DEF ProcessBlock, BuildFailed, Built, Discard
<1>3. CASE StartOne \/ Started
  BY <1>3 DEF StartOne, Started
<1>4. CASE StartTerminal \/ Signal
  <2>1. Len(config.Drainables) \in Nat
    BY DEF TypeInv, Lists
  <2> QED BY <1>4, <2>1 DEF StartTerminal, Signal
<1>5. CASE DrainOne
  <2>1. Len(config.Drainables) \in Nat /\ at \in Nat
    BY DEF TypeInv, Lists
  <2> QED BY <1>5, <2>1 DEF DrainOne
<1>6. CASE Drained
  <2>1. \A m \in Rcv : InList(Drainables, m)
    BY <1>6, AllRegistered DEF Drained
  <2>2. ~warned /\ phase = "drain" /\ at = 0 /\ UNCHANGED accepting
    BY <1>6 DEF Drained
  <2>3. \A k \in 1..Len(Drainables) : Drainables[k] \notin accepting
    BY <2>2
  <2>4. accepting \cap Rcv = {}
    BY <2>1, <2>3 DEF InList
  <2> QED BY <1>6, <2>2, <2>4 DEF Drained
<1>7. CASE PreStopOne \/ PreStopReturns \/ PreStopped
  BY <1>7 DEF PreStopOne, PreStopReturns, PreStopped
<1>8. CASE PendingWork \/ Quiesce \/ Deadline
  BY <1>8 DEF PendingWork, Quiesce, Deadline
<1>9. CASE CloseQueues \/ StopOne \/ Exit
  BY <1>9 DEF CloseQueues, StopOne, Exit
<1>10. CASE CloseStep
  BY <1>1, <1>10, Zenon DEF CloseStep
<1>11. ASSUME NEW m \in Messages, Receive(m) \/ Work(m) PROVE DrainInv'
  BY <1>1, <1>11, MessageMoves
<1>12. CASE UNCHANGED vars
  BY <1>1, <1>12 DEF vars
<1>13. CASE TickBegins \/ TickEnds
  BY <1>1, <1>13 DEF TickBegins, TickEnds, Keep
<1> QED BY <1>2, <1>3, <1>4, <1>5, <1>6, <1>7, <1>8, <1>9, <1>10, <1>11, <1>12, <1>13, StepSplit
        DEF ProcessStep, Main

-----------------------------------------------------------------------------
(* Quiesce, closing and stopping.                                          *)

\* What has come to rest stays there while its receiver takes nothing in.
LEMMA RestIsStable ==
  ASSUME ConfigOK, ProcessIndInv, [Next]_vars, NEW n \in Rcv, AtRest(n), n \notin accepting
  PROVE  AtRest(n)'
<1> USE DEF ProcessIndInv, AtRest
<1>1. CASE ProcessStep
  BY <1>1, ProcessFrame
<1>2. ASSUME NEW m \in Messages, Receive(m) \/ Work(m) PROVE AtRest(n)'
  <2>1. PICK p \in Places : MovesTo(m, p)
    BY <1>2, MessageMoves
  <2>2. where \in [Messages -> Places] /\ settled \in [Rcv -> {"no", "acked", "nacked", "refused"}]
        /\ Rcv \subseteq Messages
    BY DEF TypeInv, Messages
  <2>3. CASE n # m
    BY <2>1, <2>2, <2>3 DEF MovesTo
  <2>4. CASE n = m
    <3>1. where[n] # "source"
      BY <2>1, <2>4 DEF MovesTo
    <3>2. settled[n] # "no" /\ where[n] \in {"done", "refused"}
      BY <3>1 DEF MessageInv
    <3> QED BY <2>1, <2>4, <3>1, <3>2 DEF MovesTo
  <2> QED BY <2>3, <2>4
<1>3. CASE UNCHANGED vars
  BY <1>3 DEF vars
<1> QED BY <1>1, <1>2, <1>3, StepSplit

LEMMA QuiesceStep ==
  ASSUME ConfigOK, ProcessIndInv, [Next]_vars
  PROVE  QuiesceInv'
<1> SUFFICES ASSUME ~warned' PROVE QuiesceInv'
  BY DEF QuiesceInv
<1> USE DEF Messaging, Quiet
<1>1. /\ config \in Lists /\ Len(InFlight) \in Nat /\ at \in Nat /\ sum \in Nat
      /\ \A k \in 1..Len(InFlight) : /\ InFlight[k] \in Holders
                                     /\ InFlight[k].pend = {"unsettled"} => InFlight[k].name \in Rcv
  <2>1. config \in Lists /\ InFlight \in Seq(Holders) /\ at \in Nat /\ sum \in Nat
    BY DEF ProcessIndInv, TypeInv, Lists, InFlight
  <2>2. Len(InFlight) \in Nat /\ \A k \in 1..Len(InFlight) : InFlight[k] \in Holders
    BY <2>1
  <2>3. \A h \in Holders : h.pend = {"unsettled"} => h.name \in Rcv
    BY DEF Holders
  <2> QED BY <2>1, <2>2, <2>3
\* While the step warns of nothing, rest is stable from quiesce on.
<1>2. ASSUME ~warned, phase \in {"prestop", "quiesce", "close", "stop", "exited"},
             NEW n \in Rcv, AtRest(n)
      PROVE  AtRest(n)'
  BY <1>2, RestIsStable DEF ProcessIndInv, DrainInv
<1>3. ASSUME UNCHANGED <<phase, at, config, sum, warned>> PROVE QuiesceInv'
  BY <1>1, <1>2, <1>3 DEF ProcessIndInv, QuiesceInv, InFlight
<1>4. CASE ProcessBlock \/ BuildFailed \/ Built \/ Discard
  BY <1>4 DEF ProcessBlock, BuildFailed, Built, Discard, QuiesceInv
<1>5. CASE StartOne \/ StartTerminal \/ Started \/ Signal
  BY <1>5 DEF StartOne, StartTerminal, Started, Signal, QuiesceInv
<1>6. CASE DrainOne \/ Drained \/ PreStopOne \/ PreStopReturns
  BY <1>6 DEF DrainOne, Drained, PreStopOne, PreStopReturns, QuiesceInv
<1>7. CASE PreStopped
  <2>1. InFlight # <<>>
    BY <1>7, AllRegistered DEF PreStopped, ProcessIndInv
  <2>2. phase' = "quiesce" /\ at' = 1 /\ UNCHANGED config
    BY <1>7, <2>1 DEF PreStopped
  <2> QED BY <1>1, <2>2 DEF QuiesceInv, InFlight
<1>8. CASE PendingWork
  <2>1. /\ phase = "quiesce" /\ phase' = "quiesce" /\ at <= Len(InFlight) /\ at >= 1 /\ ~warned
        /\ at' = at + 1 /\ sum' = sum + Pending(InFlight[at]) /\ UNCHANGED config
    BY <1>8 DEF PendingWork, ProcessIndInv, TypeInv
  <2>2. /\ Pending(InFlight[at]) \in Nat
        /\ InFlight[at].pend = {"unsettled"} /\ Pending(InFlight[at]) = 0 => AtRest(InFlight[at].name)
    BY <1>1, <2>1, PendingCounts DEF ProcessIndInv
  <2>3. ASSUME sum' = 0, NEW k \in 1..Len(InFlight), k < at', InFlight[k].pend = {"unsettled"}
        PROVE  AtRest(InFlight[k].name)
    <3>1. sum = 0 /\ Pending(InFlight[at]) = 0
      BY <1>1, <2>1, <2>2, <2>3
    <3>2. CASE k = at
      BY <2>2, <2>3, <3>1, <3>2
    <3>3. CASE k < at
      BY <2>1, <2>3, <3>1, <3>3 DEF ProcessIndInv, QuiesceInv
    <3> QED BY <1>1, <2>1, <2>3, <3>2, <3>3
  <2>4. ASSUME sum' = 0, NEW k \in 1..Len(InFlight), k < at', InFlight[k].pend = {"unsettled"}
        PROVE  AtRest(InFlight[k].name)'
    <3>1. PICK n \in Rcv : n = InFlight[k].name
      BY <1>1, <2>4
    <3>2. AtRest(n)'
      BY <1>2, <2>1, <2>3, <2>4, <3>1
    <3> QED BY <2>1, <3>1, <3>2 DEF InFlight
  <2> QED BY <2>1, <2>4 DEF QuiesceInv, InFlight
<1>9. CASE Quiesce
  <2>1. /\ phase = "quiesce" /\ at > Len(InFlight) /\ ~warned /\ UNCHANGED config
        /\ \/ sum = 0 /\ phase' = "close"
           \/ phase' = "quiesce" /\ at' = 1
    BY <1>9 DEF Quiesce
  <2>2. CASE phase' = "quiesce" /\ at' = 1
    BY <1>1, <2>1, <2>2 DEF QuiesceInv, InFlight
  <2>3. CASE sum = 0 /\ phase' = "close"
    <3>1. ASSUME NEW m \in Rcv PROVE AtRest(m)
      <4>1. PICK k \in 1..Len(InFlight) : InFlight[k] = Holder(m, {"unsettled"}, FALSE)
        BY <2>1, AllRegistered DEF InList, ProcessIndInv
      <4>2. InFlight[k].pend = {"unsettled"} /\ InFlight[k].name = m /\ k < at
        BY <1>1, <2>1, <4>1 DEF Holder
      <4>3. AtRest(InFlight[k].name)
        BY <2>1, <2>3, <4>2 DEF ProcessIndInv, QuiesceInv
      <4> QED BY <4>2, <4>3
    <3>2. \A m \in Rcv : AtRest(m)'
      BY <1>2, <2>1, <3>1
    <3> QED BY <2>3, <3>2 DEF QuiesceInv
  <2> QED BY <2>1, <2>2, <2>3
<1>10. CASE CloseQueues \/ StopOne \/ Exit
  <2>1. phase \in {"close", "stop"} /\ phase' \in {"stop", "exited"} /\ ~warned
    BY <1>10 DEF CloseQueues, StopOne, Exit
  <2>2. \A m \in Rcv : AtRest(m)'
    BY <1>2, <2>1 DEF ProcessIndInv, QuiesceInv
  <2> QED BY <2>1, <2>2 DEF QuiesceInv
<1>11. CASE Deadline
  BY <1>3, <1>11 DEF Deadline
<1>12. CASE CloseStep
  BY <1>3, <1>12, Zenon DEF CloseStep
<1>13. ASSUME NEW m \in Messages, Receive(m) \/ Work(m) PROVE QuiesceInv'
  BY <1>3, <1>13, MessageMoves
<1>14. CASE UNCHANGED vars
  BY <1>3, <1>14 DEF vars
<1>15. CASE TickBegins \/ TickEnds
  BY <1>3, <1>15 DEF TickBegins, TickEnds, Keep
<1> QED BY <1>4, <1>5, <1>6, <1>7, <1>8, <1>9, <1>10, <1>11, <1>12, <1>13, <1>14, <1>15, StepSplit
        DEF ProcessStep, Main

LEMMA QueueIs ==
  ASSUME NEW h
  PROVE  /\ QueueOf(h) \in Queues
         /\ Running(QueueOf(h)) \in {"rq running", "subq running"}
         /\ Running("rq") = "rq running" /\ Running("subq") = "subq running"
BY RunningIs DEF QueueOf, Queues

\* Nothing enters a queue that was closed: the receiver's refuses on the way
\* in, the subscription's in the dispatcher.
LEMMA EmptiedIsStable ==
  ASSUME ConfigOK, ProcessIndInv, NEW m \in Messages, Receive(m) \/ Work(m), NEW q \in Queues, Emptied(q)
  PROVE  Emptied(q)'
<1>1. PICK p \in Places : MovesTo(m, p)
  BY MessageMoves
<1>2. closed' = closed
  BY MessageMoves
<1>3. where \in [Messages -> Places]
  BY DEF ProcessIndInv, TypeInv
<1>4. where'[m] = p /\ \A n \in Messages : n # m => where'[n] = where[n]
  BY <1>1, <1>3 DEF MovesTo
<1>5. p \notin {q, Running(q)}
  BY <1>1, RunningIs DEF MovesTo, Emptied, Queues
<1> QED BY <1>2, <1>4, <1>5 DEF Emptied, Running

LEMMA CloseStepInv ==
  ASSUME ConfigOK, ProcessIndInv, [Next]_vars
  PROVE  CloseInv'
<1> USE DEF Messaging, Quiet
<1>1. Len(InFlight) \in Nat /\ closer \in Nat
  BY DEF ProcessIndInv, TypeInv, Lists, InFlight
<1>2. ASSUME UNCHANGED <<phase, config, where, closed, closer, warned>> PROVE CloseInv'
  BY <1>2 DEF ProcessIndInv, CloseInv, Emptied, InFlight
<1>3. CASE ProcessBlock \/ BuildFailed \/ Built \/ Discard
  BY <1>3 DEF ProcessBlock, BuildFailed, Built, Discard, ProcessIndInv, CloseInv
<1>4. CASE StartOne \/ StartTerminal \/ Started \/ Signal
  BY <1>4 DEF StartOne, StartTerminal, Started, Signal, ProcessIndInv, CloseInv
<1>5. CASE DrainOne \/ Drained \/ PreStopOne \/ PreStopReturns
  BY <1>5 DEF DrainOne, Drained, PreStopOne, PreStopReturns, ProcessIndInv, CloseInv
<1>6. CASE PreStopped
  <2>1. InFlight # <<>>
    BY <1>6, AllRegistered DEF PreStopped, ProcessIndInv
  <2> QED BY <1>6, <2>1 DEF PreStopped, ProcessIndInv, CloseInv
<1>7. CASE PendingWork
  BY <1>7 DEF PendingWork, ProcessIndInv, CloseInv
<1>8. CASE Deadline
  BY <1>2, <1>8 DEF Deadline
<1>9. CASE Quiesce
  <2>1. /\ phase = "quiesce" /\ UNCHANGED <<closed, config>>
        /\ \/ phase' = "close" /\ closer' = Len(InFlight)
           \/ phase' = "quiesce" /\ closer' = closer
    BY <1>9 DEF Quiesce
  <2> QED BY <1>1, <2>1 DEF ProcessIndInv, CloseInv, InFlight
<1>10. CASE CloseQueues
  <2>1. /\ phase = "close" /\ phase' = "stop" /\ UNCHANGED <<config, where, closed, closer>>
        /\ warned' \/ closer = 0
    BY <1>10 DEF CloseQueues
  <2> QED BY <2>1 DEF ProcessIndInv, CloseInv, Emptied, InFlight
<1>11. CASE StopOne \/ Exit
  <2>1. /\ phase = "stop" /\ phase' \in {"stop", "exited"}
        /\ UNCHANGED <<config, where, closed, closer, warned>>
    BY <1>11 DEF StopOne, Exit
  <2> QED BY <2>1 DEF ProcessIndInv, CloseInv, Emptied, InFlight
<1>12. CASE CloseStep
  <2>1. UNCHANGED <<phase, config, where, warned>> /\ closer > 0
    BY <1>12, Zenon DEF CloseStep
  <2>2. /\ phase \in {"close", "stop", "exited"} /\ closed \subseteq closed'
        /\ phase \in {"stop", "exited"} => warned
    <3>1. closed \subseteq closed'
      BY <1>12, Zenon DEF CloseStep
    <3> QED BY <1>1, <2>1, <3>1 DEF ProcessIndInv, CloseInv
  <2>3. \A q : Emptied(q) => Emptied(q)'
    BY <2>1, <2>2 DEF Emptied, Running
  <2> DEFINE h == InFlight[closer]
  <2>4. \/ closer' = closer
        \/ closer' = closer - 1 /\ (h.closes => Emptied(QueueOf(h)))
    BY <1>12, Zenon DEF CloseStep, Emptied
  <2>5. ASSUME NEW k \in 1..Len(InFlight), k > closer', InFlight[k].closes
        PROVE  Emptied(QueueOf(InFlight[k]))
    <3>1. CASE k > closer
      BY <2>2, <2>5, <3>1 DEF ProcessIndInv, CloseInv
    <3>2. CASE k <= closer
      <4>1. k = closer /\ closer' # closer
        BY <1>1, <2>4, <2>5, <3>2
      <4> QED BY <2>4, <2>5, <4>1
    <3> QED BY <1>1, <3>1, <3>2
  <2>6. ASSUME NEW k \in 1..Len(InFlight), k > closer', InFlight[k].closes
        PROVE  Emptied(QueueOf(InFlight[k]))'
    <3>1. PICK q : q = QueueOf(InFlight[k])
      OBVIOUS
    <3>2. Emptied(q)'
      BY <2>3, <2>5, <2>6, <3>1
    <3> QED BY <2>1, <3>1, <3>2 DEF InFlight, QueueOf
  <2> QED BY <2>1, <2>2, <2>6 DEF CloseInv, InFlight
<1>13. ASSUME NEW m \in Messages, Receive(m) \/ Work(m) PROVE CloseInv'
  <2>1. UNCHANGED <<phase, config, closed, closer, warned>>
    BY <1>13, MessageMoves
  <2>2. ASSUME NEW k \in 1..Len(InFlight), Emptied(QueueOf(InFlight[k]))
        PROVE  Emptied(QueueOf(InFlight[k]))'
    <3>1. PICK q \in Queues : q = QueueOf(InFlight[k])
      BY QueueIs
    <3>2. Emptied(q)'
      BY <1>13, <2>2, <3>1, EmptiedIsStable
    <3> QED BY <2>1, <3>1, <3>2 DEF InFlight, QueueOf
  <2> QED BY <2>1, <2>2 DEF ProcessIndInv, CloseInv, InFlight
<1>14. CASE TickBegins \/ TickEnds
  <2>1. /\ UNCHANGED <<phase, config, closed, closer, warned>>
        /\ \E w \in {"acting", "done"} : where' = [where EXCEPT !["tick"] = w]
    BY <1>14 DEF TickBegins, TickEnds, Keep
  <2>2. ASSUME NEW k \in 1..Len(InFlight), Emptied(QueueOf(InFlight[k]))
        PROVE  Emptied(QueueOf(InFlight[k]))'
    <3>1. PICK q \in Queues : q = QueueOf(InFlight[k]) /\ Running(q) \in {"rq running", "subq running"}
      BY QueueIs
    <3>2. where \in [Messages -> Places]
      BY DEF ProcessIndInv, TypeInv
    <3>3. Emptied(q)'
      BY <2>1, <2>2, <3>1, <3>2 DEF Emptied, Running, Queues
    <3> QED BY <2>1, <3>1, <3>3 DEF InFlight, QueueOf
  <2> QED BY <2>1, <2>2 DEF ProcessIndInv, CloseInv, InFlight
<1>15. CASE UNCHANGED vars
  BY <1>2, <1>15 DEF vars
<1> QED BY <1>3, <1>4, <1>5, <1>6, <1>7, <1>8, <1>9, <1>10, <1>11, <1>12, <1>13, <1>14, <1>15,
           StepSplit DEF ProcessStep, Main

LEMMA StopStep ==
  ASSUME ConfigOK, ProcessIndInv, [Next]_vars
  PROVE  StopInv'
<1> USE DEF ProcessIndInv, StopInv, Down, Messaging, Quiet, Stoppables
<1>1. Len(Stoppables) \in Nat /\ at \in Nat
  BY DEF TypeInv, Lists
<1>2. ASSUME UNCHANGED <<phase, at, config, up>>, where'["tick"] = "acting" => where["tick"] = "acting"
      PROVE  StopInv'
  BY <1>2
<1>3. CASE ProcessBlock \/ BuildFailed \/ Built \/ Discard
  BY <1>3 DEF ProcessBlock, BuildFailed, Built, Discard
<1>4. CASE StartOne \/ StartTerminal \/ Started \/ Signal
  BY <1>4 DEF StartOne, StartTerminal, Started, Signal
<1>5. CASE DrainOne \/ Drained \/ PreStopOne \/ PreStopReturns
  BY <1>5 DEF DrainOne, Drained, PreStopOne, PreStopReturns
<1>6. CASE PreStopped \/ CloseQueues
  <2>1. phase' = "quiesce" \/ (phase' = "stop" /\ at' = Len(Stoppables) /\ UNCHANGED config)
    BY <1>6 DEF PreStopped, CloseQueues
  <2> QED BY <1>1, <2>1
<1>7. CASE PendingWork \/ Quiesce
  BY <1>7 DEF PendingWork, Quiesce
<1>8. CASE StopOne
  BY <1>1, <1>8 DEF StopOne
<1>9. CASE Exit
  BY <1>1, <1>9 DEF Exit
<1>10. CASE Deadline
  BY <1>2, <1>10 DEF Deadline
<1>11. CASE CloseStep
  BY <1>2, <1>11, Zenon DEF CloseStep
<1>12. ASSUME NEW m \in Messages, Receive(m) \/ Work(m) PROVE StopInv'
  <2>1. /\ UNCHANGED <<phase, at, config, up>>
        /\ \E p \in Places : MovesTo(m, p)
    BY <1>12, MessageMoves
  <2>2. PICK p \in Places : MovesTo(m, p)
    BY <2>1
  <2>3. p # "acting" /\ where' = [where EXCEPT ![m] = p] /\ where \in [Messages -> Places]
        /\ "tick" \in Messages
    BY <2>2 DEF MovesTo, TypeInv, Messages, Sent
  <2> QED BY <1>2, <2>1, <2>3
<1>13. CASE UNCHANGED vars
  BY <1>2, <1>13 DEF vars
<1>14. CASE TickBegins
  <2>1. UNCHANGED <<phase, at, config, up>> /\ "ticker" \in up
    BY <1>14 DEF TickBegins, Keep
  <2> QED BY <2>1
<1>15. CASE TickEnds
  <2>1. UNCHANGED <<phase, at, config, up>> /\ where' = [where EXCEPT !["tick"] = "done"]
    BY <1>15 DEF TickEnds, Keep
  <2>2. where'["tick"] = "done"
    BY <2>1 DEF TypeInv, Messages, Sent
  <2> QED BY <1>2, <2>1, <2>2
<1> QED BY <1>3, <1>4, <1>5, <1>6, <1>7, <1>8, <1>9, <1>10, <1>11, <1>12, <1>13, <1>14, <1>15,
           StepSplit DEF ProcessStep, Main

\* A settle that is refused, or a delivery a closed queue turns away, would be
\* of a message still on its way, and there is none unless shutdown said so.
LEMMA RefusedStep ==
  ASSUME ConfigOK, ProcessIndInv, [Next]_vars
  PROVE  RefusedOnlyWarned'
<1> USE DEF ProcessIndInv, RefusedOnlyWarned
<1>1. CASE ProcessStep
  <2>1. settled' = settled
    BY <1>1, ProcessFrame
  <2>2. warned => warned'
    BY <1>1 DEF ProcessStep, Main, ProcessBlock, BuildFailed, Built, Discard, StartOne, StartTerminal,
       Started, Signal, DrainOne, Drained, PreStopOne, PreStopped, PendingWork, Quiesce, CloseQueues,
       StopOne, Exit, Deadline, CloseStep, PreStopReturns, TickBegins, TickEnds, Keep, Quiet
  <2> QED BY <2>1, <2>2
<1>2. ASSUME Alive, NEW m \in Messages, Receive(m) \/ Work(m) PROVE RefusedOnlyWarned'
  <2>1. PICK p \in Places : MovesTo(m, p)
    BY <1>2, MessageMoves
  <2>2. UNCHANGED <<phase, up, closed, accepting, warned>>
    BY <1>2, MessageMoves
  <2>3. settled \in [Rcv -> {"no", "acked", "nacked", "refused"}]
    BY DEF TypeInv
  <2>4. \A n \in Rcv : n # m => settled'[n] = settled[n]
    BY <2>1, <2>3 DEF MovesTo
  <2>5. ASSUME m \in Rcv, ~warned, settled'[m] \in {"nacked", "refused"} PROVE FALSE
    <3>1. phase \in {"close", "stop", "exited"} => AtRest(m) /\ m \notin accepting
      BY <2>5 DEF QuiesceInv, DrainInv
    <3>2. settled'[m] # settled[m]
      BY <2>5
    <3>3. where[m] \in {"source", "bus running", "subq running"} /\ where[m] \notin {"done", "refused"}
      BY <2>1, <3>2 DEF MovesTo
    <3>4. settled[m] = "no"
      BY <2>3, <2>5, <3>3 DEF MessageInv
    <3>5. CASE where[m] = "source"
      <4>1. m \in accepting /\ "rq" \in closed
        BY <2>1, <3>2, <3>5 DEF MovesTo
      <4>2. phase \in {"close", "stop", "exited"}
        BY <4>1 DEF CloseInv
      <4> QED BY <3>1, <4>1, <4>2
    <3>6. CASE where[m] \in {"bus running", "subq running"}
      <4>1. /\ p = "done" \/ "subq" \in closed
            /\ settled' = [settled EXCEPT ![m] = SettledAs(m, p)]
        BY <2>1, <2>5, <3>2, <3>6 DEF MovesTo
      <4>2. m \notin up \/ "subq" \in closed
        BY <2>3, <2>5, <4>1 DEF SettledAs
      <4>3. phase # "discarded"
        BY <1>2 DEF Alive
      <4>4. phase \in {"close", "stop", "exited"}
        BY <2>5, <3>6, <4>2, <4>3 DEF CloseInv, MessageInv, TypeInv, Phases
      <4> QED BY <3>1, <3>4, <3>6, <4>4 DEF AtRest
    <3> QED BY <3>3, <3>5, <3>6
  <2> QED BY <2>2, <2>4, <2>5
<1>3. CASE UNCHANGED vars
  BY <1>3 DEF vars
<1> QED BY <1>1, <1>2, <1>3 DEF Next, ProcessStep

-----------------------------------------------------------------------------
(* The theorems.                                                           *)

\* The inductive invariant holds for every configuration.
THEOREM ProcessInvariance == ConfigOK /\ Spec => []ProcessIndInv
<1> SUFFICES ASSUME ConfigOK PROVE Spec => []ProcessIndInv
  OBVIOUS
<1>1. Init => ProcessIndInv
  BY ProcessInitInd
<1>2. ProcessIndInv /\ [Next]_vars => ProcessIndInv'
  <2> SUFFICES ASSUME ProcessIndInv, [Next]_vars PROVE ProcessIndInv'
    OBVIOUS
  <2>1. TypeInv' /\ BuildInv' /\ MessageInv'
    BY TypeStep, BuildStep, MessageStep
  <2>2. DrainInv' /\ QuiesceInv' /\ CloseInv' /\ StopInv' /\ RefusedOnlyWarned'
    BY DrainStep, QuiesceStep, CloseStepInv, StopStep, RefusedStep
  <2> QED BY <2>1, <2>2 DEF ProcessIndInv
<1> QED BY <1>1, <1>2, PTL DEF Spec

\* An acknowledgement meets a closed transport, and a delivery a closed queue,
\* only after shutdown warned that it goes on with work unfinished: two
\* readings of the holders, taken one holder at a time while messages move, are
\* enough for what an acknowledging receiver delivered (quiesce, pendingWork).
THEOREM NoSilentRefusal == ConfigOK /\ Spec => []RefusedOnlyWarned
<1>1. ProcessIndInv => RefusedOnlyWarned
  BY DEF ProcessIndInv
<1> QED BY <1>1, ProcessInvariance, PTL

\* The closing loop has passed every holder that closes a queue.
LEMMA DrainedState ==
  ASSUME ConfigOK, ProcessIndInv PROVE QueuesEmptyAtStop
<1>1. Len(InFlight) \in Nat
  BY DEF ProcessIndInv, TypeInv, Lists, InFlight
<1>2. Queued \subseteq Rcv
  BY DEF Queued, Rcv, ConfigOK
<1>3. \A k \in 1..Len(InFlight) : k > 0
  BY <1>1
<1> SUFFICES ASSUME phase \in {"stop", "exited"}, ~warned, NEW m \in Messages,
                    where[m] \in {"rq", "rq running", "subq", "subq running"}
             PROVE  FALSE
  BY DEF QueuesEmptyAtStop
<1>4. closer = 0
  BY DEF ProcessIndInv, CloseInv
<1>5. ASSUME NEW n, NEW pend, InList(InFlight, Holder(n, pend, TRUE))
      PROVE  Emptied(IF n = "subq" THEN "subq" ELSE "rq")
  <2>1. InFlight \in Seq(Holders)
    BY DEF ProcessIndInv, TypeInv, Lists, InFlight
  <2>2. PICK k \in 1..Len(InFlight) : InFlight[k] = Holder(n, pend, TRUE)
    BY <1>5, <2>1 DEF InList
  <2>3. Holder(n, pend, TRUE).closes /\ Holder(n, pend, TRUE).name = n
    BY DEF Holder
  <2>4. InFlight[k].closes /\ InFlight[k].name = n
    BY <2>2, <2>3
  <2>5. k > closer
    BY <1>4, <1>3
  <2>6. Emptied(QueueOf(InFlight[k]))
    BY <2>4, <2>5 DEF ProcessIndInv, CloseInv
  <2> QED BY <2>4, <2>6 DEF QueueOf
<1>6. /\ \A n \in Queued : InList(InFlight, Holder(n, {"rq"}, TRUE))
      /\ SubQueue => InList(InFlight, Holder("subq", {"subq"}, TRUE))
  BY AllRegistered DEF ProcessIndInv
<1>7. CASE where[m] \in {"rq", "rq running"}
  <2>1. m \in Queued
    BY <1>7 DEF ProcessIndInv, MessageInv
  <2>2. m # "subq"
    BY <2>1, <1>2 DEF ConfigOK
  <2>3. Emptied("rq")
    BY <1>5, <1>6, <2>1, <2>2
  <2> QED BY <1>7, <2>3, RunningIs DEF Emptied
<1>8. CASE where[m] \in {"subq", "subq running"}
  <2>1. SubQueue
    BY <1>8 DEF ProcessIndInv, MessageInv
  <2>2. Emptied("subq")
    BY <1>5, <1>6, <2>1
  <2> QED BY <1>8, <2>2, RunningIs DEF Emptied
<1> QED BY <1>7, <1>8

\* Unless the log says so, no queue holds or runs a message it accepted when
\* the transports begin to stop (closeQueues).
THEOREM QueuesDrained == ConfigOK /\ Spec => []QueuesEmptyAtStop
<1> SUFFICES ASSUME ConfigOK PROVE Spec => []QueuesEmptyAtStop
  OBVIOUS
<1>1. ProcessIndInv => QueuesEmptyAtStop
  BY DrainedState
<1>2. Spec => []ProcessIndInv
  BY ProcessInvariance
<1> QED BY <1>1, <1>2, PTL

\* Every transport is among the Stoppables the stop loop has passed.
LEMMA StoppedState ==
  ASSUME ConfigOK, ProcessIndInv PROVE NothingLeftRunning
<1>1. phase = "discarded" => up \subseteq Queues
  BY DEF ProcessIndInv, BuildInv
<1>2. ASSUME phase = "exited", NEW m \in Halted PROVE Down(m)
  <2>1. InList(Stoppables, m)
    BY <1>2, AllRegistered DEF ProcessIndInv
  <2> QED BY <1>2, <2>1 DEF ProcessIndInv, StopInv, InList
<1>3. Rcv \cup {"plain", "ticker"} = Halted /\ "ticker" \in Halted
  BY DEF Halted, Transports
<1> QED BY <1>1, <1>2, <1>3 DEF NothingLeftRunning, Down

\* Whatever point startAll had reached, and whatever failed, a process that
\* exits has stopped every transport and every trigger's goroutine, out of its
\* action, and a discarded build runs none and no bus (shutdown, Discard).
THEOREM AllStopped == ConfigOK /\ Spec => []NothingLeftRunning
<1> SUFFICES ASSUME ConfigOK PROVE Spec => []NothingLeftRunning
  OBVIOUS
<1>1. ProcessIndInv => NothingLeftRunning
  BY StoppedState
<1>2. Spec => []ProcessIndInv
  BY ProcessInvariance
<1> QED BY <1>1, <1>2, PTL
=============================================================================
