------------------------------ MODULE Watchdog ------------------------------
(***************************************************************************)
(* trigger "watchdog": triggers/watchdog/watchdog.go.                      *)
(*                                                                         *)
(* One goroutine runs the countdown; any number of goroutines feed it.  A  *)
(* feed resets missCount under t.mu and, after the unlock, leaves a token  *)
(* in setCh, a channel of capacity one that is never waited for.  When     *)
(* several cases of a select are ready the runtime picks any of them.      *)
(***************************************************************************)
EXTENDS Integers

CONSTANTS
  Window, InitialGrace,  \* in ticks; a grace of 0 means the window
  Repeat,                \* repeat
  MaxMisses,             \* max_misses; 0 means unlimited
  HasStopWhen,           \* stop_when is configured
  ActionFails,           \* the action may end in an error
  Feeders,               \* goroutines that call set(), reset() or OnChange
  Prompt,                \* TRUE: a ready goroutine runs before time passes
  MaxCount               \* bound: misses counted when max_misses is unlimited

ASSUME WatchdogAssumption ==
  /\ Window \in Nat \ {0} /\ InitialGrace \in Nat
  /\ MaxMisses \in Nat /\ MaxCount \in Nat
  /\ Repeat \in BOOLEAN /\ HasStopWhen \in BOOLEAN /\ ActionFails \in BOOLEAN
  /\ Prompt \in BOOLEAN

VARIABLES
  at,         \* where the run goroutine stands
  left,       \* ticks until the timer fires; NoCountdown when it is not running
  missCount,  \* under t.mu
  miss,       \* fire's local copy of it
  lastSet,    \* whether lastSet is not the zero time
  setCh,      \* a token is in the channel
  stopping,   \* stopCh is closed
  feeds,      \* feeders between the unlock and the send
  age         \* auxiliary: ticks since the last feed or re-arming

vars == <<at, left, missCount, miss, lastSet, setCh, stopping, feeds, age>>

NoCountdown == -1
Place == {"unborn", "select", "firing", "dormant", "stopped", "recheck", "exited"}

\* Every variable keeps its type: the goroutine counts down only where it waits
\* for the timer, and no countdown exceeds the longer of window and grace.
TypeOK ==
  /\ at \in Place
  /\ left \in {NoCountdown} \cup 0..(IF InitialGrace > Window THEN InitialGrace ELSE Window)
  /\ at = "select" => left # NoCountdown
  /\ at \in {"firing", "dormant", "stopped", "recheck"} => left = NoCountdown
  /\ missCount \in Nat /\ miss \in Nat
  /\ lastSet \in BOOLEAN /\ setCh \in BOOLEAN /\ stopping \in BOOLEAN
  /\ feeds \in [Feeders -> BOOLEAN]
  /\ age \in 0..Window

-----------------------------------------------------------------------------
\* The goroutine has something to do other than wait for time to pass.
Ready == \/ at \in {"firing", "recheck"}
         \/ at = "select" /\ (left = 0 \/ setCh \/ stopping)
         \/ at \in {"dormant", "stopped"} /\ (setCh \/ stopping)

\* Set (and OnChange, which calls it) and Reset, first half: what is under t.mu.
\* Only Reset returns lastSet to the zero time.
Feed(f, set) ==
  /\ ~feeds[f]
  /\ Prompt => ~Ready /\ \A g \in Feeders : ~feeds[g]
  /\ missCount' = 0
  /\ lastSet' = set
  /\ age' = 0
  /\ feeds' = [feeds EXCEPT ![f] = TRUE]
  /\ UNCHANGED <<at, left, miss, setCh, stopping>>

\* Second half: the send, which does nothing when the channel is full.
Signal(f) ==
  /\ feeds[f]
  /\ feeds' = [feeds EXCEPT ![f] = FALSE]
  /\ setCh' = TRUE
  /\ UNCHANGED <<at, left, missCount, miss, lastSet, stopping, age>>

PostStart ==
  /\ at = "unborn"
  /\ at' = "select"
  /\ left' = IF InitialGrace = 0 THEN Window ELSE InitialGrace
  /\ age' = 0
  /\ UNCHANGED <<missCount, miss, lastSet, setCh, stopping, feeds>>

\* Stop closes stopCh; it returns when the goroutine has exited.
Stop ==
  /\ ~stopping
  /\ at # "unborn"
  /\ stopping' = TRUE
  /\ UNCHANGED <<at, left, missCount, miss, lastSet, setCh, feeds, age>>

-----------------------------------------------------------------------------
(* The run goroutine.                                                      *)

\* The timer's case of the select, and fire() up to the action.
Expire ==
  /\ at = "select"
  /\ left = 0
  /\ at' = "firing"
  /\ left' = NoCountdown
  /\ missCount' = missCount + 1
  /\ miss' = missCount'
  /\ MaxMisses = 0 => missCount < MaxCount
  /\ UNCHANGED <<lastSet, setCh, stopping, feeds, age>>

\* What fire() returns: an action that ends in an error never stops the trigger.
FireResult ==
  (IF ActionFails THEN {FALSE} ELSE {})
    \cup (IF MaxMisses > 0 /\ miss >= MaxMisses THEN {TRUE}
          ELSE IF HasStopWhen THEN BOOLEAN ELSE {FALSE})

Rearm == left' = Window /\ age' = 0

\* Broken form: the trigger re-arms whatever repeat says.
AlwaysRepeat ==
  /\ at = "firing"
  /\ \E stop \in FireResult :
       IF stop THEN at' = "stopped" /\ UNCHANGED <<left, age>>
               ELSE at' = "select" /\ Rearm
  /\ UNCHANGED <<missCount, miss, lastSet, setCh, stopping, feeds>>
\* The action is over: auto-stop, go dormant, or count down again.
FireEnds ==
  /\ at = "firing"
  /\ \E stop \in FireResult :
       IF ~stop /\ Repeat
         THEN at' = "select" /\ Rearm
         ELSE /\ at' = (IF stop THEN "stopped" ELSE "dormant")
              /\ UNCHANGED <<left, age>>
  /\ UNCHANGED <<missCount, miss, lastSet, setCh, stopping, feeds>>

\* Broken form: the countdown goes on where it was.
FedKeepsCountdown ==
  /\ at = "select" /\ setCh
  /\ setCh' = FALSE
  /\ UNCHANGED <<at, left, missCount, miss, lastSet, stopping, feeds, age>>
\* Fed while armed: safeTimerReset, which leaves no stale expiry behind.
FedWhileArmed ==
  /\ at = "select" /\ setCh
  /\ setCh' = FALSE
  /\ Rearm
  /\ UNCHANGED <<at, missCount, miss, lastSet, stopping, feeds>>

FedWhileDormant ==
  /\ at = "dormant" /\ setCh
  /\ setCh' = FALSE
  /\ at' = "select"
  /\ Rearm
  /\ UNCHANGED <<missCount, miss, lastSet, stopping, feeds>>

\* waitForRevival receives a token ...
FedWhileStopped ==
  /\ at = "stopped" /\ setCh
  /\ setCh' = FALSE
  /\ at' = "recheck"
  /\ UNCHANGED <<left, missCount, miss, lastSet, stopping, feeds, age>>

\* ... and shouldRemainStopped decides by the state it finds then.
ShouldRemainStopped ==
  /\ at = "recheck"
  /\ \E stays \in IF MaxMisses > 0 /\ missCount >= MaxMisses THEN {TRUE}
                  ELSE IF HasStopWhen THEN BOOLEAN ELSE {FALSE} :
       IF stays THEN at' = "stopped" /\ UNCHANGED <<left, age>>
                ELSE at' = "select" /\ Rearm
  /\ UNCHANGED <<missCount, miss, lastSet, setCh, stopping, feeds>>

\* Broken form: only the countdown listens to stopCh.
ExitWhileArmed ==
  /\ stopping /\ at = "select"
  /\ at' = "exited"
  /\ UNCHANGED <<left, missCount, miss, lastSet, setCh, stopping, feeds, age>>
\* The stopCh case of each of the three selects.
Exit ==
  /\ stopping /\ at \in {"select", "dormant", "stopped"}
  /\ at' = "exited"
  /\ UNCHANGED <<left, missCount, miss, lastSet, setCh, stopping, feeds, age>>

Tick ==
  /\ left # 0
  /\ at # "exited"
  /\ Prompt => ~Ready /\ \A f \in Feeders : ~feeds[f]
  /\ left' = IF left = NoCountdown THEN NoCountdown ELSE left - 1
  /\ age' = IF age < Window THEN age + 1 ELSE age
  /\ UNCHANGED <<at, missCount, miss, lastSet, setCh, stopping, feeds>>

Init ==
  /\ at = "unborn" /\ left = NoCountdown
  /\ missCount = 0 /\ miss = 0 /\ lastSet = FALSE
  /\ setCh = FALSE /\ stopping = FALSE
  /\ feeds = [f \in Feeders |-> FALSE]
  /\ age = 0

Run == \/ Expire \/ FireEnds \/ FedWhileArmed \/ FedWhileDormant
       \/ FedWhileStopped \/ ShouldRemainStopped \/ Exit

Next ==
  \/ \E f \in Feeders : Signal(f) \/ \E set \in BOOLEAN : Feed(f, set)
  \/ PostStart \/ Stop
  \/ Run
  \/ Tick

Spec == Init /\ [][Next]_vars

\* The goroutine is scheduled when it can run, so the action returns, and a
\* select does not prefer the token to a closed stopCh for ever.
FairSpec == Spec /\ WF_vars(Run) /\ SF_vars(Exit)

-----------------------------------------------------------------------------
\* No feed is lost.  While the goroutine waits to be fed, a missCount of zero
\* means that somebody has fed it since it fired, and then the token that wakes
\* it is in the channel or about to be: whatever the order in which feeders reset
\* the count and signal, fire() counts, and waitForRevival reads.
\* (stop_when may keep a fed watchdog stopped.)
NoLostFeed ==
  ~HasStopWhen /\ at \in {"dormant", "stopped"} /\ missCount = 0
    => setCh \/ \E f \in Feeders : feeds[f]

\* "Auto-stop after this many consecutive fires": max_misses caps them.
MissesCapped == MaxMisses > 0 => missCount <= MaxMisses

\* An action property, "Fire if not fed within this duration": not before a whole window has passed
\* since the last feed or re-arming.  (initial_grace may be shorter.)
FiresUnfed == Expire => age >= IF InitialGrace = 0 THEN Window ELSE 1

\* repeat = false: "After firing, the watchdog goes dormant and waits for the
\* next set() before re-arming", so that there is one fire per feed.
FiresOncePerFeed == ~Repeat => missCount <= 1

\* Stop returns: the goroutine exits from wherever it waits.
StopReturns == stopping ~> at = "exited"
=============================================================================
