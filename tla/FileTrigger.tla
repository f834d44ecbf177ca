---------------------------- MODULE FileTrigger ----------------------------
(***************************************************************************)
(* `trigger "file"` (triggers/file/file.go): an event loop reads the       *)
(* notifications of the watched directories, filters them, and runs the    *)
(* action for each in a goroutine of its own, at once or when the path has *)
(* been quiet for `debounce`.                                              *)
(*                                                                         *)
(* Every path that is debounced has one entry in each of two maps, its     *)
(* timer and its last event.  A timer whose callback is already waiting    *)
(* for the lock can still be Reset, and then runs the callback twice.      *)
(***************************************************************************)
EXTENDS Naturals, Sequences, FiniteSets, SequencesExt

CONSTANTS Files,        \* files in the watched directory
          SubFiles,     \* files in a directory made later
          MaxEvents,    \* notifications in a behaviour
          MaxTimers     \* timers a path may be given

OpToEvent == <<"create", "write">>   \* the order in which one notification is taken apart
None == "none"
Root == "root"
Sub == "sub"
Paths == Files \cup SubFiles \cup {Sub}

VARIABLES body,      \* the decoded block
          started,   \* how far Start and PostStart have come
          watched,   \* directories the watcher has been given
          queue,     \* notifications not read yet
          timerOf,   \* debounceT: the timer of a path
          eventOf,   \* debounceE: its last event
          armed,     \* per path: timers that will fire
          waiting,   \* per path: callbacks that wait for the lock
          inflight,  \* action goroutines
          loop, stop, events

vars == <<body, started, watched, queue, timerOf, eventOf, armed, waiting, inflight, loop, stop, events>>

-----------------------------------------------------------------------------
\* processFileTrigger: event names must be known, a filter must be a pattern.
KnownEvents == {"create", "write", "delete", "rename", "chmod"}
Bodies == [events : SUBSET {"create", "write", "bogus"}, filter : {"", "bad", "file"}, debounce : BOOLEAN,
           recursive : BOOLEAN, existing : BOOLEAN, disabled : BOOLEAN]
ProcessFileTrigger(b) == b.events \subseteq KnownEvents /\ b.filter # "bad"

\* maybeDispatch's filters.
Matches(p) == body.filter = "" \/ p \in Files
Accepted(n) == IF Matches(n.path) THEN SelectSeq(OpToEvent, LAMBDA e : e \in n.ops \cap body.events) ELSE <<>>

-----------------------------------------------------------------------------
(* maybeDispatch.                                                          *)

Fresh(p) == CHOOSE t \in 1..MaxTimers : t \notin armed[p] /\ t # timerOf[p]

\* With a debounce the last event of the path is remembered, and its timer
\* started or started again.
Debounced(p, evs) ==
  IF evs = <<>> THEN UNCHANGED <<timerOf, eventOf, armed>>
  ELSE /\ eventOf' = [eventOf EXCEPT ![p] = Last(evs)]
       /\ LET t == IF timerOf[p] # 0 THEN timerOf[p] ELSE Fresh(p)
          IN  timerOf' = [timerOf EXCEPT ![p] = t] /\ armed' = [armed EXCEPT ![p] = @ \cup {t}]

Dispatched(p, evs) ==
  IF body.debounce THEN Debounced(p, evs) /\ UNCHANGED inflight
  ELSE inflight' = inflight + Len(evs) /\ UNCHANGED <<timerOf, eventOf, armed>>

\* A timer fires: its callback waits for the lock.
Launch(p) ==
  /\ \E t \in armed[p] : armed' = [armed EXCEPT ![p] = @ \ {t}]
  /\ waiting' = [waiting EXCEPT ![p] = @ + 1]
  /\ UNCHANGED <<body, started, watched, queue, timerOf, eventOf, inflight, loop, stop, events>>

(* Broken form: the callback drops the timer's entry only. *)
ForgetEvent(p) == [timerOf |-> 0, eventOf |-> eventOf[p]]

Forget(p) == [timerOf |-> 0, eventOf |-> None]

\* The callback takes the event, drops both entries, and starts the action.
DebounceFires(p) ==
  /\ waiting[p] > 0 /\ waiting' = [waiting EXCEPT ![p] = @ - 1]
  /\ timerOf' = [timerOf EXCEPT ![p] = Forget(p).timerOf]
  /\ eventOf' = [eventOf EXCEPT ![p] = Forget(p).eventOf]
  /\ inflight' = inflight + 1
  /\ UNCHANGED <<body, started, watched, queue, armed, loop, stop, events>>

\* dispatch, to its end: skip_when, the action, or an error of either.
Dispatch ==
  /\ inflight > 0 /\ inflight' = inflight - 1
  /\ UNCHANGED <<body, started, watched, queue, timerOf, eventOf, armed, waiting, loop, stop, events>>

-----------------------------------------------------------------------------
(* The event loop.                                                         *)

\* The kernel reports what happens in a watched directory.
Notify ==
  /\ events < MaxEvents /\ events' = events + 1 /\ stop = "no"
  /\ \E p \in Files \cup SubFiles, ops \in SUBSET {"create", "write"} \ {{}} :
       /\ (IF p \in Files THEN Root ELSE Sub) \in watched
       /\ queue' = Append(queue, [path |-> p, ops |-> ops])
  /\ UNCHANGED <<body, started, watched, timerOf, eventOf, armed, waiting, inflight, loop, stop>>

\* A directory is made; its own creation is a notification too.
MakeDirectory ==
  /\ events < MaxEvents /\ events' = events + 1 /\ stop = "no"
  /\ Root \in watched /\ Sub \notin watched
  /\ queue' = Append(queue, [path |-> Sub, ops |-> {"create"}])
  /\ UNCHANGED <<body, started, watched, timerOf, eventOf, armed, waiting, inflight, loop, stop>>

\* handleFsEvent: a new directory is watched first.
HandleFsEvent ==
  /\ loop = "running" /\ queue # <<>> /\ queue' = Tail(queue)
  /\ LET n == Head(queue) IN
       /\ watched' = IF body.recursive /\ n.path = Sub /\ "create" \in n.ops THEN watched \cup {Sub} ELSE watched
       /\ Dispatched(n.path, Accepted(n))
  /\ UNCHANGED <<body, started, waiting, loop, stop, events>>

LoopEnds ==
  /\ loop = "running" /\ stop # "no" /\ loop' = "ended"
  /\ UNCHANGED <<body, started, watched, queue, timerOf, eventOf, armed, waiting, inflight, stop, events>>

-----------------------------------------------------------------------------
(* Start, PostStart and Stop.                                              *)

\* A path that is missing or cannot be watched is an error of Start.
Start ==
  /\ started = "no"
  /\ \/ body.disabled /\ started' = "disabled" /\ UNCHANGED <<watched, loop>>
     \/ ~body.disabled /\ started' = "failed" /\ UNCHANGED <<watched, loop>>
     \/ ~body.disabled /\ started' = "watching" /\ watched' = {Root} /\ loop' = "running"
  /\ UNCHANGED <<body, queue, timerOf, eventOf, armed, waiting, inflight, stop, events>>

\* on_start_existing sends a create for a file that is there, also when the
\* watch could not be set up.
PostStart ==
  /\ started \in {"watching", "disabled", "failed"} /\ started' = "yes"
  /\ IF body.existing /\ ~body.disabled
       THEN \E p \in Files : Dispatched(p, Accepted([path |-> p, ops |-> {"create"}]))
       ELSE UNCHANGED <<timerOf, eventOf, armed, inflight>>
  /\ UNCHANGED <<body, watched, queue, waiting, loop, stop, events>>

\* Stop closes the channel and the watcher and waits for loop and actions,
\* or, when Start made no channel, returns at once.
Stop ==
  /\ started = "yes" /\ stop = "no" /\ watched' = {}
  /\ stop' = IF loop = "running" THEN "waiting" ELSE "returned"
  /\ UNCHANGED <<body, started, queue, timerOf, eventOf, armed, waiting, inflight, loop, events>>

(* Broken form: Stop waits for the event loop only. *)
LoopDone == loop = "ended"

WgDone == loop = "ended" /\ inflight = 0

StopReturns ==
  /\ stop = "waiting" /\ WgDone /\ stop' = "returned"
  /\ UNCHANGED <<body, started, watched, queue, timerOf, eventOf, armed, waiting, inflight, loop, events>>

Init ==
  /\ body \in {b \in Bodies : ProcessFileTrigger(b)}
  /\ started = "no" /\ watched = {} /\ queue = <<>>
  /\ timerOf = [p \in Paths |-> 0] /\ eventOf = [p \in Paths |-> None]
  /\ armed = [p \in Paths |-> {}] /\ waiting = [p \in Paths |-> 0]
  /\ inflight = 0 /\ loop = "none" /\ stop = "no" /\ events = 0

Next ==
  \/ Start \/ PostStart \/ Stop \/ StopReturns \/ LoopEnds
  \/ Notify \/ MakeDirectory \/ HandleFsEvent \/ Dispatch
  \/ \E p \in Paths : Launch(p) \/ DebounceFires(p)

Spec == Init /\ [][Next]_vars

-----------------------------------------------------------------------------
(* Properties.                                                             *)

\* An event that is being debounced is never stranded: whatever the order of
\* events, firings and Resets of the same timer, some timer of its path will
\* fire or a callback is waiting (maybeDispatch and its callback).
EventNotStranded == \A p \in Paths : eventOf[p] # None => armed[p] # {} \/ waiting[p] > 0

\* Without a debounce nothing of a trigger that did start is left running
\* when Stop returns.  (With one, a timer still armed starts an action later.)
StopWaits == stop = "returned" /\ ~body.debounce /\ loop # "none" => inflight = 0
=============================================================================
