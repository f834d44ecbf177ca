----------------------------- MODULE LineEditor -----------------------------
(***************************************************************************)
(* The line editor (editors/line/line.go, lock_unix.go): calls that edit   *)
(* one file, each through a temporary file that is renamed over it, with   *)
(* an optional advisory lock, an optional hard-link backup, and a process  *)
(* that may be killed between any two steps of a call.                     *)
(*                                                                         *)
(* A file is the sequence of its lines; a line is a model value and a      *)
(* pattern the set of lines it matches.  What replace, abort and when give *)
(* for a line is part of the rule; any expression may also fail.  The      *)
(* accumulated state is not modelled, only that update_state may fail.     *)
(***************************************************************************)
EXTENDS Naturals, Sequences, FiniteSets

CONSTANTS Calls,       \* concurrent calls of editors
          Editors,     \* [rules, before, after, beforeInc, afterInc, backup, create, lock, mode, ok]
          Files,       \* contents the file may have at first: [there, lines]
          MaxCrashes

VARIABLES editor,      \* the editor each call belongs to
          pc,          \* how far each call has come
          base,        \* what each call read: [there, lines, version]
          work,        \* each call's result so far: [out, changed]
          temp,        \* the calls whose temporary file exists
          file,        \* the file: [there, lines, perm]
          backup,      \* the backup: [there, lines]
          version,     \* how often the file has been replaced
          lock,        \* the call that holds the lock file, or NoCall
          result,      \* what each call returned
          crashes, lost

vars == <<editor, pc, base, work, temp, file, backup, version, lock, result, crashes, lost>>

NoCall == "nobody"
Absent == [there |-> FALSE, lines |-> << >>, version |-> 0]
NoWork == [out |-> << >>, changed |-> FALSE]

(***************************************************************************)
(* The rules over the lines of the input.                                  *)
(***************************************************************************)
\* The rule takes the line: it has matches left, its pattern matches and its
\* when expression does not say no.
Takes(r, n, line) == (r.max = 0 \/ n < r.max) /\ line \in r.hits /\ line \in r.when

\* The first rule that takes the line, 0 when none does.
Winner(rules, counts, line) ==
    LET W == {k \in 1..Len(rules) : Takes(rules[k], counts[k], line)}
    IN  IF W = {} THEN 0 ELSE CHOOSE k \in W : \A j \in W : k <= j

Output(r, line) == IF r.replaces THEN r.replace ELSE <<line>>

Line(rules, a, line) ==
    LET w == Winner(rules, a.counts, line)
    IN  IF a.aborted THEN a
        ELSE IF w = 0 THEN [a EXCEPT !.out = Append(@, line)]
        ELSE IF line \in rules[w].abort
             THEN [a EXCEPT !.aborted = TRUE, !.counts[w] = @ + 1]
             ELSE [a EXCEPT !.counts[w] = @ + 1,
                            !.out = @ \o Output(rules[w], line),
                            !.changed = @ \/ (Output(rules[w], line) # <<line>> /\ ~rules[w].inc)]

Started(rules) ==
    [out |-> << >>, changed |-> FALSE, aborted |-> FALSE, counts |-> [k \in 1..Len(rules) |-> 0]]

\* The lines one after another.
Lines(rules, lines) ==
    LET After[i \in 0..Len(lines)] ==
            IF i = 0 THEN Started(rules) ELSE Line(rules, After[i - 1], lines[i])
    IN  After[Len(lines)]

\* Broken form: what is required is not checked once the lines are done.
RunWithoutRequired(rules, lines) == Lines(rules, lines)

\* The whole input.  A rule that matched fewer lines than required gives the
\* edit up like an abort.
RunRules(rules, lines) ==
    LET a == Lines(rules, lines)
    IN  [a EXCEPT !.aborted = @ \/ \E k \in 1..Len(rules) : a.counts[k] < rules[k].required]

(***************************************************************************)
(* One call.                                                               *)
(***************************************************************************)
Init ==
    /\ editor \in [Calls -> Editors]
    /\ \E f \in Files : file = [there |-> f.there, lines |-> f.lines, perm |-> "own"]
    /\ pc = [c \in Calls |-> "idle"]
    /\ base = [c \in Calls |-> Absent] /\ work = [c \in Calls |-> NoWork]
    /\ temp = {} /\ backup = [there |-> FALSE, lines |-> << >>] /\ version = 0
    /\ lock = NoCall /\ result = [c \in Calls |-> "none"]
    /\ crashes = 0 /\ lost = FALSE

Goto(c, p) == pc' = [pc EXCEPT ![c] = p]

\* The call returns: the deferred close of the lock file releases the lock.
Returns(c, r) ==
    /\ Goto(c, "done")
    /\ result' = [result EXCEPT ![c] = r]
    /\ lock' = IF lock = c THEN NoCall ELSE lock

Removed(c) == temp' = temp \ {c}
Disk == UNCHANGED <<file, backup, version, lost>>
Same == UNCHANGED <<editor, crashes>>

\* A block that compiles (mode, patterns, write path) gives a function; its
\* call resolves the path inside the write directory and its state first.
Enter(c) ==
    /\ pc[c] = "idle"
    /\ IF ~editor[c].ok THEN Returns(c, "error")
       ELSE /\ Goto(c, IF editor[c].lock THEN "lock" ELSE "open")
            /\ UNCHANGED <<result, lock>>
    /\ UNCHANGED <<base, work, temp>> /\ Disk /\ Same

\* Broken form: the lock is taken without waiting for its holder.
LockFreeAlways == TRUE

LockFree == lock = NoCall

AcquireFileLock(c) ==
    /\ pc[c] = "lock" /\ LockFree
    /\ lock' = c /\ Goto(c, "open")
    /\ UNCHANGED <<base, work, temp, result>> /\ Disk /\ Same

Open(c) ==
    /\ pc[c] = "open"
    /\ IF file.there \/ editor[c].create
       THEN /\ base' = [base EXCEPT ![c] = [there |-> file.there, version |-> version,
                                            lines |-> IF file.there THEN file.lines ELSE << >>]]
            /\ temp' = temp \cup {c} /\ Goto(c, "run") /\ UNCHANGED <<result, lock>>
       ELSE Returns(c, "error") /\ UNCHANGED <<base, temp>>
    /\ UNCHANGED work /\ Disk /\ Same

\* The rules, then after and before.  A soft abort answers false, a failing
\* expression an error; either removes the temporary file.
Run(c) ==
    /\ pc[c] = "run"
    /\ LET e == editor[c]
           a == RunRules(e.rules, base[c].lines)
       IN  IF a.aborted
           THEN Returns(c, "false") /\ Removed(c) /\ UNCHANGED work
           ELSE /\ work' = [work EXCEPT ![c] =
                     [out |-> e.before \o a.out \o e.after,
                      changed |-> a.changed \/ (e.after # << >> /\ ~e.afterInc)
                                            \/ (e.before # << >> /\ ~e.beforeInc)]]
                /\ Goto(c, "decide") /\ UNCHANGED <<result, lock, temp>>
    /\ UNCHANGED base /\ Disk /\ Same

RunFails(c) ==
    /\ pc[c] = "run"
    /\ Returns(c, "error") /\ Removed(c)
    /\ UNCHANGED <<base, work>> /\ Disk /\ Same

\* Broken form: an unchanged result is written all the same.
AlwaysWrites(c) == TRUE

Writes(c) == work[c].changed \/ ~base[c].there

Decide(c) ==
    /\ pc[c] = "decide"
    /\ IF ~Writes(c) THEN Returns(c, "false") /\ Removed(c)
       ELSE /\ Goto(c, IF editor[c].backup /\ base[c].there THEN "unlink" ELSE "rename")
            /\ UNCHANGED <<result, lock, temp>>
    /\ UNCHANGED <<base, work>> /\ Disk /\ Same

Unlink(c) ==
    /\ pc[c] = "unlink"
    /\ backup' = [there |-> FALSE, lines |-> << >>]
    /\ Goto(c, "link")
    /\ UNCHANGED <<base, work, temp, file, version, lost, result, lock>> /\ Same

\* Linking fails when another call has linked the backup meanwhile.
Link(c) ==
    /\ pc[c] = "link"
    /\ IF backup.there \/ ~file.there
       THEN Returns(c, "error") /\ Removed(c) /\ UNCHANGED backup
       ELSE /\ backup' = [there |-> TRUE, lines |-> file.lines]
            /\ Goto(c, "rename") /\ UNCHANGED <<result, lock, temp>>
    /\ UNCHANGED <<base, work, file, version, lost>> /\ Same

\* The rename replaces the file in one step.  A before block that is not
\* empty went through a second temporary file, which has its own permissions.
Rename(c) ==
    /\ pc[c] = "rename"
    /\ file' = [there |-> TRUE, lines |-> work[c].out,
                perm |-> IF base[c].there /\ editor[c].before = << >> THEN file.perm ELSE "temp"]
    /\ version' = version + 1
    /\ lost' = (lost \/ base[c].version # version)
    /\ Removed(c) /\ Returns(c, "true")
    /\ UNCHANGED <<base, work, backup>> /\ Same

\* The process is killed: the lock is freed, the temporary file stays behind.
Crash(c) ==
    /\ pc[c] \notin {"idle", "done"} /\ crashes < MaxCrashes
    /\ crashes' = crashes + 1
    /\ Goto(c, "done")
    /\ result' = [result EXCEPT ![c] = "killed"]
    /\ lock' = IF lock = c THEN NoCall ELSE lock
    /\ UNCHANGED <<editor, base, work, temp>> /\ Disk

\* String mode runs the same rules in memory: the whole call is one step.
StringMode(c) ==
    /\ pc[c] = "idle" /\ editor[c].mode = "string"
    /\ Returns(c, IF RunRules(editor[c].rules, << >>).aborted THEN "error" ELSE "string")
    /\ UNCHANGED <<base, work, temp>> /\ Disk /\ Same

Step(c) ==
    \/ editor[c].mode = "file" /\ Enter(c)
    \/ StringMode(c) \/ AcquireFileLock(c) \/ Open(c) \/ Run(c) \/ RunFails(c)
    \/ Decide(c) \/ Unlink(c) \/ Link(c) \/ Rename(c)

AllDone == \A c \in Calls : pc[c] = "done"

Next ==
    \/ \E c \in Calls : Step(c) \/ Crash(c)
    \/ AllDone /\ UNCHANGED vars

Spec == Init /\ [][Next]_vars

-----------------------------------------------------------------------------
TypeOK ==
    /\ temp \subseteq Calls /\ lock \in Calls \cup {NoCall}
    /\ version <= Cardinality(Calls)
    /\ \A c \in Calls : /\ pc[c] \in {"idle", "lock", "open", "run", "decide", "unlink",
                                      "link", "rename", "done"}
                        /\ result[c] \in {"none", "true", "false", "error", "killed", "string"}

\* When every editor of the file locks, no edit overwrites one made after it
\* read the file, kills included (line.go:626, lock_unix.go:17).
LockedNothingLost == (\A c \in Calls : editor[c].lock) => ~lost

\* The file is replaced only by a call that answers true, and then as a whole:
\* its content is always a whole first content or a whole result (line.go:786).
WholeOrUntouched ==
    /\ version = Cardinality({c \in Calls : result[c] = "true"})
    /\ version > 0 => \E c \in Calls : result[c] = "true" /\ file.lines = work[c].out

\* Every way out of a call but a kill removes its temporary file
\* (line.go:656, :770-788).
TempsRemoved == \A c \in temp : pc[c] # "done" \/ result[c] = "killed"

\* An edit that answered true and makes a backup leaves, when editors lock, the
\* content it was based on in the backup (line.go:776).
BackupIsBase ==
    \A c \in Calls : /\ result[c] = "true" /\ editor[c].backup /\ base[c].there
                     /\ \A d \in Calls : editor[d].lock /\ (d # c => pc[d] \in {"idle", "lock"})
                     => backup = [there |-> TRUE, lines |-> base[c].lines]

\* A written result keeps to every rule's limits on the lines it read: at
\* least the required number of lines is left matched, and a result that
\* differs only by incidental edits is never written over an existing file
\* (line.go:506, :598, :765).
EditsJustified ==
    \A c \in Calls : result[c] = "true" /\ base[c].there =>
       LET e == editor[c]
           plain == [k \in 1..Len(e.rules) |->
                       IF e.rules[k].inc THEN [e.rules[k] EXCEPT !.replaces = FALSE] ELSE e.rules[k]]
       IN  /\ \A k \in 1..Len(e.rules) :
                 Cardinality({i \in 1..Len(base[c].lines) : base[c].lines[i] \in e.rules[k].hits})
                    >= e.rules[k].required
           /\ \/ RunRules(plain, base[c].lines).out # base[c].lines
              \/ ~e.beforeInc /\ e.before # << >>
              \/ ~e.afterInc /\ e.after # << >>
=============================================================================
