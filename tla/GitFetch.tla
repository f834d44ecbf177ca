------------------------------ MODULE GitFetch ------------------------------
(***************************************************************************)
(* A `git` block of a .vinit file (config/git.go, gitfetch.go,             *)
(* gitmaterialize.go): validate it, clone the repository into a temporary  *)
(* directory, and copy what each fetch names into its destination, before  *)
(* the configuration proper is read.                                       *)
(*                                                                         *)
(* The destinations outlive the process.  It may be killed between any two *)
(* steps, any step may fail, and it is started again.  Git itself is       *)
(* external: a clone fails, or holds the commits its depth reaches.  Paths *)
(* are sequences of components; symbolic links are left out, as copyTree   *)
(* leaves them out.                                                        *)
(***************************************************************************)
EXTENDS Naturals, Sequences, FiniteSets, SequencesExt

CONSTANTS
  Blocks,      \* [repo, rev, depth, age, auth, fetches], the block in the file
  Tree,        \* the repository: path -> the files copied from there
  Dirs,        \* destinations
  MaxCrashes   \* bound: times the process is killed

VARIABLES
  block,    \* the block
  phase,    \* where the process is
  temps,    \* temporary directories on disk
  method,   \* the credential the clone used
  at,       \* the fetch under way
  todo,     \* files it has still to copy
  disk,     \* destination -> what is there
  crashes

vars == <<block, phase, temps, method, at, todo, disk, crashes>>

\* A destination is missing, a plain file, or a directory of files: each
\* whole, cut short, or somebody else's.
Missing == [kind |-> "missing"]
Dir(fs) == [kind |-> "dir", files |-> fs]
Plain == [kind |-> "file"]
NoFiles == [f \in {} |-> "whole"]
FilesOf(d) == IF disk[d].kind = "dir" THEN disk[d].files ELSE NoFiles

----------------------------------------------------------------------------
(* Paths.  filepath.Clean, on a relative path of components.               *)

Push(stack, c) ==
  CASE c = "." -> stack
    [] c = ".." /\ stack # <<>> /\ Last(stack) # ".." -> Front(stack)
    [] OTHER -> Append(stack, c)
Clean(path) ==
  LET stack[i \in 0..Len(path)] == IF i = 0 THEN <<>> ELSE Push(stack[i - 1], path[i])
  IN  stack[Len(path)]

\* Broken form: only a leading component is looked at.
FromUncleaned(f) == ~f.absolute /\ (f.from = <<>> \/ Head(f.from) # "..")

\* validateFromPath.
FromValid(f) == ~f.absolute /\ (Clean(f.from) = <<>> \/ Head(Clean(f.from)) # "..")

\* materializeOne: joined to the clone's directory, the path must stay in it.
Inside(f) == LET p == Clean(<<"work">> \o Clean(f.from)) IN p # <<>> /\ Head(p) = "work"

Copies(f) == Tree[Clean(f.from)]

----------------------------------------------------------------------------
(* Validation.                                                             *)

Http == {"token", "username", "password"}
Ssh == {"private_key", "private_key_file", "passphrase", "known_hosts", "insecure"}

\* inferGitTransport.
Transport ==
  CASE block.repo \in {"https", "http"} -> "http"
    [] block.repo \in {"ssh", "scp"}    -> "ssh"
    [] OTHER                            -> "local"

\* validateGitAuth: attributes of the other transport, and pairs that
\* exclude each other.
AuthValid ==
  LET a == block.auth IN
  /\ CASE Transport = "http" -> a \cap Ssh = {}
       [] Transport = "ssh"  -> a \cap Http = {}
       [] OTHER              -> a = {}
  /\ ~("token" \in a /\ a \cap {"username", "password"} # {})
  /\ ~({"private_key", "private_key_file"} \subseteq a)
  /\ ~({"known_hosts", "insecure"} \subseteq a)

Valid ==
  /\ block.repo # "" /\ Cardinality(block.rev) <= 1 /\ block.fetches # <<>>
  /\ \A i \in DOMAIN block.fetches : FromValid(block.fetches[i])
  /\ AuthValid

\* buildAuthMethod, buildSSHAuth and sshHostKeyCallback: without known_hosts
\* and without insecure_ignore_host_key, the user's own file must be there.
AuthMethod(home) ==
  LET a == block.auth IN
  CASE ~block.hasAuth \/ Transport = "local" -> "none"
    [] block.hasAuth /\ Transport = "http" ->
         IF "token" \in a THEN "token"
         ELSE IF a \cap {"username", "password"} # {} THEN "basic" ELSE "none"
    [] block.hasAuth /\ Transport = "ssh" ->
         IF a \cap {"private_key", "private_key_file"} = {} THEN "refused"
         ELSE IF "insecure" \in a THEN "key, any host"
         ELSE IF "known_hosts" \in a \/ home THEN "key, known host" ELSE "refused"

\* cloneRepo and checkoutCommit: the clone of a commit is one of the default
\* branch, as deep as depth says (0: all of it).
Reachable == "commit" \notin block.rev \/ block.depth = 0 \/ block.age < block.depth

----------------------------------------------------------------------------
Init ==
  /\ block \in Blocks
  /\ phase = "off" /\ temps = 0 /\ method = "none" /\ at = 0 /\ todo = {}
  /\ disk \in [Dirs -> {Missing, Plain, Dir(NoFiles), Dir([f \in {"other"} |-> "foreign"])}]
  /\ crashes = 0

\* processGitBlock up to the clone.
Validate ==
  /\ phase = "off"
  /\ phase' = IF block.disabled THEN "done" ELSE IF Valid THEN "clone" ELSE "refused"
  /\ UNCHANGED <<block, temps, method, at, todo, disk, crashes>>

\* MkdirTemp; RemoveAll is deferred to whichever return comes.
MakeTemp ==
  /\ phase = "clone"
  /\ \/ phase' = "cloning" /\ temps' = temps + 1
     \/ phase' = "refused" /\ UNCHANGED temps
  /\ UNCHANGED <<block, method, at, todo, disk, crashes>>

Leaves(p) == phase' = p /\ temps' = temps - 1

Clone ==
  /\ phase = "cloning"
  /\ \E home \in BOOLEAN : LET m == AuthMethod(home) IN
     \/ m # "refused" /\ Reachable
        /\ phase' = "next" /\ method' = m /\ at' = 0 /\ UNCHANGED temps
     \/ Leaves("refused") /\ UNCHANGED <<method, at>>
  /\ UNCHANGED <<block, todo, disk, crashes>>

\* materializeFetches: the next fetch, or the end.
NextFetch ==
  /\ phase = "next"
  /\ IF at = Len(block.fetches) THEN Leaves("done") /\ UNCHANGED at
     ELSE at' = at + 1 /\ phase' = "prepare" /\ UNCHANGED temps
  /\ UNCHANGED <<block, method, todo, disk, crashes>>

Fetch == block.fetches[at]

\* materializeOne's checks of the source, then prepareDest.

\* Broken form: what is there is cleared, whoever put it there.
ClearsAlways(f) == TRUE
MayClear(f) == f.overwrite

\* Broken form: the new files are copied over the old ones.
ReuseKeeps == "copy"
Reuse == "clear"

Prepare ==
  /\ phase = "prepare"
  /\ LET d == disk[Fetch.into] IN
     \/ Leaves("refused") /\ UNCHANGED <<todo, disk>>
     \/ /\ Inside(Fetch) /\ Clean(Fetch.from) \in DOMAIN Tree /\ UNCHANGED temps
        /\ todo' = Copies(Fetch)
        /\ \/ /\ d = Missing \/ (d.kind = "dir" /\ d.files = NoFiles)
              /\ disk' = [disk EXCEPT ![Fetch.into] = Dir(NoFiles)] /\ phase' = "copy"
           \/ /\ d.kind = "dir" /\ d.files # NoFiles /\ MayClear(Fetch)
              /\ phase' = Reuse /\ UNCHANGED disk
  /\ UNCHANGED <<block, method, at, crashes>>

Without(d, f) == [disk EXCEPT ![d].files = [g \in DOMAIN @ \ {f} |-> @[g]]]
With(d, f, v) ==
  [disk EXCEPT ![d].files = [g \in DOMAIN @ \cup {f} |-> IF g = f THEN v ELSE @[g]]]

\* clearDirContents, entry by entry.
Clear ==
  /\ phase = "clear"
  /\ \/ \E f \in DOMAIN FilesOf(Fetch.into) : disk' = Without(Fetch.into, f)
        /\ UNCHANGED <<phase, temps>>
     \/ DOMAIN FilesOf(Fetch.into) = {} /\ phase' = "copy" /\ UNCHANGED <<disk, temps>>
     \/ Leaves("refused") /\ UNCHANGED disk
  /\ UNCHANGED <<block, method, at, todo, crashes>>

\* copyTree and copyFile: a file is created, then filled.
Begun(f) == f \in DOMAIN FilesOf(Fetch.into) /\ FilesOf(Fetch.into)[f] = "cut"
Fills(f) == With(Fetch.into, f, "whole")

Copy ==
  /\ phase = "copy"
  /\ \/ \E f \in todo :
          \/ /\ ~Begun(f)
             /\ disk' = With(Fetch.into, f, "cut") /\ UNCHANGED <<todo, phase, temps>>
          \/ /\ Begun(f)
             /\ disk' = Fills(f) /\ todo' = todo \ {f} /\ UNCHANGED <<phase, temps>>
     \/ todo = {} /\ phase' = "next" /\ UNCHANGED <<disk, todo, temps>>
     \/ Leaves("refused") /\ UNCHANGED <<disk, todo>>
  /\ UNCHANGED <<block, method, at, crashes>>

\* The process dies, and the deferred RemoveAll with it.
Crash ==
  /\ phase \notin {"off", "refused", "done"} /\ crashes < MaxCrashes
  /\ phase' = "off" /\ crashes' = crashes + 1 /\ at' = 0 /\ todo' = {}
  /\ UNCHANGED <<block, temps, method, disk>>

\* A refused configuration ends the process; whoever supervises it starts it
\* again.
Restart ==
  /\ phase = "refused" /\ crashes < MaxCrashes
  /\ phase' = "off" /\ crashes' = crashes + 1 /\ at' = 0 /\ todo' = {}
  /\ UNCHANGED <<block, temps, method, disk>>

Next ==
  \/ Validate \/ MakeTemp \/ Clone \/ NextFetch \/ Prepare \/ Clear \/ Copy
  \/ Crash \/ Restart

Spec == Init /\ [][Next]_vars

----------------------------------------------------------------------------
(* Properties.                                                             *)

TypeOK ==
  /\ temps \in 0..(MaxCrashes + 1) /\ at \in 0..Len(block.fetches)
  /\ \A d \in Dirs : disk[d].kind \in {"missing", "file", "dir"}

\* A process that goes on to read the configuration finds every destination
\* exactly as the repository has it, however often it was killed on the way,
\* as long as each fetch has a destination of its own.
Own == \A i, j \in DOMAIN block.fetches : i # j => block.fetches[i].into # block.fetches[j].into
FetchedWhole ==
  phase = "done" /\ ~block.disabled /\ Own =>
    \A i \in DOMAIN block.fetches :
      LET f == block.fetches[i] IN
      FilesOf(f.into) = [g \in Copies(f) |-> "whole"]

\* Of every step: without overwrite, what Vinculum did not write is not touched.
ForeignKept ==
  \A d \in Dirs :
    (\A i \in DOMAIN block.fetches : block.fetches[i].into = d => ~block.fetches[i].overwrite)
    /\ "other" \in DOMAIN FilesOf(d)
    => disk'[d] = disk[d]

\* What validation lets through can be fetched: the check made after the clone
\* never turns down a path for leaving the repository.
PathsAgree ==
  phase \notin {"off", "refused", "done"} =>
    \A i \in DOMAIN block.fetches : Inside(block.fetches[i])

\* A credential the block gives is used, and only over the transport it is
\* for; a host is trusted unseen only where the block says so.
CredentialUsed ==
  phase \in {"next", "prepare", "clear", "copy"} =>
    /\ block.hasAuth /\ block.auth # {} => method # "none"
    /\ method \in {"token", "basic"} => block.repo \in {"http", "https"}
    /\ method = "key, any host" <=> Transport = "ssh" /\ "insecure" \in block.auth

\* Only a process that was killed leaves its clone behind.
TempsRemoved == temps <= crashes + (IF phase \in {"off", "refused", "done", "clone"} THEN 0 ELSE 1)
=============================================================================
