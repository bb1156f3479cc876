---------------------------- MODULE FilePatching ---------------------------
(***************************************************************************)
(* Reading, creating and editing one file through the tools of nerd, and    *)
(* the registry of checksums that ties an edit to what was read             *)
(* (xoxo-core/.../execution_context/mod.rs; nerd/.../read_file.rs,          *)
(* write_file.rs, patch_file/, patch_symbol.rs, rename_symbol.rs,           *)
(* ensure_import.rs).  The agents of a tree share the registry, but each    *)
(* counts lines in the file as it last saw it.                              *)
(*                                                                         *)
(* A content is a version number, 0 for a file that is not there; a          *)
(* checksum is the version it was computed from.  Every access to the disk  *)
(* and every lock of the registry is a step.  A write truncates the file     *)
(* first, so one that fails may leave a part of what was to be written.      *)
(***************************************************************************)
EXTENDS Naturals, FiniteSets

CONSTANTS
    Agent,          \* the agents of the tree
    MaxVersions     \* bound: contents the file ever has

ASSUME PatchingAssumption == MaxVersions \in Nat \ {0}

Version == 1..MaxVersions

VARIABLES
    disk,       \* the file
    made,       \* versions made so far
    tracked,    \* the registry's `read` checksum (0: no entry)
    view,       \* per agent, the content it was last shown (0: none)
    pc, tool,   \* per agent, its place in a call, and the tool
    content,    \* per agent, what the call has read from the file
    checksum,   \* per agent, the checksum the call goes by
    wrote, failed,  \* per agent, of its latest call
    registered, \* the checksums `tracked` has had                  (history)
    users, calm,    \* the agents that made calls; nothing else has touched
                    \* the file in the middle of a call             (history)
    touched     \* the agents in the middle of whose call another agent or
                \* another program has changed the file            (history)

disks == <<disk, made>>
local == <<content, checksum>>
past  == <<users, calm, touched>>
vars  == <<disks, tracked, view, pc, tool, local, wrote, failed, registered, past>>

Init ==
    /\ disk \in {0, 1} /\ made = 1 /\ tracked = 0
    /\ view = [a \in Agent |-> 0]
    /\ pc = [a \in Agent |-> "idle"] /\ tool = [a \in Agent |-> "none"]
    /\ content = [a \in Agent |-> 0] /\ checksum = [a \in Agent |-> 0]
    /\ wrote = [a \in Agent |-> "no"] /\ failed = [a \in Agent |-> FALSE]
    /\ registered = {} /\ users = {} /\ calm = TRUE /\ touched = {}

InCall == {a \in Agent : pc[a] # "idle"}
Room == made + Cardinality(InCall) < MaxVersions

Goto(a, step) == pc' = [pc EXCEPT ![a] = step]

Entering(a) == users' = users \cup {a} /\ touched' = touched \ {a} /\ UNCHANGED calm

BeginAnyway(a, t, ok, step) ==                  \* mutant: the check is dropped
    /\ pc[a] = "idle" /\ Room
    /\ Entering(a)
    /\ tool' = [tool EXCEPT ![a] = t] /\ Goto(a, step)
    /\ wrote' = [wrote EXCEPT ![a] = "no"] /\ failed' = [failed EXCEPT ![a] = FALSE]

(* A call's first step: it goes on to `step`, or fails if ~ok.              *)
Begin(a, t, ok, step) ==
    /\ pc[a] = "idle" /\ Room
    /\ Entering(a)
    /\ tool' = [tool EXCEPT ![a] = t]
    /\ Goto(a, IF ok THEN step ELSE "idle")
    /\ wrote' = [wrote EXCEPT ![a] = "no"]
    /\ failed' = [failed EXCEPT ![a] = ~ok]

(* The tool returns an error.                                               *)
Fail(a) ==
    /\ Goto(a, "idle")
    /\ failed' = [failed EXCEPT ![a] = TRUE]
    /\ UNCHANGED <<disks, tracked, registered, view, tool, local, wrote, past>>

(* fs::write makes a new content, the one asked for or a part of it.         *)
Write(a, how) ==
    /\ disk' = made + 1 /\ made' = made + 1 /\ wrote' = [wrote EXCEPT ![a] = how]
    /\ touched' = touched \cup (InCall \ {a}) /\ UNCHANGED <<users, calm>>

WriteNew(a) == Write(a, "all")

(* It fails, before or after it has truncated the file.                     *)
WriteFails(a) ==
    /\ pc[a] \in {"create", "plan"}
    /\ \/ Fail(a)
       \/ /\ Write(a, "part")
          /\ Goto(a, "idle") /\ failed' = [failed EXCEPT ![a] = TRUE]
          /\ UNCHANGED <<tracked, registered, view, tool, local>>

-----------------------------------------------------------------------------
(* read_file: the content, then the checksum of the file read once more.    *)
ReadContent(a) ==
    /\ Begin(a, "read", disk # 0, "checksum")
    /\ content' = [content EXCEPT ![a] = disk]
    /\ UNCHANGED <<disks, tracked, registered, view, checksum>>

ReadChecksum(a) ==
    /\ pc[a] = "checksum" /\ disk # 0
    /\ checksum' = [checksum EXCEPT ![a] = disk]
    /\ Goto(a, "upsert")
    /\ UNCHANGED <<disks, tracked, registered, view, tool, content, wrote, failed, past>>

ReadVanished(a) == pc[a] = "checksum" /\ disk = 0 /\ Fail(a)

(* upsert, and the result goes to the agent.                                *)
Upsert(a) ==
    /\ pc[a] = "upsert"
    /\ tracked' = checksum[a] /\ registered' = registered \cup {checksum[a]}
    /\ view' = [view EXCEPT ![a] = content[a]]
    /\ Goto(a, "idle")
    /\ UNCHANGED <<disks, tool, local, wrote, failed, past>>

(* write_file: refuses a file that exists, and registers what it wrote.     *)
CheckAbsent(a) ==
    /\ Begin(a, "write", disk = 0, "create")
    /\ UNCHANGED <<disks, tracked, registered, view, local>>

Create(a) ==
    /\ pc[a] = "create"
    /\ WriteNew(a)
    /\ content' = [content EXCEPT ![a] = made + 1]
    /\ checksum' = [checksum EXCEPT ![a] = made + 1]
    /\ Goto(a, "upsert")
    /\ UNCHANGED <<tracked, registered, view, tool, failed>>

-----------------------------------------------------------------------------
(* The editing tools.  patch_file takes the checksum first and reads the    *)
(* file again for the edit; the symbol tools edit what they read.           *)

Baseline(a, t) ==
    /\ Begin(a, t, disk # 0, "ensure")
    /\ content' = [content EXCEPT ![a] = disk]
    /\ checksum' = [checksum EXCEPT ![a] = disk]
    /\ UNCHANGED <<disks, tracked, registered, view>>

(* The batch does not fit the file, or the symbol is not in it.             *)
Misfit(a) == pc[a] \in {"ensure", "reread", "plan"} /\ Fail(a)

Tracked(md5) == tracked # 0                             \* mutant: no comparison
EnsureRead(md5) == tracked # 0 /\ tracked = md5

Ensure(a) ==
    /\ pc[a] = "ensure" /\ EnsureRead(checksum[a])
    /\ Goto(a, IF tool[a] = "patch" THEN "reread" ELSE "plan")
    /\ UNCHANGED <<disks, tracked, registered, view, tool, local, wrote, failed, past>>

Reread(a) ==
    /\ pc[a] = "reread" /\ disk # 0
    /\ content' = [content EXCEPT ![a] = disk]
    /\ Goto(a, "plan")
    /\ UNCHANGED <<disks, tracked, registered, view, tool, checksum, wrote, failed, past>>

Overwrite(a) ==
    /\ pc[a] = "plan"
    /\ WriteNew(a)
    /\ Goto(a, "update")
    /\ UNCHANGED <<tracked, registered, view, tool, local, failed>>

(* ensure_import finds the import there.                                    *)
NothingToDo(a) ==
    /\ pc[a] = "plan" /\ tool[a] = "import"
    /\ Goto(a, "update")
    /\ UNCHANGED <<disks, tracked, registered, view, tool, local, wrote, failed, past>>

(* update checks the baseline once more and stores the new checksum under    *)
(* `patch`, which nothing reads: the baseline stays that of the content      *)
(* before the edit.                                                         *)
Forwarded == disk                           \* mutant: update also moves `read`
Rebased == tracked

OldChecksum(a) == checksum[a]

Update(a) ==
    /\ pc[a] = "update" /\ EnsureRead(OldChecksum(a))
    /\ tracked' = Rebased /\ registered' = registered \cup {Rebased}
    /\ Goto(a, "idle")
    /\ UNCHANGED <<disks, view, tool, local, wrote, failed, past>>

Refuse(a) ==
    /\ \/ pc[a] = "ensure" /\ ~EnsureRead(checksum[a])
       \/ pc[a] = "reread" /\ disk = 0
       \/ pc[a] = "update" /\ ~EnsureRead(OldChecksum(a))
    /\ Fail(a)

-----------------------------------------------------------------------------
(* Another program, or a shell command, writes, restores or deletes it.     *)
Outside ==
    /\ \/ Room /\ disk' = made + 1 /\ made' = made + 1
       \/ disk' \in 0..made \ {disk} /\ UNCHANGED made
    /\ calm' = (calm /\ InCall = {}) /\ touched' = touched \cup InCall
    /\ UNCHANGED <<tracked, registered, view, pc, tool, local, wrote, failed, users>>

Step(a) ==
    \/ ReadContent(a) \/ ReadChecksum(a) \/ ReadVanished(a) \/ Upsert(a)
    \/ CheckAbsent(a) \/ Create(a)
    \/ \E t \in {"patch", "symbol", "import"} : Baseline(a, t)
    \/ Ensure(a) \/ Reread(a) \/ Misfit(a) \/ Overwrite(a) \/ NothingToDo(a)
    \/ WriteFails(a) \/ Update(a) \/ Refuse(a)

Next == Outside \/ \E a \in Agent : Step(a)

Spec == Init /\ [][Next]_vars

-----------------------------------------------------------------------------
(* Properties *)

TypeOK ==
    /\ made \in Version /\ {disk, tracked} \subseteq 0..made
    /\ \A f \in {view, content, checksum} : f \in [Agent -> 0..made]
    /\ pc \in [Agent -> {"idle", "checksum", "upsert", "create",
                         "ensure", "reread", "plan", "update"}]
    /\ tool \in [Agent -> {"none", "read", "write", "patch", "symbol", "import"}]
    /\ wrote \in [Agent -> {"no", "part", "all"}] /\ failed \in [Agent -> BOOLEAN]
    /\ registered \subseteq 1..made /\ touched \subseteq users
    /\ users \subseteq Agent /\ InCall \subseteq users /\ calm \in BOOLEAN
    /\ \A a \in Agent : pc[a] \in {"upsert", "ensure"} => checksum[a] # 0

(* One agent uses the file, and nothing touches it in the middle of a call.  *)
Undisturbed == calm /\ Cardinality(users) <= 1

(* Undisturbed, the line numbers of a patch are applied to the very content  *)
(* the agent last saw: not to one that another program left between two      *)
(* calls, nor to that of its own edit (patch_file's description); and a call *)
(* that reports an error has not done what it was asked: the second check,   *)
(* after the write, finds what the first one found.  A write that failed     *)
(* halfway is the only error that leaves the file changed.                   *)
AppliedToSeen ==
    Undisturbed => \A a \in Agent :
        /\ pc[a] = "plan" /\ tool[a] = "patch" => content[a] = view[a]
        /\ failed[a] => wrote[a] # "all"

(* However the calls of agents interleave, with each other and with other    *)
(* programs: the content an edit is made of is one that a tool of the tree   *)
(* has read or created, and registered.  The symbol tools edit what they     *)
(* computed the checksum of; patch_file reads the file again after the check *)
(* (apply.rs), so of its content this holds unless somebody else has changed *)
(* the file since the call began, and then the edit is of what is there.     *)
EditsRegistered ==
    \A a \in Agent : pc[a] = "plan" =>
        /\ tool[a] # "patch" => content[a] \in registered
        /\ a \notin touched => content[a] = disk /\ disk \in registered
=============================================================================
