-------------------------- MODULE ManagedProcesses -------------------------
(***************************************************************************)
(* Long-running children of a chat tree: the registry that keeps them, the  *)
(* three tasks that serve each of them, and the agent that starts, polls    *)
(* and signals them (xoxo-core/.../process_registry.rs, nerd/.../process.rs).*)
(*                                                                         *)
(* Children exit when they like.  Per child, one task copies its output     *)
(* into a buffer (stdout and stderr alike: one stands for both) and one     *)
(* waits for its end and then sets three fields, each under a lock of its   *)
(* own; a tool call reads buffer and fields one after the other.  Reading   *)
(* and waiting may fail: the one task then stops, and the other clears the   *)
(* running flag with nothing to say how the child ended.                    *)
(***************************************************************************)
EXTENDS Naturals, Sequences

CONSTANTS
    Proc,           \* the children that may be started
    MaxOutput       \* bound: pieces of output a child prints

ASSUME ProcessAssumption == MaxOutput \in Nat

VARIABLES
    os,         \* per child: "none", "alive", "dead" (a zombie), "reaped"
    ended,      \* how it ended: "none", "code", "signal"
    printed,    \* pieces it has printed
    stdout_buf, \* pieces the reader task has collected
    waiter,     \* the waiter task's next step, an index into WaiterSteps
    broken,     \* children whose reader task stopped at an error
    unwaited,   \* children whose waiter task could not wait for them
    running, exit_code, signal_name,    \* the fields of ManagedProcess
    processes,  \* the registry
    signalled,  \* children that were sent a signal
    pc, target, \* the agent's call: its next step, and the child
    full,       \* stdout_full.len() of a poll; of other calls, the offset as it is
    sum,        \* the summary being built
    offset,     \* per child, the offset the agent polls from next
    received,   \* per child, how much output the agent was given    (history)
    released    \* the tree's execution context has been shut down

child  == <<os, ended, printed>>
fields == <<running, exit_code, signal_name>>
tasks  == <<stdout_buf, waiter, broken, unwaited>>
call   == <<pc, target, full, sum>>
agent  == <<offset, received>>
vars   == <<child, fields, tasks, processes, signalled, call, agent, released>>

Unknown == [running |-> TRUE, exit_code |-> FALSE, signal |-> FALSE]

Init ==
    /\ os = [p \in Proc |-> "none"] /\ ended = [p \in Proc |-> "none"]
    /\ printed = [p \in Proc |-> 0] /\ stdout_buf = [p \in Proc |-> 0]
    /\ waiter = [p \in Proc |-> 1] /\ broken = {} /\ unwaited = {}
    /\ running = [p \in Proc |-> TRUE]
    /\ exit_code = [p \in Proc |-> FALSE] /\ signal_name = [p \in Proc |-> FALSE]
    /\ processes = {} /\ signalled = {}
    /\ pc = "idle" /\ target \in Proc /\ full = 0 /\ sum = Unknown
    /\ offset = [p \in Proc |-> 0] /\ received = [p \in Proc |-> 0]
    /\ released = FALSE

-----------------------------------------------------------------------------
(* The children *)

(* What it started itself may print after its end: the pipe is shared.       *)
Emit(p) ==
    /\ os[p] # "none" /\ printed[p] < MaxOutput
    /\ printed' = [printed EXCEPT ![p] = @ + 1]
    /\ UNCHANGED <<os, ended, fields, tasks, processes, signalled, call, agent, released>>

End(p, how) ==
    /\ os[p] = "alive"
    /\ how = "signal" => p \in signalled
    /\ os' = [os EXCEPT ![p] = "dead"] /\ ended' = [ended EXCEPT ![p] = how]
    /\ UNCHANGED <<printed, fields, tasks, processes, signalled, call, agent, released>>

-----------------------------------------------------------------------------
(* The tasks of ProcessRegistry::start *)

WhileRunning(p) == running[p]               \* mutant: the reader ends with the child
UntilEof(p) == TRUE

(* A read takes some of what is there.                                      *)
ReadOutput(p) ==
    /\ p \notin broken /\ UntilEof(p)
    /\ \E n \in (stdout_buf[p] + 1)..printed[p] : stdout_buf' = [stdout_buf EXCEPT ![p] = n]
    /\ UNCHANGED <<child, fields, waiter, broken, unwaited, processes, signalled, call, agent,
                   released>>

ReadFails(p) ==
    /\ os[p] # "none" /\ p \notin broken /\ broken' = broken \cup {p}
    /\ UNCHANGED <<child, fields, stdout_buf, waiter, unwaited, processes, signalled, call, agent,
                   released>>

WaiterSteps == <<"wait", "exit_code", "signal_name", "running">>

Wait(p) ==
    /\ waiter[p] <= Len(WaiterSteps)
    /\ waiter' = [waiter EXCEPT ![p] = @ + 1]
    /\ LET step == WaiterSteps[waiter[p]] IN
       \/ /\ step = "wait" /\ os[p] = "dead"
          /\ os' = [os EXCEPT ![p] = "reaped"]
          /\ UNCHANGED fields
       \/ /\ step = "exit_code"
          /\ exit_code' = [exit_code EXCEPT ![p] = ended[p] = "code"]
          /\ UNCHANGED <<os, running, signal_name>>
       \/ /\ step = "signal_name"
          /\ signal_name' = [signal_name EXCEPT ![p] = ended[p] = "signal"]
          /\ UNCHANGED <<os, running, exit_code>>
       \/ /\ step = "running"
          /\ running' = [running EXCEPT ![p] = FALSE]
          /\ UNCHANGED <<os, exit_code, signal_name>>
    /\ UNCHANGED <<ended, printed, stdout_buf, broken, unwaited, processes, signalled, call, agent,
                   released>>

(* wait() fails: what is left is to clear the flag.                         *)
WaitFails(p) ==
    /\ os[p] # "none" /\ waiter[p] = 1
    /\ waiter' = [waiter EXCEPT ![p] = Len(WaiterSteps)]
    /\ unwaited' = unwaited \cup {p}
    /\ UNCHANGED <<child, fields, stdout_buf, broken, processes, signalled, call, agent, released>>

-----------------------------------------------------------------------------
(* The process tool.  Every action ends in a summary.                       *)

Idle == pc = "idle" /\ ~released

Spawn(p) ==
    /\ Idle /\ os[p] = "none"
    /\ os' = [os EXCEPT ![p] = "alive"]
    /\ target' = p /\ pc' = "register"
    /\ UNCHANGED <<ended, printed, fields, tasks, processes, signalled, full, sum, agent, released>>

Register ==
    /\ pc = "register"
    /\ processes' = processes \cup {target}
    /\ pc' = "running" /\ full' = offset[target]
    /\ UNCHANGED <<child, fields, tasks, signalled, target, sum, agent, released>>

(* The buffer is copied, and slice and next offset are taken from the copy.  *)
PollBuffer(p) ==
    /\ Idle /\ p \in processes
    /\ full' = stdout_buf[p]
    /\ target' = p /\ pc' = "running"
    /\ received' = [received EXCEPT ![p] = @ + (stdout_buf[p] - offset[p])]
    /\ UNCHANGED <<child, fields, tasks, processes, signalled, sum, offset, released>>

(* send_signal does not ask whether the child still runs.  The pid of a     *)
(* reaped child is nobody's, and the call fails without effect (a stutter), *)
(* or another process's, which gets the signal.                             *)
Signal(p) ==
    /\ Idle /\ p \in processes
    /\ signalled' = IF os[p] = "reaped" THEN signalled ELSE signalled \cup {p}
    /\ target' = p /\ pc' = "running" /\ full' = offset[p]
    /\ UNCHANGED <<child, fields, tasks, processes, sum, agent, released>>

LengthNow == stdout_buf[target]             \* mutant: the length at the reply
OneBeyond == full + 1                       \* mutant: an inclusive end
NextOffset == full

(* ManagedProcess::summary, field by field.                                 *)
Summarise ==
    \/ /\ pc = "running"
       /\ sum' = [Unknown EXCEPT !.running = running[target]]
       /\ pc' = "exit_code" /\ UNCHANGED offset
    \/ /\ pc = "exit_code"
       /\ sum' = [sum EXCEPT !.exit_code = exit_code[target]]
       /\ pc' = "signal" /\ UNCHANGED offset
    \/ /\ pc = "signal"
       /\ sum' = [sum EXCEPT !.signal = signal_name[target]]
       /\ pc' = "reply" /\ UNCHANGED offset
    \/ /\ pc = "reply" /\ pc' = "idle"
       /\ offset' = [offset EXCEPT ![target] = NextOffset]
       /\ UNCHANGED sum
    /\ UNCHANGED <<child, fields, tasks, processes, signalled, target, full, received, released>>

(* ToolExecutionContext::shutdown kills the shell; the registry goes with    *)
(* the context, its children and their tasks stay.                          *)
Release ==
    /\ Idle /\ released' = TRUE
    /\ UNCHANGED <<child, fields, tasks, processes, signalled, call, agent>>

Next ==
    \/ \E p \in Proc :
        \/ Emit(p) \/ End(p, "code") \/ End(p, "signal")
        \/ ReadOutput(p) \/ ReadFails(p) \/ Wait(p) \/ WaitFails(p)
        \/ Spawn(p) \/ PollBuffer(p) \/ Signal(p)
    \/ Register \/ Summarise \/ Release

Spec == Init /\ [][Next]_vars

(* The runtime runs the tasks; children and agent do as they please.         *)
FairSpec == Spec /\ \A p \in Proc : WF_vars(ReadOutput(p)) /\ WF_vars(Wait(p))

-----------------------------------------------------------------------------
(* Properties *)

TypeOK ==
    /\ os \in [Proc -> {"none", "alive", "dead", "reaped"}]
    /\ ended \in [Proc -> {"none", "code", "signal"}]
    /\ printed \in [Proc -> 0..MaxOutput]
    /\ \A p \in Proc : stdout_buf[p] \in 0..printed[p] /\ offset[p] \in 0..stdout_buf[p]
    /\ waiter \in [Proc -> 1..(Len(WaiterSteps) + 1)]
    /\ broken \subseteq Proc /\ unwaited \subseteq Proc
    /\ {running, exit_code, signal_name} \subseteq [Proc -> BOOLEAN]
    /\ signalled \subseteq processes /\ processes \subseteq {p \in Proc : os[p] # "none"}
    /\ pc \in {"idle", "register", "running", "exit_code", "signal", "reply"}
    /\ target \in Proc /\ full \in 0..MaxOutput
    /\ sum \in [running : BOOLEAN, exit_code : BOOLEAN, signal : BOOLEAN]
    /\ released \in BOOLEAN

EndIsExplained ==
    pc = "reply" /\ ~sum.running /\ target \notin unwaited =>
        /\ sum.exit_code = (ended[target] = "code") /\ sum.signal = (ended[target] = "signal")
        /\ sum.exit_code \/ sum.signal
PollsTile == \A p \in Proc : pc = "idle" => received[p] = offset[p]

(* Polls that start where the last one ended give the output once and whole, *)
(* though the buffer grows while a reply is put together; and a summary that *)
(* says a child has ended says how it did, though its fields are set and     *)
(* read one lock at a time, unless wait() itself failed.                     *)
PollsAreConsistent == PollsTile /\ EndIsExplained

Polling(p) == []<><<PollBuffer(p)>>_vars

(* An agent that keeps polling is given all that was printed in the end, also *)
(* what was printed right before the child's end, which the waiter task may  *)
(* have announced before the reader task came to it, and what others wrote   *)
(* to the pipe after it; unless reading itself failed.                       *)
OutputDelivered ==
    \A p \in Proc : Polling(p) =>
        \A n \in 1..MaxOutput : printed[p] >= n ~> received[p] >= n \/ p \in broken
=============================================================================
