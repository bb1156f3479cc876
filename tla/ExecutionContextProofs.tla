----------------------- MODULE ExecutionContextProofs -----------------------
(***************************************************************************)
(* The two parts of a tree's execution context.  For any number of agents,   *)
(* commands and timeouts: calls on the shared bash process return their own  *)
(* output, and lag by no more than the timeouts.  For any number of          *)
(* children, any output and any number of polls: polls neither skip nor      *)
(* repeat output, and a summary of a child that has ended says how it ended, *)
(* unless waiting for it failed.                                            *)
(***************************************************************************)
EXTENDS ManagedProcesses, BashSession, SequenceTheorems, FiniteSetTheorems, TLAPS

-----------------------------------------------------------------------------
(* Managed processes *)

(* A child has ended some way once it is dead.                              *)
Endings == \A p \in Proc : ended[p] = "none" <=> os[p] \in {"none", "alive"}

(* What the waiter task has set, and in this order: running comes last.     *)
Explained ==
    \A p \in Proc :
        /\ p \notin unwaited =>
            /\ waiter[p] >= 2 => os[p] = "reaped"
            /\ waiter[p] >= 3 => exit_code[p] = (ended[p] = "code")
            /\ waiter[p] >= 4 => signal_name[p] = (ended[p] = "signal")
        /\ p \in unwaited => waiter[p] >= 4
        /\ ~running[p] => waiter[p] >= 5

(* Running is read first: a summary that found it false finds the rest set.  *)
Summing ==
    /\ pc \in {"exit_code", "signal", "reply"} /\ ~sum.running => waiter[target] >= 5
    /\ pc \in {"signal", "reply"} /\ ~sum.running /\ target \notin unwaited =>
           sum.exit_code = (ended[target] = "code")
    /\ pc = "reply" /\ ~sum.running /\ target \notin unwaited =>
           sum.signal = (ended[target] = "signal")

(* A reply under way holds the output that the agent has counted.           *)
Answering == pc \in {"running", "exit_code", "signal", "reply"}
Tiling ==
    /\ \A p \in Proc : received[p] = IF Answering /\ p = target THEN full ELSE offset[p]
    /\ Answering => full <= stdout_buf[target]
    /\ pc = "register" => os[target] # "none"
Counts == received \in [Proc -> Nat] /\ offset \in [Proc -> Nat] /\ stdout_buf \in [Proc -> Nat]

IInv == TypeOK /\ Endings /\ Explained /\ Summing /\ Tiling /\ Counts

LEMMA Initially == Init => IInv
<1> SUFFICES ASSUME Init PROVE IInv
    OBVIOUS
<1>1. MaxOutput \in Nat
    BY ProcessAssumption
<1>2. TypeOK
    <2>1. Len(WaiterSteps) = 4
        BY DEF WaiterSteps
    <2>2. sum \in [running : BOOLEAN, exit_code : BOOLEAN, signal : BOOLEAN]
        BY DEF Init, Unknown
    <2>3. /\ os \in [Proc -> {"none", "alive", "dead", "reaped"}]
          /\ ended \in [Proc -> {"none", "code", "signal"}]
          /\ printed \in [Proc -> 0..MaxOutput] /\ waiter \in [Proc -> 1..5]
        BY <1>1 DEF Init
    <2>4. running \in [Proc -> BOOLEAN] /\ exit_code \in [Proc -> BOOLEAN]
          /\ signal_name \in [Proc -> BOOLEAN]
        BY DEF Init
    <2>5. \A p \in Proc : stdout_buf[p] \in 0..printed[p] /\ offset[p] \in 0..stdout_buf[p]
        <3> SUFFICES ASSUME NEW p \in Proc
                     PROVE  stdout_buf[p] \in 0..printed[p] /\ offset[p] \in 0..stdout_buf[p]
            OBVIOUS
        <3>1. stdout_buf[p] = 0 /\ printed[p] = 0 /\ offset[p] = 0
            BY DEF Init
        <3> QED
            BY <3>1
    <2>6. /\ signalled \subseteq processes /\ processes \subseteq {p \in Proc : os[p] # "none"}
          /\ pc \in {"idle", "register", "running", "exit_code", "signal", "reply"}
          /\ target \in Proc
        BY DEF Init
    <2>7. full \in 0..MaxOutput /\ released \in BOOLEAN
        <3>1. full = 0
            BY DEF Init
        <3>2. full \in 0..MaxOutput
            BY <1>1, <3>1
        <3>3. released \in BOOLEAN
            BY DEF Init
        <3> QED
            BY <3>2, <3>3
    <2>8. {running, exit_code, signal_name} \subseteq [Proc -> BOOLEAN]
        BY <2>4
    <2>9. waiter \in [Proc -> 1..(Len(WaiterSteps) + 1)]
        BY <2>1, <2>3
    <2>10. broken \subseteq Proc /\ unwaited \subseteq Proc
        BY DEF Init
    <2> QED
        BY <2>2, <2>3, <2>5, <2>6, <2>7, <2>8, <2>9, <2>10 DEF TypeOK
<1>3. Endings /\ Explained /\ Summing
    BY DEF Init, Endings, Explained, Summing
<1>4. Tiling /\ Counts
    <2>1. Counts
        BY DEF Init, Counts
    <2>2. pc = "idle" /\ \A p \in Proc : received[p] = 0 /\ offset[p] = 0
        BY DEF Init
    <2> QED
        BY <2>1, <2>2 DEF Tiling, Answering
<1> QED
    BY <1>2, <1>3, <1>4 DEF IInv

LEMMA EmitKeeps == ASSUME IInv, NEW p \in Proc, Emit(p) PROVE IInv'
<1>1. TypeOK'
    <2>1. MaxOutput \in Nat /\ printed[p] \in 0..MaxOutput /\ printed[p] < MaxOutput
          /\ printed \in [Proc -> 0..MaxOutput] /\ printed' = [printed EXCEPT ![p] = printed[p] + 1]
        BY ProcessAssumption DEF IInv, TypeOK, Emit
    <2>2. printed' \in [Proc -> 0..MaxOutput] /\ \A q \in Proc : printed[q] <= printed'[q]
        BY <2>1
    <2>3. \A q \in Proc : stdout_buf[q] \in 0..printed'[q]
        BY <2>1, <2>2 DEF IInv, TypeOK
    <2>4. UNCHANGED <<os, ended, fields, tasks, processes, signalled, call, agent, released>>
        BY DEF Emit
    <2> QED
        BY <2>2, <2>3, <2>4 DEF IInv, TypeOK, fields, tasks, call, agent
<1>2. Endings' /\ Explained' /\ Summing' /\ Tiling' /\ Counts'
    BY DEF IInv, Endings, Explained, Summing, Tiling, Counts, Answering, Emit, fields, tasks, call, agent
<1> QED
    BY <1>1, <1>2 DEF IInv

LEMMA EndKeeps ==
    ASSUME IInv, NEW p \in Proc, NEW how \in {"code", "signal"}, End(p, how)
    PROVE  IInv'
<1>1. os[p] = "alive" /\ ended[p] = "none" /\ (p \notin unwaited => ~(waiter[p] >= 2))
    BY DEF IInv, End, Endings, Explained
<1>2. TypeOK'
    BY DEF IInv, TypeOK, End, fields, tasks, call, agent
<1>3. Endings'
    BY <1>1 DEF IInv, TypeOK, Endings, End
<1>4. Explained'
    BY <1>1 DEF IInv, TypeOK, Explained, End, fields, tasks
<1>5. Summing'
    BY <1>1 DEF IInv, TypeOK, Summing, End, tasks, call
<1>6. Tiling' /\ Counts'
    BY <1>1 DEF IInv, TypeOK, Tiling, Counts, Answering, End, tasks, call, agent
<1> QED
    BY <1>2, <1>3, <1>4, <1>5, <1>6 DEF IInv

LEMMA ReadFailsKeeps == ASSUME IInv, NEW p \in Proc, ReadFails(p) PROVE IInv'
<1>1. TypeOK'
    BY DEF IInv, TypeOK, ReadFails, child, fields, call, agent
<1>2. Endings' /\ Explained' /\ Summing'
    BY DEF IInv, Endings, Explained, Summing, ReadFails, child, fields, call
<1>3. Tiling' /\ Counts'
    BY DEF IInv, Tiling, Counts, Answering, ReadFails, child, call, agent
<1> QED
    BY <1>1, <1>2, <1>3 DEF IInv

LEMMA WaitFailsKeeps == ASSUME IInv, NEW p \in Proc, WaitFails(p) PROVE IInv'
<1>1. /\ waiter[p] = 1 /\ waiter' = [waiter EXCEPT ![p] = 4] /\ unwaited' = unwaited \cup {p}
      /\ UNCHANGED <<child, fields, stdout_buf, broken, processes, signalled, call, agent, released>>
    BY DEF WaitFails, WaiterSteps
<1>2. waiter \in [Proc -> 1..5] /\ Len(WaiterSteps) = 4
    BY DEF IInv, TypeOK, WaiterSteps
<1>3. TypeOK'
    BY <1>1, <1>2 DEF IInv, TypeOK, child, fields, call, agent
<1>4. Endings' /\ Explained' /\ Summing'
    BY <1>1, <1>2 DEF IInv, Endings, Explained, Summing, child, fields, call
<1>5. Tiling' /\ Counts'
    BY <1>1 DEF IInv, Tiling, Counts, Answering, child, call, agent
<1> QED
    BY <1>3, <1>4, <1>5 DEF IInv

LEMMA ReadOutputKeeps == ASSUME IInv, NEW p \in Proc, ReadOutput(p) PROVE IInv'
<1>1. TypeOK'
    BY DEF IInv, TypeOK, ReadOutput, child, fields, call, agent
<1>2. Endings' /\ Explained' /\ Summing'
    BY DEF IInv, Endings, Explained, Summing, ReadOutput, child, fields, call
<1>3. Tiling' /\ Counts'
    BY DEF IInv, TypeOK, Tiling, Counts, Answering, ReadOutput, child, call, agent
<1> QED
    BY <1>1, <1>2, <1>3 DEF IInv

LEMMA WaitKeeps == ASSUME IInv, NEW p \in Proc, Wait(p) PROVE IInv'
<1>1. waiter[p] \in 1..4 /\ waiter' = [waiter EXCEPT ![p] = @ + 1] /\ waiter \in [Proc -> 1..5]
    BY DEF IInv, TypeOK, Wait, WaiterSteps
<1>2. UNCHANGED <<ended, printed, stdout_buf, broken, unwaited, processes, signalled, call, agent,
                  released>>
    BY DEF Wait
<1>3. \/ /\ waiter[p] = 1 /\ os[p] = "dead" /\ os' = [os EXCEPT ![p] = "reaped"]
         /\ UNCHANGED fields
      \/ /\ waiter[p] = 2 /\ exit_code' = [exit_code EXCEPT ![p] = ended[p] = "code"]
         /\ UNCHANGED <<os, running, signal_name>>
      \/ /\ waiter[p] = 3 /\ signal_name' = [signal_name EXCEPT ![p] = ended[p] = "signal"]
         /\ UNCHANGED <<os, running, exit_code>>
      \/ /\ waiter[p] = 4 /\ running' = [running EXCEPT ![p] = FALSE]
         /\ UNCHANGED <<os, exit_code, signal_name>>
    BY <1>1 DEF Wait, WaiterSteps
<1>4. TypeOK'
    <2>1. os' \in [Proc -> {"none", "alive", "dead", "reaped"}]
          /\ {q \in Proc : os[q] # "none"} \subseteq {q \in Proc : os'[q] # "none"}
        BY <1>3 DEF IInv, TypeOK
    <2>2. waiter' \in [Proc -> 1..5] /\ Len(WaiterSteps) = 4
        BY <1>1 DEF WaiterSteps
    <2>3. {running', exit_code', signal_name'} \subseteq [Proc -> BOOLEAN]
        <3>1. /\ running \in [Proc -> BOOLEAN] /\ exit_code \in [Proc -> BOOLEAN]
              /\ signal_name \in [Proc -> BOOLEAN]
            BY DEF IInv, TypeOK
        <3>2. (ended[p] = "code") \in BOOLEAN /\ (ended[p] = "signal") \in BOOLEAN
            OBVIOUS
        <3> QED
            BY <1>3, <3>1, <3>2 DEF fields
    <2> QED
        BY <1>2, <2>1, <2>2, <2>3 DEF IInv, TypeOK, call, agent
<1>5. Endings'
    BY <1>2, <1>3 DEF IInv, TypeOK, Endings
<1>6. Explained'
    BY <1>1, <1>2, <1>3 DEF IInv, TypeOK, Explained, fields
<1>7. Summing'
    BY <1>1, <1>2 DEF IInv, TypeOK, Summing, call
<1>8. Tiling' /\ Counts'
    <2>1. UNCHANGED <<pc, target, full, received, offset, stdout_buf>>
        BY <1>2 DEF call, agent
    <2>2. os[target] # "none" => os'[target] # "none"
        BY <1>3 DEF IInv, TypeOK
    <2> QED
        BY <2>1, <2>2 DEF IInv, Tiling, Counts, Answering
<1> QED
    BY <1>4, <1>5, <1>6, <1>7, <1>8 DEF IInv

LEMMA SpawnKeeps == ASSUME IInv, NEW p \in Proc, Spawn(p) PROVE IInv'
<1>1. TypeOK'
    BY DEF IInv, TypeOK, Spawn, fields, tasks, agent
<1>2. Endings' /\ Explained'
    BY DEF IInv, TypeOK, Endings, Explained, Spawn, fields, tasks
<1>3. Summing' /\ Tiling' /\ Counts'
    BY DEF IInv, TypeOK, Summing, Tiling, Counts, Answering, Spawn, Idle, tasks, agent
<1> QED
    BY <1>1, <1>2, <1>3 DEF IInv

LEMMA RegisterKeeps == ASSUME IInv, Register PROVE IInv'
<1>1. offset[target] \in 0..stdout_buf[target] /\ stdout_buf[target] \in 0..printed[target]
      /\ printed[target] \in 0..MaxOutput /\ MaxOutput \in Nat
    BY ProcessAssumption DEF IInv, TypeOK
<1>2. TypeOK'
    BY <1>1 DEF IInv, TypeOK, Tiling, Counts, Register, child, fields, tasks, agent
<1>3. Endings' /\ Explained' /\ Summing'
    BY DEF IInv, Endings, Explained, Summing, Register, child, fields, tasks
<1>4. Tiling' /\ Counts'
    <2>1. /\ full' = offset[target] /\ pc' = "running" /\ pc = "register"
          /\ UNCHANGED <<target, received, offset, stdout_buf>>
        BY DEF Register, tasks, agent
    <2>2. \A p \in Proc : received[p] = offset[p]
        BY <2>1 DEF IInv, Tiling, Answering
    <2> QED
        BY <1>1, <2>1, <2>2 DEF IInv, Tiling, Counts, Answering
<1> QED
    BY <1>2, <1>3, <1>4 DEF IInv

LEMMA PollBufferKeeps == ASSUME IInv, NEW p \in Proc, PollBuffer(p) PROVE IInv'
<1>1. offset[p] \in 0..stdout_buf[p] /\ stdout_buf[p] \in 0..printed[p]
      /\ printed[p] \in 0..MaxOutput /\ MaxOutput \in Nat /\ received[p] = offset[p]
    BY ProcessAssumption DEF IInv, TypeOK, PollBuffer, Idle, Tiling, Answering
<1>2. TypeOK'
    BY <1>1 DEF IInv, TypeOK, PollBuffer, child, fields, tasks
<1>3. Endings' /\ Explained' /\ Summing'
    BY DEF IInv, Endings, Explained, Summing, PollBuffer, child, fields, tasks
<1>4. received' = [received EXCEPT ![p] = stdout_buf[p]]
    <2>1. received[p] + (stdout_buf[p] - offset[p]) = stdout_buf[p]
        BY <1>1
    <2> QED
        BY <2>1 DEF PollBuffer
<1>5. Tiling' /\ Counts'
    <2>1. /\ full' = stdout_buf[p] /\ pc' = "running" /\ pc = "idle" /\ target' = p
          /\ UNCHANGED <<offset, stdout_buf>>
        BY DEF PollBuffer, Idle, tasks
    <2>2. \A q \in Proc : received[q] = offset[q]
        BY <2>1 DEF IInv, Tiling, Answering
    <2>3. Counts /\ stdout_buf[p] \in Nat
        BY <1>1 DEF IInv
    <2>4. Counts'
        BY <1>4, <2>1, <2>3 DEF Counts
    <2> QED
        BY <1>4, <2>1, <2>2, <2>3, <2>4 DEF Tiling, Counts, Answering
<1> QED
    BY <1>2, <1>3, <1>5 DEF IInv

LEMMA SignalKeeps == ASSUME IInv, NEW p \in Proc, Signal(p) PROVE IInv'
<1>1. offset[p] \in 0..stdout_buf[p] /\ stdout_buf[p] \in 0..printed[p]
      /\ printed[p] \in 0..MaxOutput /\ MaxOutput \in Nat
    BY ProcessAssumption DEF IInv, TypeOK
<1>2. TypeOK'
    BY <1>1 DEF IInv, TypeOK, Signal, child, fields, tasks, agent
<1>3. Endings' /\ Explained' /\ Summing'
    BY DEF IInv, Endings, Explained, Summing, Signal, child, fields, tasks
<1>4. Tiling' /\ Counts'
    BY <1>1 DEF IInv, TypeOK, Tiling, Counts, Answering, Signal, Idle, child, tasks, agent
<1> QED
    BY <1>2, <1>3, <1>4 DEF IInv

LEMMA SummariseKeeps == ASSUME IInv, Summarise PROVE IInv'
<1>0. UNCHANGED <<child, fields, tasks, processes, signalled, target, full, received,
                  released>>
    BY DEF Summarise
<1>1. CASE pc = "running"
    <2>1. /\ sum' = [running |-> running[target], exit_code |-> FALSE, signal |-> FALSE]
          /\ pc' = "exit_code" /\ UNCHANGED offset
        BY <1>1 DEF Summarise, Unknown
    <2>2. TypeOK'
        BY <1>0, <2>1 DEF IInv, TypeOK, child, fields, tasks
    <2>3. Endings' /\ Explained' /\ Summing'
        BY <1>0, <2>1 DEF IInv, TypeOK, Endings, Explained, Summing, child, fields, tasks
    <2>4. Tiling' /\ Counts'
        BY <1>0, <1>1, <2>1 DEF IInv, Tiling, Counts, Answering, child, tasks
    <2> QED
        BY <2>2, <2>3, <2>4 DEF IInv
<1>2. CASE pc = "exit_code"
    <2>1. /\ sum' = [sum EXCEPT !.exit_code = exit_code[target]]
          /\ pc' = "signal" /\ UNCHANGED offset
        BY <1>2 DEF Summarise
    <2>2. TypeOK'
        BY <1>0, <2>1 DEF IInv, TypeOK, child, fields, tasks
    <2>3. Endings' /\ Explained' /\ Summing'
        BY <1>0, <1>2, <2>1 DEF IInv, TypeOK, Endings, Explained, Summing, child, fields, tasks
    <2>4. Tiling' /\ Counts'
        BY <1>0, <1>2, <2>1 DEF IInv, Tiling, Counts, Answering, child, tasks
    <2> QED
        BY <2>2, <2>3, <2>4 DEF IInv
<1>3. CASE pc = "signal"
    <2>1. /\ sum' = [sum EXCEPT !.signal = signal_name[target]]
          /\ pc' = "reply" /\ UNCHANGED offset
        BY <1>3 DEF Summarise
    <2>2. TypeOK'
        BY <1>0, <2>1 DEF IInv, TypeOK, child, fields, tasks
    <2>3. Endings' /\ Explained' /\ Summing'
        BY <1>0, <1>3, <2>1 DEF IInv, TypeOK, Endings, Explained, Summing, child, fields, tasks
    <2>4. Tiling' /\ Counts'
        BY <1>0, <1>3, <2>1 DEF IInv, Tiling, Counts, Answering, child, tasks
    <2> QED
        BY <2>2, <2>3, <2>4 DEF IInv
<1>4. CASE pc = "reply"
    <2>1. pc' = "idle" /\ offset' = [offset EXCEPT ![target] = full] /\ UNCHANGED sum
        BY <1>4 DEF Summarise, NextOffset
    <2>2. TypeOK'
        BY <1>0, <1>4, <2>1 DEF IInv, TypeOK, Tiling, Counts, Answering, child, fields, tasks
    <2>3. Endings' /\ Explained' /\ Summing'
        BY <1>0, <2>1 DEF IInv, Endings, Explained, Summing, child, fields, tasks
    <2>4. Tiling' /\ Counts'
        BY <1>0, <1>4, <2>1 DEF IInv, TypeOK, Tiling, Counts, Answering, child, tasks
    <2> QED
        BY <2>2, <2>3, <2>4 DEF IInv
<1> QED
    BY <1>1, <1>2, <1>3, <1>4 DEF Summarise

LEMMA Preserved == IInv /\ [Next]_vars => IInv'
<1> SUFFICES ASSUME IInv, [Next]_vars PROVE IInv'
    OBVIOUS
<1>1. CASE Release \/ UNCHANGED vars
    <2>1. UNCHANGED <<child, fields, tasks, processes, signalled, call, agent>>
          /\ released' \in BOOLEAN
        BY <1>1 DEF Release, vars, IInv, TypeOK
    <2>2. TypeOK'
        BY <2>1 DEF IInv, TypeOK, child, fields, tasks, call, agent
    <2>3. Endings' /\ Explained' /\ Summing' /\ Tiling' /\ Counts'
        BY <2>1 DEF IInv, Endings, Explained, Summing, Tiling, Counts, Answering,
                    child, fields, tasks, call, agent
    <2> QED
        BY <2>2, <2>3 DEF IInv
<1>2. CASE Register \/ Summarise
    BY <1>2, RegisterKeeps, SummariseKeeps
<1>3. ASSUME NEW p \in Proc,
             \/ Emit(p) \/ End(p, "code") \/ End(p, "signal")
             \/ ReadOutput(p) \/ ReadFails(p) \/ Wait(p) \/ WaitFails(p) \/ Spawn(p) \/ PollBuffer(p) \/ Signal(p)
      PROVE  IInv'
    BY <1>3, EmitKeeps, EndKeeps, ReadOutputKeeps, ReadFailsKeeps, WaitKeeps, WaitFailsKeeps, SpawnKeeps, PollBufferKeeps,
       SignalKeeps
<1> QED
    BY <1>1, <1>2, <1>3 DEF Next

(* In every reachable state the waiter has set the fields in its order, and  *)
(* a reply under way agrees with what the agent was given.                   *)
THEOREM Invariance == Spec => []IInv
    BY Initially, Preserved, PTL DEF Spec

(* The agent gets the output once and whole, and an end with its reason.     *)
THEOREM PollsAgree == Spec => []PollsAreConsistent
<1>1. IInv => PollsAreConsistent
    <2> SUFFICES ASSUME IInv PROVE PollsAreConsistent
        OBVIOUS
    <2>1. PollsTile
        BY DEF IInv, Tiling, Counts, Answering, PollsTile
    <2>2. EndIsExplained
        <3> SUFFICES ASSUME pc = "reply", ~sum.running, target \notin unwaited
                     PROVE  /\ sum.exit_code = (ended[target] = "code")
                            /\ sum.signal = (ended[target] = "signal")
                            /\ sum.exit_code \/ sum.signal
            BY DEF EndIsExplained
        <3>1. waiter[target] >= 5 /\ target \in Proc /\ waiter[target] \in 1..5
            BY DEF IInv, Summing, TypeOK, WaiterSteps
        <3>2. os[target] = "reaped"
            BY <3>1 DEF IInv, Explained
        <3>3. ended[target] \in {"code", "signal"}
            BY <3>1, <3>2 DEF IInv, Endings, TypeOK
        <3> QED
            BY <3>3 DEF IInv, Summing
    <2> QED
        BY <2>1, <2>2 DEF PollsAreConsistent
<1> QED
    BY <1>1, Invariance, PTL

-----------------------------------------------------------------------------
(* The bash session *)

(* The commands written, a piece of their output, what a command does.       *)
Written == 1..Len(cmds)
Piece == [of : Written, kind : {"line", "frag", "mark"}]
Deed == [kind : AllKinds \cup {"path"}, code : Nat]

(* The types: of the shell and its pipes, of the call, of the agents.        *)
ShellTyped ==
    /\ alive \in BOOLEAN /\ job \in {0} \cup Written /\ input \in Seq(Written)
    /\ left \in [Stream -> Seq(Piece)] /\ pipe \in [Stream -> Seq(Piece)]
CallTyped ==
    /\ cmds \in Seq([does : Deed, which : BOOLEAN, snip : Nat])
    /\ current \in {0, Len(cmds)} /\ (current # 0 => queue # <<>>)
    /\ Len(cmds) = Len(answers) + (IF current = 0 THEN 0 ELSE 1)
    /\ buf \in [Stream -> Seq(Piece)] /\ part \in [Stream -> Seq(Piece)]
    /\ seen \in [Stream -> 0..Len(cmds)] /\ (current = 0 => seen = Both(0))
    /\ answers \in Seq([timed : BOOLEAN, mark : [Stream -> Nat], out : Seq(Piece), err : Seq(Piece)])
UsersTyped ==
    /\ queue \in Seq(Agent) /\ snip \in [Agent -> Nat]
    /\ phase \in [Agent -> {"idle", "which", "run"}]

(* A command prints no sentinel.  After it both printf lines are one step,   *)
(* which leaves stderr's sentinel to be printed (Closing).                  *)
Unmarked(t) == \A i \in DOMAIN t : t[i].kind # "mark"
Closing == left["err"] = <<Tok(job, "mark")>>
Shaped ==
    /\ job = 0 => left = Both(<<>>)
    /\ job # 0 => alive
    /\ Unmarked(left["out"])
    /\ Closing => left["out"] = <<>>
    /\ Unmarked(left["err"]) \/ Closing

(* The sentinels that a stream is still to show are of later commands than   *)
(* those it holds, which it holds in their order.                           *)
Inputs == {input[i] : i \in DOMAIN input}
Due(s) == Inputs \cup (IF job = 0 \/ (s = "out" /\ Closing) THEN {} ELSE {job})
MarksIn(s) == {i \in DOMAIN pipe[s] : pipe[s][i].kind = "mark"}
Marked(s) == {pipe[s][i].of : i \in MarksIn(s)}
Rising(s) == \A i, j \in MarksIn(s) : i < j => pipe[s][i].of < pipe[s][j].of
InputOrdered ==
    /\ \A i, j \in DOMAIN input : i < j => input[i] < input[j]
    /\ job # 0 => \A i \in DOMAIN input : job < input[i]
Ordered ==
    /\ InputOrdered
    /\ \A s \in Stream : Rising(s) /\ \A m \in Marked(s), d \in Due(s) : m < d
(* None of them is older than the timeouts so far allow.                    *)
Spent(s) == IF seen[s] = 0 THEN 0 ELSE 1
Floored ==
    \A s \in Stream :
        /\ \A m \in Marked(s) \cup Due(s) : m + Timeouts > Len(answers) + Spent(s)
        /\ seen[s] # 0 => seen[s] + Timeouts > Len(answers)

(* While nothing was troubled: between two calls the shell has nothing left  *)
(* to do and the pipes are empty; in a call, what is read, what waits in the *)
(* pipe and what is to come (Rest) are the command's text and its sentinel.  *)
Clean == Untroubled(Len(answers))
Mark == Tok(current, "mark")
Rest(s) ==
    IF input # <<>> THEN Append(Text(current, s), Mark)
    ELSE IF job # 0 THEN IF Closing THEN left[s] ELSE Append(left[s], Mark)
    ELSE IF alive THEN <<>> ELSE <<Mark>>
Silent == input = <<>> /\ job = 0 /\ left = Both(<<>>) /\ pipe = Both(<<>>)
Flows ==
    \A s \in Stream :
        IF seen[s] = 0 THEN buf[s] \o (pipe[s] \o Rest(s)) = Append(Text(current, s), Mark)
        ELSE seen[s] = current /\ pipe[s] = <<>> /\ Rest(s) = <<>> /\ buf[s] = Text(current, s)
Underway ==
    /\ part = Both(<<>>)
    /\ \/ input = <<current>> /\ job = 0
       \/ input = <<>> /\ job \in {0, current}
    /\ Flows
Own == Clean => /\ current = 0 => Silent
                /\ current # 0 /\ cmds[current].does.kind # "partial" => Underway

-----------------------------------------------------------------------------
(* Sequences.                                                               *)
LEMMA MoveOne ==
    ASSUME NEW S, NEW a \in Seq(S), NEW b \in Seq(S), b # <<>>
    PROVE  Append(a, Head(b)) \o Tail(b) = a \o b
<1>1. /\ Head(b) \in S /\ Tail(b) \in Seq(S) /\ Len(Tail(b)) = Len(b) - 1
      /\ \A i \in 1..Len(Tail(b)) : Tail(b)[i] = b[i + 1]
    BY HeadTailProperties
<1>2. Append(a, Head(b)) = a \o <<Head(b)>>
    BY <1>1, AppendIsConcat
<1>3. b = <<Head(b)>> \o Tail(b)
    <2>1. <<Head(b)>> \in Seq(S) /\ Len(<<Head(b)>>) = 1 /\ <<Head(b)>>[1] = b[1]
        BY <1>1
    <2>2. <<Head(b)>> \o Tail(b) \in Seq(S) /\ Len(<<Head(b)>> \o Tail(b)) = Len(b)
        BY <1>1, <2>1, ConcatProperties
    <2>3. ASSUME NEW i \in 1..Len(b) PROVE (<<Head(b)>> \o Tail(b))[i] = b[i]
        <3>1. (<<Head(b)>> \o Tail(b))[i] = IF i <= 1 THEN <<Head(b)>>[i] ELSE Tail(b)[i - 1]
            BY <1>1, <2>1, ConcatProperties
        <3>2. CASE i = 1
            BY <2>1, <3>1, <3>2
        <3>3. CASE i # 1
            <4>1. i - 1 \in 1..Len(Tail(b)) /\ i - 1 + 1 = i /\ ~(i <= 1)
                BY <1>1, <3>3
            <4> QED
                BY <1>1, <3>1, <4>1
        <3> QED
            BY <3>2, <3>3
    <2> QED
        BY <2>2, <2>3, SeqEqual
<1>4. (a \o <<Head(b)>>) \o Tail(b) = a \o (<<Head(b)>> \o Tail(b))
    BY <1>1, ConcatAssociative
<1> QED
    BY <1>2, <1>3, <1>4

LEMMA TailOfConcat ==
    ASSUME NEW S, NEW a \in Seq(S), NEW b \in Seq(S), a # <<>>
    PROVE  Head(a \o b) = Head(a) /\ Tail(a \o b) = Tail(a) \o b /\ a \o b # <<>>
<1>1. /\ Tail(a) \in Seq(S) /\ Len(Tail(a)) = Len(a) - 1 /\ Len(a) \in Nat \ {0} /\ Len(b) \in Nat
      /\ \A i \in 1..Len(Tail(a)) : Tail(a)[i] = a[i + 1]
    BY HeadTailProperties, EmptySeq, LenProperties
<1>2. /\ a \o b \in Seq(S) /\ Len(a \o b) = Len(a) + Len(b)
      /\ \A i \in 1..(Len(a) + Len(b)) : (a \o b)[i] = IF i <= Len(a) THEN a[i] ELSE b[i - Len(a)]
    BY ConcatProperties
<1>3. a \o b # <<>>
    BY <1>1, <1>2
<1>4. Head(a \o b) = Head(a)
    BY <1>1, <1>2, <1>3
<1>5. /\ Tail(a \o b) \in Seq(S) /\ Len(Tail(a \o b)) = Len(a) + Len(b) - 1
      /\ \A i \in 1..Len(Tail(a \o b)) : Tail(a \o b)[i] = (a \o b)[i + 1]
    BY <1>2, <1>3, HeadTailProperties
<1>6. /\ Tail(a) \o b \in Seq(S) /\ Len(Tail(a) \o b) = Len(a) - 1 + Len(b)
      /\ \A i \in 1..(Len(Tail(a)) + Len(b)) :
            (Tail(a) \o b)[i] = IF i <= Len(Tail(a)) THEN Tail(a)[i] ELSE b[i - Len(Tail(a))]
    BY <1>1, ConcatProperties
<1>7. ASSUME NEW i \in 1..Len(Tail(a \o b)) PROVE Tail(a \o b)[i] = (Tail(a) \o b)[i]
    <2>1. /\ i \in Nat /\ i \in 1..(Len(Tail(a)) + Len(b)) /\ i + 1 \in 1..(Len(a) + Len(b))
          /\ (i <= Len(Tail(a)) <=> i + 1 <= Len(a)) /\ i + 1 - Len(a) = i - Len(Tail(a))
        BY <1>1, <1>5
    <2>2. Tail(a \o b)[i] = IF i + 1 <= Len(a) THEN a[i + 1] ELSE b[i + 1 - Len(a)]
        BY <1>2, <1>5, <2>1
    <2>3. i <= Len(Tail(a)) => Tail(a)[i] = a[i + 1]
        BY <1>1, <2>1
    <2> QED
        BY <1>6, <2>1, <2>2, <2>3
<1>8. Tail(a \o b) = Tail(a) \o b
    BY <1>1, <1>5, <1>6, <1>7, SeqEqual
<1> QED
    BY <1>3, <1>4, <1>8

LEMMA AppendInside ==
    ASSUME NEW S, NEW a \in Seq(S), NEW b \in Seq(S), NEW e \in S
    PROVE  a \o Append(b, e) = Append(a \o b, e)
<1>1. Append(b, e) = b \o <<e>> /\ Append(a \o b, e) = (a \o b) \o <<e>>
    BY AppendIsConcat, ConcatProperties
<1> QED
    BY <1>1, ConcatAssociative

(* Where the rest b of a sequence that ends in m begins.                     *)
Completes(b, a, t, m) == a \o b = Append(t, m)

LEMMA EndsIn ==
    ASSUME NEW S, NEW a \in Seq(S), NEW b \in Seq(S), NEW t \in Seq(S), NEW m \in S,
           Completes(b, a, t, m), b # <<>>
    PROVE  \/ Len(a) + 1 \in 1..Len(t) /\ Head(b) = t[Len(a) + 1]
           \/ Head(b) = m /\ a = t /\ Tail(b) = <<>>
<1>1. Len(a) \in Nat /\ Len(t) \in Nat /\ Len(b) \in Nat \ {0}
    BY LenProperties, EmptySeq
<1>2. /\ Len(a \o b) = Len(a) + Len(b)
      /\ \A i \in 1..(Len(a) + Len(b)) : (a \o b)[i] = IF i <= Len(a) THEN a[i] ELSE b[i - Len(a)]
    BY ConcatProperties
<1>3. /\ Len(Append(t, m)) = Len(t) + 1
      /\ \A i \in 1..Len(t) : Append(t, m)[i] = t[i]
      /\ Append(t, m)[Len(t) + 1] = m
    BY AppendProperties
<1>4. Len(a) + Len(b) = Len(t) + 1 /\ a \o b = Append(t, m)
    BY <1>2, <1>3 DEF Completes
<1>5. Head(b) = Append(t, m)[Len(a) + 1]
    <2>1. Len(a) + 1 \in 1..(Len(a) + Len(b)) /\ ~(Len(a) + 1 <= Len(a)) /\ Len(a) + 1 - Len(a) = 1
        BY <1>1
    <2>2. (a \o b)[Len(a) + 1] = b[1]
        BY <1>2, <2>1
    <2>3. Head(b) = b[1]
        OBVIOUS
    <2> QED
        BY <1>4, <2>2, <2>3
<1>6. CASE Len(a) < Len(t)
    <2>1. Len(a) + 1 \in 1..Len(t)
        BY <1>1, <1>6
    <2> QED
        BY <1>3, <1>5, <2>1
<1>7. CASE ~(Len(a) < Len(t))
    <2>1. \A x, y, z \in Nat : x + y = z + 1 /\ y # 0 /\ ~(x < z) => x = z /\ y = 1
        OBVIOUS
    <2>2. Len(a) = Len(t) /\ Len(b) = 1
        BY <1>1, <1>4, <1>7, <2>1
    <2>3. Head(b) = m
        BY <1>3, <1>5, <2>2
    <2>4. ASSUME NEW i \in 1..Len(t) PROVE a[i] = t[i]
        <3>1. i \in 1..(Len(a) + Len(b)) /\ i <= Len(a)
            BY <1>1, <2>2
        <3> QED
            BY <1>2, <1>3, <1>4, <3>1
    <2>5. a = t
        BY <2>2, <2>4, SeqEqual
    <2>6. Tail(b) = <<>>
        <3>1. Tail(b) \in Seq(S) /\ Len(Tail(b)) = 0
            BY <1>1, <2>2, HeadTailProperties
        <3> QED
            BY <3>1, EmptySeq
    <2> QED
        BY <2>3, <2>5, <2>6
<1> QED
    BY <1>6, <1>7

-----------------------------------------------------------------------------
(* What a command prints is nothing, a line, or an unfinished line.         *)
LEMMA TextIs ==
    ASSUME NEW n, NEW s \in Stream
    PROVE  \/ Text(n, s) = <<>>
           \/ Text(n, s) = <<Tok(n, "line")>>
           \/ Text(n, s) = <<Tok(n, "frag")>> /\ cmds[n].does.kind = "partial"
<1>1. CASE Says(cmds[n].does.kind, s) = <<>>
    BY <1>1 DEF Text
<1>2. CASE Says(cmds[n].does.kind, s) = <<"line">>
    BY <1>2 DEF Text
<1>3. CASE Says(cmds[n].does.kind, s) = <<"frag">> /\ cmds[n].does.kind = "partial"
    BY <1>3 DEF Text
<1> QED
    BY <1>1, <1>2, <1>3 DEF Says

LEMMA TextTyped ==
    ASSUME NEW n \in Written, NEW s \in Stream
    PROVE  Text(n, s) \in Seq(Piece) /\ Unmarked(Text(n, s))
<1>1. Tok(n, "line") \in Piece /\ Tok(n, "frag") \in Piece
    BY DEF Tok, Piece
<1>2. <<>> \in Seq(Piece) /\ Unmarked(<<>>)
    BY DEF Unmarked
<1>3. \A t \in Piece : <<t>> \in Seq(Piece) /\ (t.kind # "mark" => Unmarked(<<t>>))
    BY DEF Unmarked
<1>4. Tok(n, "line").kind # "mark" /\ Tok(n, "frag").kind # "mark"
    BY DEF Tok
<1> QED
    BY <1>1, <1>2, <1>3, <1>4, TextIs

(* A stream's sequence grows at its end and shrinks at its head.            *)
LEMMA Grown ==
    ASSUME NEW S, NEW f \in [Stream -> Seq(S)], NEW s \in Stream, NEW t \in S
    PROVE  [f EXCEPT ![s] = Append(@, t)] \in [Stream -> Seq(S)]
<1>1. Append(f[s], t) \in Seq(S)
    BY AppendProperties
<1> QED
    BY <1>1

LEMMA Shrunk ==
    ASSUME NEW S, NEW f \in [Stream -> Seq(S)], NEW s \in Stream, f[s] # <<>>
    PROVE  [f EXCEPT ![s] = Tail(@)] \in [Stream -> Seq(S)] /\ Head(f[s]) \in S
<1>1. Tail(f[s]) \in Seq(S) /\ Head(f[s]) \in S
    BY HeadTailProperties
<1> QED
    BY <1>1

-----------------------------------------------------------------------------
(* Types.                                                                   *)
Typed == ShellTyped /\ CallTyped /\ UsersTyped

LEMMA StartJobTyped == ASSUME Typed, StartJob PROVE Typed'
<1>1. Head(input) \in Written /\ Tail(input) \in Seq(Written)
    BY HeadTailProperties DEF Typed, ShellTyped, StartJob
<1>2. \A s \in Stream : Text(Head(input), s) \in Seq(Piece)
    BY <1>1, TextTyped
<1>3. ShellTyped'
    BY <1>1, <1>2 DEF Typed, ShellTyped, StartJob, Written, Piece
<1>4. CallTyped' /\ UsersTyped'
    BY DEF Typed, CallTyped, UsersTyped, StartJob, reader, Written, Piece
<1> QED
    BY <1>3, <1>4 DEF Typed

LEMMA PrintNextTyped == ASSUME Typed, NEW s \in Stream, PrintNext(s) PROVE Typed'
<1>1. left' \in [Stream -> Seq(Piece)] /\ Head(left[s]) \in Piece
    BY Shrunk DEF Typed, ShellTyped, PrintNext
<1>2. pipe' \in [Stream -> Seq(Piece)]
    BY <1>1, Grown DEF Typed, ShellTyped, PrintNext
<1>3. ShellTyped'
    BY <1>1, <1>2 DEF Typed, ShellTyped, PrintNext, Written, Piece
<1>4. CallTyped' /\ UsersTyped'
    BY DEF Typed, CallTyped, UsersTyped, PrintNext, reader, Written, Piece
<1> QED
    BY <1>3, <1>4 DEF Typed

LEMMA EndJobTyped == ASSUME Typed, EndJob PROVE Typed'
<1>1. job \in Written /\ Tok(job, "mark") \in Piece
    BY DEF Typed, ShellTyped, EndJob, Done, Tok, Piece
<1>2. pipe' \in [Stream -> Seq(Piece)]
    BY <1>1, Grown DEF Typed, ShellTyped, EndJob, Stream
<1>3. left' \in [Stream -> Seq(Piece)]
    <2>1. <<Tok(job, "mark")>> \in Seq(Piece) /\ left \in [Stream -> Seq(Piece)]
        BY <1>1 DEF Typed, ShellTyped
    <2> QED
        BY <2>1 DEF EndJob
<1>4. ShellTyped'
    BY <1>2, <1>3 DEF Typed, ShellTyped, EndJob, Written, Piece
<1>5. CallTyped' /\ UsersTyped'
    BY DEF Typed, CallTyped, UsersTyped, EndJob, reader, Written, Piece
<1> QED
    BY <1>4, <1>5 DEF Typed

LEMMA SwallowTyped == ASSUME Typed, Swallow PROVE Typed'
<1>1. Head(input) \in Written /\ Tail(input) \in Seq(Written)
    BY HeadTailProperties DEF Typed, ShellTyped, Swallow
<1>2. Tok(Head(input), "line") \in Piece
    BY <1>1 DEF Tok, Piece
<1>3. pipe' \in [Stream -> Seq(Piece)]
    BY <1>2, Grown DEF Typed, ShellTyped, Swallow, Stream
<1>4. ShellTyped'
    BY <1>1, <1>3 DEF Typed, ShellTyped, Swallow, Written, Piece
<1>5. CallTyped' /\ UsersTyped'
    BY DEF Typed, CallTyped, UsersTyped, Swallow, reader, Written, Piece
<1> QED
    BY <1>4, <1>5 DEF Typed

LEMMA ExitShellTyped == ASSUME Typed, ExitShell PROVE Typed'
<1>1. ShellTyped'
    BY DEF Typed, ShellTyped, ExitShell, Written, Piece
<1>2. CallTyped' /\ UsersTyped'
    BY DEF Typed, CallTyped, UsersTyped, ExitShell, reader, Written, Piece
<1> QED
    BY <1>1, <1>2 DEF Typed

LEMMA RequestTyped == 
    ASSUME Typed, NEW a \in Agent, NEW first \in {"which", "run"}, Request(a, first)
    PROVE  Typed'
<1>1. queue' \in Seq(Agent) /\ queue' # <<>>
    BY AppendProperties DEF Typed, UsersTyped, Request
<1>2. ShellTyped' 
    BY DEF Typed, ShellTyped, Request, shell, Written, Piece
<1>3. CallTyped'
    BY <1>1 DEF Typed, CallTyped, Request, reader, Written, Piece
<1>4. UsersTyped'
    BY <1>1 DEF Typed, UsersTyped, Request
<1> QED
    BY <1>2, <1>3, <1>4 DEF Typed

LEMMA IssueFailsTyped == ASSUME Typed, IssueFails PROVE Typed'
<1>1. queue' \in Seq(Agent)
    BY HeadTailProperties DEF Typed, UsersTyped, IssueFails, Free
<1>2. ShellTyped' 
    BY DEF Typed, ShellTyped, IssueFails, shell, Written, Piece
<1>3. CallTyped'
    BY <1>1 DEF Typed, CallTyped, IssueFails, Free, reader, Written, Piece
<1>4. UsersTyped'
    BY <1>1 DEF Typed, UsersTyped, IssueFails
<1> QED
    BY <1>2, <1>3, <1>4 DEF Typed

LEMMA IssueTyped == 
    ASSUME Typed, NEW does \in Behaviour \cup {WhichSnip}, Issue(does)
    PROVE  Typed'
<1> DEFINE n == Len(cmds) + 1
<1> DEFINE c == [does |-> does, which |-> phase[Holder] = "which",
                 snip |-> IF phase[Holder] = "which" THEN 0 ELSE snip[Holder]]
<1>1. current = 0 /\ queue # <<>> /\ cmds' = Append(cmds, c) /\ input' = Append(input, n) /\ current' = n
    BY DEF Issue, Free
<1>2. UNCHANGED <<alive, job, left, pipe, queue, phase, snip, answers>>
    BY DEF Issue
<1>3. does \in Deed
    <2>1. CASE does \in Behaviour
        BY <2>1, BashAssumption DEF Behaviour, Deed
    <2>2. CASE does = WhichSnip
        <3>1. "silent" \in AllKinds
            BY DEF AllKinds
        <3> QED
            BY <2>2, <3>1 DEF WhichSnip, Deed
    <2> QED
        BY <2>1, <2>2
<1>4. Holder \in Agent
    BY <1>1, HeadTailProperties DEF Typed, UsersTyped, Holder
<1>5. c \in [does : Deed, which : BOOLEAN, snip : Nat]
    BY <1>3, <1>4 DEF Typed, UsersTyped
<1>6. /\ Len(cmds) \in Nat /\ Len(cmds') = Len(cmds) + 1
      /\ cmds' \in Seq([does : Deed, which : BOOLEAN, snip : Nat])
    BY <1>1, <1>5, AppendProperties, LenProperties DEF Typed, CallTyped
<1>7. Written \subseteq Written' /\ n \in Written' /\ Piece \subseteq Piece'
    <2>1. Written' = 1..(Len(cmds) + 1) /\ Written \subseteq Written'
        BY <1>6 DEF Written
    <2>2. n \in Written'
        BY <1>6, <2>1
    <2> QED
        BY <2>1, <2>2 DEF Piece
<1>8. \A f \in [Stream -> Seq(Piece)] : f \in [Stream -> Seq(Piece')]
    <2>1. \A t \in Seq(Piece) : t \in Seq(Piece')
        BY <1>7, SeqMonotonic
    <2> QED
        BY <2>1
<1>9. ShellTyped'
    <2>1. input' \in Seq(Written')
        <3>1. input \in Seq(Written')
            BY <1>7, SeqMonotonic DEF Typed, ShellTyped
        <3> QED
            BY <1>1, <1>7, <3>1, AppendProperties
    <2>2. left' \in [Stream -> Seq(Piece')] /\ pipe' \in [Stream -> Seq(Piece')]
        BY <1>2, <1>8 DEF Typed, ShellTyped
    <2>3. alive' \in BOOLEAN /\ job' \in {0} \cup Written'
        BY <1>2, <1>7 DEF Typed, ShellTyped
    <2> QED
        BY <2>1, <2>2, <2>3 DEF ShellTyped
<1>10. CallTyped'
    <2>1. buf' = Both(<<>>) /\ part' = Both(<<>>) /\ seen' = Both(0)
        BY DEF Issue, Fresh
    <2>2. <<>> \in Seq(Piece') /\ 0 \in 0..Len(cmds')
        BY <1>6
    <2>3. /\ buf' \in [Stream -> Seq(Piece')] /\ part' \in [Stream -> Seq(Piece')]
          /\ seen' \in [Stream -> 0..Len(cmds')]
        BY <2>1, <2>2 DEF Both
    <2>4. answers' \in Seq([timed : BOOLEAN, mark : [Stream -> Nat], out : Seq(Piece'), err : Seq(Piece')])
        <3>1. \A t \in Seq(Piece) : t \in Seq(Piece')
            BY <1>7, SeqMonotonic
        <3>2. [timed : BOOLEAN, mark : [Stream -> Nat], out : Seq(Piece), err : Seq(Piece)]
                \subseteq [timed : BOOLEAN, mark : [Stream -> Nat], out : Seq(Piece'), err : Seq(Piece')]
            BY <3>1
        <3>3. answers \in Seq([timed : BOOLEAN, mark : [Stream -> Nat], out : Seq(Piece), err : Seq(Piece)])
            BY DEF Typed, CallTyped
        <3> HIDE <1>7
        <3> QED
            BY <1>2, <3>2, <3>3, SeqMonotonic
    <2>5. Len(cmds') = Len(answers') + 1 /\ current' = Len(cmds') /\ current' # 0
        BY <1>1, <1>2, <1>6 DEF Typed, CallTyped
    <2> QED
        BY <1>1, <1>2, <1>6, <2>1, <2>3, <2>4, <2>5 DEF CallTyped
<1>11. UsersTyped'
    BY <1>2 DEF Typed, UsersTyped
<1> QED
    BY <1>9, <1>10, <1>11 DEF Typed

LEMMA ReadEndTyped == ASSUME Typed, NEW s \in Stream, ReadEnd(s) PROVE Typed'
<1>1. buf[s] \o part[s] \in Seq(Piece)
    BY ConcatProperties DEF Typed, CallTyped
<1>2. buf' \in [Stream -> Seq(Piece)] /\ part' \in [Stream -> Seq(Piece)]
    BY <1>1 DEF Typed, CallTyped, ReadEnd, Complete, Both
<1>3. ShellTyped'
    BY DEF Typed, ShellTyped, ReadEnd, shell, Written, Piece
<1>4. CallTyped'
    BY <1>2 DEF Typed, CallTyped, ReadEnd, Written, Piece
<1>5. UsersTyped'
    BY DEF Typed, UsersTyped, ReadEnd
<1> QED
    BY <1>3, <1>4, <1>5 DEF Typed

LEMMA ReadChunkTyped == ASSUME Typed, NEW s \in Stream, ReadChunk(s) PROVE Typed'
<1> DEFINE t == Head(pipe[s])
<1>1. pipe' \in [Stream -> Seq(Piece)] /\ t \in Piece
    BY Shrunk DEF Typed, ShellTyped, ReadChunk
<1>2. ShellTyped'
    BY <1>1 DEF Typed, ShellTyped, ReadChunk, shell, Written, Piece
<1>3. UsersTyped'
    BY DEF Typed, UsersTyped, ReadChunk
<1>4. /\ buf' \in [Stream -> Seq(Piece)] /\ part' \in [Stream -> Seq(Piece)]
      /\ seen' \in [Stream -> 0..Len(cmds)]
    <2>0. /\ buf \in [Stream -> Seq(Piece)] /\ part \in [Stream -> Seq(Piece)]
          /\ seen \in [Stream -> 0..Len(cmds)]
        BY DEF Typed, CallTyped
    <2>1. CASE part' = [part EXCEPT ![s] = Append(@, t)] /\ UNCHANGED <<buf, seen>>
        BY <1>1, <2>0, <2>1, Grown
    <2>2. CASE seen' = [seen EXCEPT ![s] = t.of] /\ Complete(s, <<>>)
        <3>1. t.of \in 0..Len(cmds)
            <4>1. t.of \in 1..Len(cmds) /\ Len(cmds) \in Nat
                BY <1>1, LenProperties DEF Piece, Written, Typed, CallTyped
            <4> QED
                BY <4>1
        <3>2. buf[s] \o <<>> = buf[s]
            BY <2>0, ConcatEmptySeq
        <3>3. seen' \in [Stream -> 0..Len(cmds)]
            BY <2>0, <2>2, <3>1
        <3>4. buf' \in [Stream -> Seq(Piece)]
            BY <2>0, <2>2, <3>2 DEF Complete
        <3>5. part' \in [Stream -> Seq(Piece)]
            BY <2>2 DEF Complete, Both
        <3> QED
            BY <3>3, <3>4, <3>5
    <2>3. CASE Complete(s, Append(part[s], t)) /\ UNCHANGED seen
        <3>1. buf[s] \o Append(part[s], t) \in Seq(Piece)
            BY <1>1, <2>0, ConcatProperties, AppendProperties
        <3>2. buf' \in [Stream -> Seq(Piece)]
            BY <2>0, <2>3, <3>1 DEF Complete
        <3>3. part' \in [Stream -> Seq(Piece)]
            BY <2>3 DEF Complete, Both
        <3> QED
            BY <2>0, <2>3, <3>2, <3>3
    <2> QED
        BY <2>1, <2>2, <2>3 DEF ReadChunk
<1>5. CallTyped'
    <2>1. UNCHANGED <<cmds, queue, current, answers>> /\ current # 0
        BY DEF ReadChunk, Reading
    <2> QED
        BY <1>4, <2>1 DEF Typed, CallTyped, Written, Piece
<1> QED
    BY <1>2, <1>3, <1>5 DEF Typed

LEMMA ReturnTyped ==
    ASSUME Typed, current # 0, NEW timed \in BOOLEAN, Return(Answer(timed))
    PROVE  Typed' /\ answers' = Append(answers, Answer(timed)) /\ Len(answers') = Len(answers) + 1
<1> DEFINE ans == Answer(timed)
<1>1. /\ answers' = Append(answers, ans) /\ current' = 0
      /\ buf' = Both(<<>>) /\ part' = Both(<<>>) /\ seen' = Both(0)
      /\ UNCHANGED <<shell, pipe, cmds>>
    BY DEF Return, Fresh
<1>2. seen \in [Stream -> Nat]
    <2>1. Len(cmds) \in Nat /\ seen \in [Stream -> 0..Len(cmds)]
        BY LenProperties DEF Typed, CallTyped
    <2> QED
        BY <2>1
<1>3. ans \in [timed : BOOLEAN, mark : [Stream -> Nat], out : Seq(Piece), err : Seq(Piece)]
    BY <1>2 DEF Answer, Typed, CallTyped, Stream
<1>4. /\ answers' \in Seq([timed : BOOLEAN, mark : [Stream -> Nat], out : Seq(Piece), err : Seq(Piece)])
      /\ Len(answers') = Len(answers) + 1
    BY <1>1, <1>3, AppendProperties DEF Typed, CallTyped
<1>5. CallTyped'
    <2>1. Written' = Written /\ Piece' = Piece
        BY <1>1 DEF Written, Piece
    <2>2. /\ buf' \in [Stream -> Seq(Piece)] /\ part' \in [Stream -> Seq(Piece)]
          /\ seen' \in [Stream -> 0..Len(cmds)]
        <3>1. <<>> \in Seq(Piece) /\ 0 \in 0..Len(cmds)
            BY LenProperties DEF Typed, CallTyped
        <3> QED
            BY <1>1, <3>1 DEF Both
    <2>3. Len(cmds) = Len(answers') + 0
        BY <1>4, LenProperties DEF Typed, CallTyped
    <2>4. Len(cmds) = Len(answers')
        BY <1>4, <2>3, LenProperties
    <2> QED
        BY <1>1, <1>4, <2>1, <2>2, <2>3, <2>4 DEF Typed, CallTyped
<1>6. ShellTyped'
    BY <1>1 DEF Typed, ShellTyped, shell, Written, Piece
<1>7. UsersTyped'
    <2>1. queue # <<>> /\ queue \in Seq(Agent)
        BY DEF Typed, CallTyped, UsersTyped
    <2>2. Holder \in Agent /\ Unlock(Holder) \in Seq(Agent)
        BY <2>1, HeadTailProperties DEF Holder, Unlock
    <2>3. Append(Unlock(Holder), Holder) \in Seq(Agent)
        BY <2>2, AppendProperties
    <2>4. PathOf(ans) \in Nat
        <3>1. CASE ans.out = <<>>
            BY <3>1 DEF PathOf
        <3>2. CASE ans.out # <<>>
            <4>1. Head(ans.out) \in Piece
                BY <1>3, <3>2, HeadTailProperties
            <4> QED
                BY <4>1 DEF PathOf, Piece, Written
        <3> QED
            BY <3>1, <3>2
    <2>5. CASE phase[Holder] = "which"
        <3>1. /\ snip' = [snip EXCEPT ![Holder] = PathOf(ans)]
              /\ phase' = [phase EXCEPT ![Holder] = "run"]
              /\ queue' = Append(Unlock(Holder), Holder)
            BY <2>5 DEF Return
        <3> QED
            BY <2>2, <2>3, <2>4, <3>1 DEF Typed, UsersTyped
    <2>6. CASE phase[Holder] # "which"
        <3>1. /\ snip' = [snip EXCEPT ![Holder] = 0]
              /\ phase' = [phase EXCEPT ![Holder] = "idle"]
              /\ queue' = Unlock(Holder)
            BY <2>6 DEF Return
        <3> QED
            BY <2>2, <3>1 DEF Typed, UsersTyped
    <2> QED
        BY <2>5, <2>6
<1> QED
    BY <1>1, <1>4, <1>5, <1>6, <1>7 DEF Typed

-----------------------------------------------------------------------------
(* What the shell still has to print.                                       *)
LEMMA Parts ==
    ASSUME NEW S, NEW p \in Seq(S), p # <<>>
    PROVE  /\ DOMAIN p = 1..Len(p) /\ DOMAIN Tail(p) = 1..(Len(p) - 1) /\ Len(p) \in Nat \ {0}
           /\ \A i \in DOMAIN Tail(p) : i + 1 \in DOMAIN p /\ Tail(p)[i] = p[i + 1]
           /\ 1 \in DOMAIN p /\ Head(p) = p[1]
<1>1. /\ Tail(p) \in Seq(S) /\ Len(Tail(p)) = Len(p) - 1
      /\ \A i \in 1..Len(Tail(p)) : Tail(p)[i] = p[i + 1]
    BY HeadTailProperties
<1>2. Len(p) \in Nat \ {0} /\ DOMAIN p = 1..Len(p) /\ DOMAIN Tail(p) = 1..(Len(p) - 1)
    BY <1>1, LenProperties, EmptySeq
<1>3. 1 \in DOMAIN p /\ Head(p) = p[1]
    BY <1>2
<1>4. ASSUME NEW i \in DOMAIN Tail(p) PROVE i + 1 \in DOMAIN p /\ Tail(p)[i] = p[i + 1]
    BY <1>1, <1>2
<1> QED
    BY <1>2, <1>3, <1>4

LEMMA TailUnmarked ==
    ASSUME NEW S, NEW p \in Seq(S), p # <<>>, Unmarked(p)
    PROVE  Unmarked(Tail(p)) /\ Head(p).kind # "mark"
<1>1. /\ \A i \in DOMAIN Tail(p) : i + 1 \in DOMAIN p /\ Tail(p)[i] = p[i + 1]
      /\ 1 \in DOMAIN p /\ Head(p) = p[1]
    BY Parts
<1>2. \A i \in DOMAIN p : p[i].kind # "mark"
    BY DEF Unmarked
<1>3. \A i \in DOMAIN Tail(p) : Tail(p)[i].kind # "mark"
    BY <1>1, <1>2
<1> QED
    BY <1>1, <1>2, <1>3 DEF Unmarked

LEMMA MarkIsMarked == \A n : ~Unmarked(<<Tok(n, "mark")>>) /\ <<Tok(n, "mark")>> # <<>>
BY DEF Unmarked, Tok

LEMMA EmptyUnmarked == Unmarked(<<>>)
BY DEF Unmarked

LEMMA OneElement == ASSUME NEW x PROVE Head(<<x>>) = x /\ Tail(<<x>>) = <<>> /\ Append(<<>>, x) = <<x>>
<1>1. <<x>> \in Seq({x}) /\ <<x>> # <<>> /\ Len(<<x>>) = 1 /\ <<x>>[1] = x
    OBVIOUS
<1>2. Tail(<<x>>) \in Seq({x}) /\ Len(Tail(<<x>>)) = 0
    BY <1>1, HeadTailProperties
<1>3. Tail(<<x>>) = <<>>
    BY <1>2, EmptySeq
<1>4. Append(<<>>, x) = <<>> \o <<x>> /\ <<>> \o <<x>> = <<x>>
    BY <1>1, EmptySeq, AppendIsConcat, ConcatEmptySeq
<1> QED
    BY <1>1, <1>3, <1>4

(* The cases of PrintNext: the last sentinel, or a piece that is none.       *)
LEMMA PrintCases ==
    ASSUME Typed, Shaped, NEW s \in Stream, PrintNext(s)
    PROVE  /\ job # 0 /\ alive /\ UNCHANGED <<alive, input>>
           /\ \/ /\ s = "err" /\ Closing /\ Head(left[s]) = Tok(job, "mark")
                 /\ left = [x \in Stream |-> IF x = "err" THEN <<Tok(job, "mark")>> ELSE <<>>]
                 /\ left' = Both(<<>>) /\ job' = 0
              \/ /\ ~Closing /\ ~Closing' /\ Unmarked(left[s]) /\ Head(left[s]).kind # "mark"
                 /\ Unmarked(left["err"]) /\ Unmarked(left'["err"]) /\ Unmarked(left'["out"])
                 /\ job' = job
<1>1. /\ left[s] # <<>> /\ left \in [Stream -> Seq(Piece)] /\ left' = [left EXCEPT ![s] = Tail(@)]
      /\ job' = IF left' = Both(<<>>) /\ Head(left[s]).kind = "mark" THEN 0 ELSE job
      /\ UNCHANGED <<alive, input>>
    BY DEF PrintNext, Typed, ShellTyped
<1>2. job # 0 /\ alive
    BY <1>1 DEF Shaped, Both
<1>3. CASE Closing
    <2>1. left["out"] = <<>> /\ left["err"] = <<Tok(job, "mark")>>
        BY <1>3 DEF Shaped, Closing
    <2>2. s = "err"
        BY <1>1, <2>1 DEF Stream
    <2>3. Head(left[s]) = Tok(job, "mark") /\ Tail(left[s]) = <<>>
        BY <2>1, <2>2, OneElement
    <2>4. left' = Both(<<>>)
        BY <1>1, <2>1, <2>2, <2>3 DEF Both, Stream
    <2>5. left = [x \in Stream |-> IF x = "err" THEN <<Tok(job, "mark")>> ELSE <<>>]
        BY <1>1, <2>1 DEF Stream
    <2>6. job' = 0
        BY <1>1, <2>3, <2>4 DEF Tok
    <2> QED
        BY <1>1, <1>2, <1>3, <2>2, <2>3, <2>4, <2>5, <2>6
<1>4. CASE ~Closing
    <2>1. Unmarked(left["err"]) /\ Unmarked(left["out"])
        BY <1>4 DEF Shaped
    <2>2. Unmarked(left[s])
        BY <2>1 DEF Stream
    <2>3. Unmarked(Tail(left[s])) /\ Head(left[s]).kind # "mark"
        BY <1>1, <2>2, TailUnmarked
    <2>4. Unmarked(left'["err"]) /\ Unmarked(left'["out"])
        BY <1>1, <2>1, <2>3 DEF Stream
    <2>5. job' = job
        BY <1>1, <2>3
    <2>6. ~Closing'
        BY <2>4, MarkIsMarked DEF Closing
    <2> QED
        BY <1>1, <1>2, <1>4, <2>1, <2>2, <2>3, <2>4, <2>5, <2>6
<1> QED
    BY <1>3, <1>4

LEMMA DoneCases ==
    ASSUME Typed, Shaped, Done
    PROVE  job # 0 /\ job \in Written /\ alive /\ left = Both(<<>>) /\ ~Closing
<1>1. left["err"] = <<>>
    BY DEF Done, Both, Stream
<1> QED
    BY <1>1, MarkIsMarked DEF Done, Shaped, Closing, Typed, ShellTyped

LEMMA ShellShaped == ASSUME Typed, Shaped, Shell PROVE Shaped'
<1>1. CASE StartJob
    <2>1. /\ job' = Head(input) /\ job' \in Written /\ alive' /\ left' = [s \in Stream |-> Text(job', s)]
        BY <1>1, HeadTailProperties DEF StartJob, Typed, ShellTyped
    <2>2. Unmarked(left'["out"]) /\ Unmarked(left'["err"])
        BY <2>1, TextTyped DEF Stream
    <2>3. ~Closing'
        BY <2>2, MarkIsMarked DEF Closing
    <2>4. job' # 0
        BY <2>1 DEF Written
    <2> QED
        BY <2>1, <2>2, <2>3, <2>4 DEF Shaped
<1>2. ASSUME NEW s \in Stream, PrintNext(s) PROVE Shaped'
    <2>1. CASE left' = Both(<<>>) /\ job' = 0
        <3>1. left'["out"] = <<>> /\ left'["err"] = <<>>
            BY <2>1 DEF Both, Stream
        <3> QED
            BY <2>1, <3>1, EmptyUnmarked DEF Shaped
    <2>2. CASE ~Closing' /\ Unmarked(left'["err"]) /\ Unmarked(left'["out"]) /\ job' = job
        BY <1>2, <2>2, PrintCases DEF Shaped
    <2> QED
        BY <1>2, <2>1, <2>2, PrintCases
<1>3. CASE EndJob
    <2>1. job # 0 /\ alive /\ left = Both(<<>>)
        BY <1>3, DoneCases DEF EndJob
    <2>2. left' = [left EXCEPT !["err"] = <<Tok(job, "mark")>>] /\ job' = job /\ alive' = alive
        BY <1>3 DEF EndJob
    <2>3. left'["err"] = <<Tok(job, "mark")>> /\ left'["out"] = <<>>
        BY <2>1, <2>2 DEF Both, Stream
    <2> QED
        BY <2>1, <2>2, <2>3, EmptyUnmarked DEF Shaped, Closing
<1>4. CASE Swallow
    BY <1>4 DEF Swallow, Shaped, Closing
<1>5. CASE ExitShell
    <2>1. left' = Both(<<>>) /\ job' = 0
        BY <1>5, DoneCases DEF ExitShell
    <2>2. left'["out"] = <<>> /\ left'["err"] = <<>>
        BY <2>1 DEF Both, Stream
    <2> QED
        BY <2>1, <2>2, EmptyUnmarked DEF Shaped
<1> QED
    BY <1>1, <1>2, <1>3, <1>4, <1>5 DEF Shell

LEMMA StillShaped == ASSUME Shaped, UNCHANGED <<alive, job, left>> PROVE Shaped'
BY DEF Shaped, Closing, Unmarked

-----------------------------------------------------------------------------
(* Sentinels appear in the order of their commands.                         *)
LEMMA SameMarks ==
    ASSUME NEW s \in Stream, pipe'[s] = pipe[s]
    PROVE  Marked(s)' = Marked(s) /\ (Rising(s) => Rising(s)')
BY DEF Marked, MarksIn, Rising

LEMMA AppendMarks ==
    ASSUME Typed, NEW s \in Stream, NEW t \in Piece, pipe' = [pipe EXCEPT ![s] = Append(@, t)]
    PROVE  /\ Marked(s)' = Marked(s) \cup (IF t.kind = "mark" THEN {t.of} ELSE {})
           /\ Rising(s) /\ (t.kind = "mark" => \A m \in Marked(s) : m < t.of) => Rising(s)'
<1> DEFINE p == pipe[s]
<1> DEFINE q == Append(p, t)
<1>1. p \in Seq(Piece) /\ pipe'[s] = q
    BY DEF Typed, ShellTyped
<1>2. /\ DOMAIN p = 1..Len(p) /\ Len(p) \in Nat /\ DOMAIN q = 1..(Len(p) + 1)
      /\ \A i \in 1..Len(p) : q[i] = p[i]
      /\ q[Len(p) + 1] = t
    BY <1>1, AppendProperties, LenProperties
<1> HIDE DEF p, q
<1> DEFINE M == {i \in DOMAIN p : p[i].kind = "mark"}
<1> DEFINE N == {i \in DOMAIN q : q[i].kind = "mark"}
<1>3. MarksIn(s) = M /\ MarksIn(s)' = N
    BY <1>1 DEF MarksIn, p
<1>4. N = M \cup (IF t.kind = "mark" THEN {Len(p) + 1} ELSE {})
    BY <1>2
<1>5. \A i \in M : q[i] = p[i] /\ i \in Nat /\ i < Len(p) + 1
    BY <1>2
<1>6. Marked(s) = {p[i].of : i \in M} /\ Marked(s)' = {q[i].of : i \in N}
    BY <1>1, <1>3 DEF Marked, p
<1>7. /\ Rising(s) <=> \A i, j \in M : i < j => p[i].of < p[j].of
      /\ Rising(s)' <=> \A i, j \in N : i < j => q[i].of < q[j].of
    BY <1>1, <1>3 DEF Rising, p
<1> HIDE DEF M, N
<1>8. Marked(s)' = Marked(s) \cup (IF t.kind = "mark" THEN {t.of} ELSE {})
    BY <1>2, <1>4, <1>5, <1>6
<1>9. ASSUME Rising(s), t.kind = "mark" => \A m \in Marked(s) : m < t.of,
             NEW i \in N, NEW j \in N, i < j
      PROVE  q[i].of < q[j].of
    <2>1. CASE j \in M
        <3>1. i \in M
            BY <1>2, <1>4, <1>5, <1>9, <2>1
        <3> QED
            BY <1>5, <1>7, <1>9, <2>1, <3>1
    <2>2. CASE j \notin M
        <3>1. t.kind = "mark" /\ j = Len(p) + 1
            BY <1>4, <2>2
        <3>2. i \in M
            BY <1>2, <1>4, <1>9, <3>1
        <3> QED
            BY <1>2, <1>5, <1>6, <1>9, <3>1, <3>2
    <2> QED
        BY <2>1, <2>2
<1> QED
    BY <1>7, <1>8, <1>9

LEMMA TailMarks ==
    ASSUME Typed, NEW s \in Stream, pipe[s] # <<>>, pipe' = [pipe EXCEPT ![s] = Tail(@)]
    PROVE  /\ Marked(s)' \subseteq Marked(s) /\ (Rising(s) => Rising(s)')
           /\ Head(pipe[s]).kind = "mark" =>
                  /\ Head(pipe[s]).of \in Marked(s)
                  /\ Rising(s) => \A m \in Marked(s)' : Head(pipe[s]).of < m
<1> DEFINE p == pipe[s]
<1> DEFINE q == Tail(p)
<1>1. p \in Seq(Piece) /\ pipe'[s] = q
    BY DEF Typed, ShellTyped
<1>2. /\ DOMAIN p = 1..Len(p) /\ DOMAIN q = 1..(Len(p) - 1) /\ Len(p) \in Nat \ {0}
      /\ \A i \in DOMAIN q : i + 1 \in DOMAIN p /\ q[i] = p[i + 1]
      /\ 1 \in DOMAIN p /\ Head(p) = p[1]
    BY <1>1, Parts
<1> HIDE DEF p, q
<1> DEFINE M == {i \in DOMAIN p : p[i].kind = "mark"}
<1> DEFINE N == {i \in DOMAIN q : q[i].kind = "mark"}
<1>3. MarksIn(s) = M /\ MarksIn(s)' = N
    BY <1>1 DEF MarksIn, p
<1>4. \A i \in N : i \in Nat /\ i > 0 /\ i + 1 \in M /\ q[i] = p[i + 1]
    BY <1>2
<1>5. Marked(s) = {p[i].of : i \in M} /\ Marked(s)' = {q[i].of : i \in N}
    BY <1>1, <1>3 DEF Marked, p
<1>6. /\ Rising(s) <=> \A i, j \in M : i < j => p[i].of < p[j].of
      /\ Rising(s)' <=> \A i, j \in N : i < j => q[i].of < q[j].of
    BY <1>1, <1>3 DEF Rising, p
<1>7. p[1].kind = "mark" => 1 \in M
    BY <1>2
<1> HIDE DEF M, N
<1>8. Marked(s)' \subseteq Marked(s)
    BY <1>4, <1>5
<1>9. Rising(s) => Rising(s)'
    <2>1. SUFFICES ASSUME Rising(s), NEW i \in N, NEW j \in N, i < j PROVE q[i].of < q[j].of
        BY <1>6
    <2>2. i + 1 < j + 1 /\ i + 1 \in M /\ j + 1 \in M
        BY <1>4, <2>1
    <2> QED
        BY <1>4, <1>6, <2>1, <2>2
<1>10. ASSUME Head(p).kind = "mark"
       PROVE  /\ Head(p).of \in Marked(s)
              /\ Rising(s) => \A m \in Marked(s)' : Head(p).of < m
    <2>1. Head(p).of \in Marked(s)
        BY <1>2, <1>5, <1>7, <1>10
    <2>2. ASSUME Rising(s), NEW i \in N PROVE p[1].of < q[i].of
        <3>1. 1 < i + 1 /\ i + 1 \in M
            BY <1>4
        <3> QED
            BY <1>2, <1>4, <1>6, <1>7, <1>10, <2>2, <3>1
    <2> QED
        BY <1>2, <1>5, <2>1, <2>2
<1> QED
    BY <1>8, <1>9, <1>10 DEF p

LEMMA InputShrinks ==
    ASSUME Typed, InputOrdered, input # <<>>, input' = Tail(input), job' \in {job, Head(input)}
    PROVE  /\ InputOrdered'
           /\ Head(input) \in Inputs /\ Inputs' \subseteq Inputs
<1>1. input \in Seq(Written)
    BY DEF Typed, ShellTyped
<1>2. /\ DOMAIN input = 1..Len(input) /\ DOMAIN input' = 1..(Len(input) - 1) /\ Len(input) \in Nat \ {0}
      /\ \A i \in DOMAIN input' : i + 1 \in DOMAIN input /\ input'[i] = input[i + 1]
      /\ 1 \in DOMAIN input /\ Head(input) = input[1]
    BY <1>1, Parts
<1>3. ASSUME NEW i \in DOMAIN input', NEW j \in DOMAIN input', i < j PROVE input'[i] < input'[j]
    <2>1. i + 1 < j + 1
        BY <1>2, <1>3
    <2> QED
        BY <1>2, <2>1 DEF InputOrdered
<1>4. ASSUME job' # 0, NEW i \in DOMAIN input' PROVE job' < input'[i]
    <2>1. 1 < i + 1
        BY <1>2
    <2>2. Head(input) < input'[i]
        BY <1>2, <2>1 DEF InputOrdered
    <2>3. job # 0 => job < input'[i]
        BY <1>2 DEF InputOrdered
    <2> QED
        BY <1>4, <2>2, <2>3
<1>5. InputOrdered'
    BY <1>3, <1>4 DEF InputOrdered
<1>6. Inputs' = {input'[i] : i \in DOMAIN input'}
    BY DEF Inputs
<1> QED
    BY <1>2, <1>5, <1>6 DEF Inputs

LEMMA StartJobOrders ==
    ASSUME Typed, Shaped, Ordered, StartJob
    PROVE  Ordered' /\ \A s \in Stream : Due(s)' \subseteq Due(s) /\ Marked(s)' \subseteq Marked(s)
<1>1. /\ input # <<>> /\ input' = Tail(input) /\ job = 0 /\ job' = Head(input) /\ UNCHANGED pipe
    BY DEF StartJob
<1>2. InputOrdered' /\ Head(input) \in Inputs /\ Inputs' \subseteq Inputs
    BY <1>1, InputShrinks DEF Ordered
<1>3. ASSUME NEW s \in Stream
      PROVE  Due(s)' \subseteq Due(s) /\ Marked(s)' = Marked(s) /\ Rising(s)'
    <2>1. Due(s)' \subseteq Inputs' \cup {job'}
        BY DEF Due
    <2> QED
        BY <1>1, <1>2, <2>1, SameMarks DEF Due, Ordered
<1> QED
    BY <1>2, <1>3 DEF Ordered

LEMMA PrintNextOrders ==
    ASSUME Typed, Shaped, Ordered, NEW s \in Stream, PrintNext(s)
    PROVE  Ordered' /\ \A x \in Stream : Due(x)' \subseteq Due(x)
                                        /\ Marked(x)' \subseteq Marked(x) \cup Due(x)
<1> DEFINE t == Head(left[s])
<1>1. /\ pipe' = [pipe EXCEPT ![s] = Append(@, t)] /\ input' = input /\ t \in Piece
      /\ pipe \in [Stream -> Seq(Piece)]
    BY Shrunk DEF PrintNext, Typed, ShellTyped
<1>2. Inputs' = Inputs
    BY <1>1 DEF Inputs
<1>3. \A x \in Stream : x # s => Marked(x)' = Marked(x) /\ Rising(x)'
    <2>1. \A x \in Stream : x # s => pipe'[x] = pipe[x]
        BY <1>1
    <2> QED
        BY <2>1, SameMarks DEF Ordered
<1>4. CASE /\ s = "err" /\ Closing /\ t = Tok(job, "mark") /\ job # 0 /\ job' = 0
    <2>1. job \in Due(s) /\ t.kind = "mark" /\ t.of = job
        BY <1>4 DEF Due, Tok
    <2>2. Marked(s)' = Marked(s) \cup {job} /\ Rising(s)'
        BY <1>1, <2>1, AppendMarks DEF Ordered
    <2>3. \A x \in Stream : Due(x)' = Inputs
        BY <1>2, <1>4 DEF Due
    <2>4. InputOrdered'
        BY <1>1, <1>4 DEF Ordered, InputOrdered
    <2>5. \A d \in Inputs : job < d
        BY <1>4 DEF Ordered, InputOrdered, Inputs
    <2>6. \A x \in Stream : Inputs \subseteq Due(x)
        BY DEF Due
    <2> QED
        BY <1>3, <2>1, <2>2, <2>3, <2>4, <2>5, <2>6 DEF Ordered
<1>5. CASE /\ ~Closing /\ ~Closing' /\ t.kind # "mark" /\ job' = job
    <2>1. Marked(s)' = Marked(s) /\ Rising(s)'
        BY <1>1, <1>5, AppendMarks DEF Ordered
    <2>2. \A x \in Stream : Due(x)' = Due(x)
        BY <1>2, <1>5 DEF Due
    <2>3. InputOrdered'
        BY <1>1, <1>5 DEF Ordered, InputOrdered
    <2> QED
        BY <1>3, <2>1, <2>2, <2>3 DEF Ordered
<1> QED
    BY <1>4, <1>5, PrintCases

LEMMA EndJobOrders ==
    ASSUME Typed, Shaped, Ordered, EndJob
    PROVE  Ordered' /\ \A x \in Stream : Due(x)' \subseteq Due(x)
                                        /\ Marked(x)' \subseteq Marked(x) \cup Due(x)
<1> DEFINE t == Tok(job, "mark")
<1>1. /\ pipe' = [pipe EXCEPT !["out"] = Append(@, t)] /\ UNCHANGED <<input, job>>
      /\ left' = [left EXCEPT !["err"] = <<t>>]
    BY DEF EndJob
<1>2. job # 0 /\ job \in Written /\ ~Closing /\ left \in [Stream -> Seq(Piece)]
      /\ pipe \in [Stream -> Seq(Piece)]
    BY DoneCases DEF EndJob, Typed, ShellTyped
<1>3. t \in Piece /\ t.kind = "mark" /\ t.of = job
    BY <1>2 DEF Tok, Piece
<1>4. Closing'
    BY <1>1, <1>2 DEF Closing, Stream
<1>5. job \in Due("out") /\ Inputs' = Inputs
    BY <1>1, <1>2 DEF Due, Inputs
<1>6. Marked("out")' = Marked("out") \cup {job} /\ Rising("out")'
    <2>1. "out" \in Stream
        BY DEF Stream
    <2> QED
        BY <1>1, <1>3, <1>5, <2>1, AppendMarks DEF Ordered
<1>7. Marked("err")' = Marked("err") /\ Rising("err")'
    <2>1. "err" \in Stream /\ pipe'["err"] = pipe["err"]
        BY <1>1, <1>2 DEF Stream
    <2> QED
        BY <2>1, SameMarks DEF Ordered
<1>8. Due("out")' = Inputs /\ Due("err")' = Due("err") /\ Inputs \subseteq Due("out")
    <2>1. Due("out")' = Inputs
        BY <1>4, <1>5 DEF Due
    <2>2. Due("err")' = Due("err")
        BY <1>1, <1>5 DEF Due
    <2> QED
        BY <2>1, <2>2 DEF Due
<1>9. InputOrdered' /\ \A d \in Inputs : job < d
    BY <1>1, <1>2 DEF Ordered, InputOrdered, Inputs
<1>10. /\ \A m \in Marked("out"), d \in Due("out") : m < d
       /\ \A m \in Marked("err"), d \in Due("err") : m < d
    BY DEF Ordered, Stream
<1>11. \A x \in Stream : /\ Rising(x)' /\ \A m \in Marked(x)', d \in Due(x)' : m < d
                         /\ Due(x)' \subseteq Due(x) /\ Marked(x)' \subseteq Marked(x) \cup Due(x)
    <2>1. CASE TRUE
        <3>1. /\ Rising("out")' /\ \A m \in Marked("out")', d \in Due("out")' : m < d
              /\ Due("out")' \subseteq Due("out") /\ Marked("out")' \subseteq Marked("out") \cup Due("out")
            BY <1>5, <1>6, <1>8, <1>9, <1>10
        <3>2. /\ Rising("err")' /\ \A m \in Marked("err")', d \in Due("err")' : m < d
              /\ Due("err")' \subseteq Due("err") /\ Marked("err")' \subseteq Marked("err") \cup Due("err")
            BY <1>7, <1>8, <1>10
        <3> QED
            BY <3>1, <3>2 DEF Stream
    <2> QED
        BY <2>1
<1> QED
    BY <1>9, <1>11 DEF Ordered

LEMMA SwallowOrders ==
    ASSUME Typed, Shaped, Ordered, Swallow
    PROVE  Ordered' /\ \A x \in Stream : Due(x)' \subseteq Due(x) /\ Marked(x)' = Marked(x)
<1> DEFINE t == Tok(Head(input), "line")
<1>1. /\ pipe' = [pipe EXCEPT !["out"] = Append(@, t)] /\ UNCHANGED <<job, left>>
      /\ input # <<>> /\ input' = Tail(input)
    BY DEF Swallow
<1>2. InputOrdered' /\ Head(input) \in Inputs /\ Inputs' \subseteq Inputs
    BY <1>1, InputShrinks DEF Ordered
<1>3. t \in Piece /\ t.kind # "mark"
    <2>1. Head(input) \in Written
        BY <1>1, HeadTailProperties DEF Typed, ShellTyped
    <2> QED
        BY <2>1 DEF Tok, Piece
<1>4. ASSUME NEW x \in Stream
      PROVE  Due(x)' \subseteq Due(x) /\ Marked(x)' = Marked(x) /\ Rising(x)'
    <2>1. Due(x)' \subseteq Due(x)
        <3>1. Closing' = Closing
            BY <1>1 DEF Closing
        <3> QED
            BY <1>1, <1>2, <3>1 DEF Due
    <2>2. CASE x = "out"
        BY <1>1, <1>3, <2>1, <2>2, AppendMarks DEF Ordered
    <2>3. CASE x # "out"
        <3>1. pipe'[x] = pipe[x]
            BY <1>1, <2>3 DEF Typed, ShellTyped
        <3> QED
            BY <2>1, <3>1, SameMarks DEF Ordered
    <2> QED
        BY <2>1, <2>2, <2>3
<1> QED
    BY <1>2, <1>4 DEF Ordered

LEMMA ExitShellOrders ==
    ASSUME Ordered, ExitShell
    PROVE  Ordered' /\ \A x \in Stream : Due(x)' \subseteq Due(x) /\ Marked(x)' = Marked(x)
<1>1. job' = 0 /\ UNCHANGED <<input, pipe>>
    BY DEF ExitShell
<1>2. InputOrdered' /\ Inputs' = Inputs
    BY <1>1 DEF Ordered, InputOrdered, Inputs
<1>3. \A x \in Stream : Due(x)' \subseteq Due(x) /\ Marked(x)' = Marked(x) /\ Rising(x)'
    BY <1>1, <1>2, SameMarks DEF Due, Ordered
<1> QED
    BY <1>2, <1>3 DEF Ordered

LEMMA ShellOrders ==
    ASSUME Typed, Shaped, Ordered, Shell
    PROVE  Ordered' /\ \A x \in Stream : Due(x)' \subseteq Due(x)
                                        /\ Marked(x)' \subseteq Marked(x) \cup Due(x)
BY StartJobOrders, PrintNextOrders, EndJobOrders, SwallowOrders, ExitShellOrders DEF Shell

LEMMA ReadChunkOrders ==
    ASSUME Typed, Ordered, NEW s \in Stream, ReadChunk(s)
    PROVE  Ordered' /\ \A x \in Stream : Due(x)' = Due(x) /\ Marked(x)' \subseteq Marked(x)
<1>1. pipe[s] # <<>> /\ pipe' = [pipe EXCEPT ![s] = Tail(@)] /\ UNCHANGED <<input, job, left>>
    BY DEF ReadChunk, shell
<1>2. InputOrdered' /\ \A x \in Stream : Due(x)' = Due(x)
    BY <1>1 DEF Ordered, InputOrdered, Due, Inputs, Closing
<1>3. ASSUME NEW x \in Stream PROVE Marked(x)' \subseteq Marked(x) /\ Rising(x)'
    <2>1. CASE x = s
        BY <1>1, <2>1, TailMarks DEF Ordered
    <2>2. CASE x # s
        <3>1. pipe'[x] = pipe[x]
            BY <1>1, <2>2 DEF Typed, ShellTyped
        <3> QED
            BY <3>1, SameMarks DEF Ordered
    <2> QED
        BY <2>1, <2>2
<1> QED
    BY <1>2, <1>3 DEF Ordered

LEMMA IssueOrders ==
    ASSUME Typed, Ordered, NEW does \in Behaviour \cup {WhichSnip}, Issue(does)
    PROVE  Ordered' /\ \A x \in Stream : Due(x)' = Due(x) \cup {Len(cmds) + 1} /\ Marked(x)' = Marked(x)
<1> DEFINE n == Len(cmds) + 1
<1>1. UNCHANGED <<job, left, pipe>> /\ input' = Append(input, n)
    BY DEF Issue
<1>2. /\ Len(cmds) \in Nat /\ \A k \in Written : k < n
      /\ input \in Seq(Nat) /\ n \in Nat /\ Inputs \subseteq Written
    <2>1. Len(cmds) \in Nat /\ input \in Seq(Written)
        BY LenProperties DEF Typed, ShellTyped, CallTyped
    <2>2. Written \subseteq Nat /\ \A k \in Written : k < n
        BY <2>1 DEF Written
    <2>3. input \in Seq(Nat)
        BY <2>1, <2>2, SeqMonotonic
    <2>4. Inputs \subseteq Written
        BY <2>1, LenProperties, ElementOfSeq DEF Inputs
    <2> QED
        BY <2>1, <2>2, <2>3, <2>4
<1>3. /\ DOMAIN input = 1..Len(input) /\ Len(input) \in Nat /\ DOMAIN input' = 1..(Len(input) + 1)
      /\ \A i \in 1..Len(input) : input'[i] = input[i]
      /\ input'[Len(input) + 1] = n
    BY <1>1, <1>2, AppendProperties, LenProperties
<1>4. Inputs' = Inputs \cup {n}
    <2>1. Inputs' = {input'[i] : i \in DOMAIN input'}
        BY DEF Inputs
    <2>2. DOMAIN input' = DOMAIN input \cup {Len(input) + 1}
        BY <1>3
    <2> QED
        BY <1>3, <2>1, <2>2 DEF Inputs
<1>5. InputOrdered'
    <2>1. ASSUME NEW i \in DOMAIN input', NEW j \in DOMAIN input', i < j PROVE input'[i] < input'[j]
        <3>1. i \in DOMAIN input
            BY <1>3, <2>1
        <3>2. CASE j \in DOMAIN input
            BY <1>3, <2>1, <3>1, <3>2 DEF Ordered, InputOrdered
        <3>3. CASE j \notin DOMAIN input
            <4>1. j = Len(input) + 1
                BY <1>3, <3>3
            <4>2. input[i] \in Written
                BY <1>2, <3>1 DEF Inputs
            <4> QED
                BY <1>2, <1>3, <3>1, <4>1, <4>2
        <3> QED
            BY <3>2, <3>3
    <2>2. ASSUME job # 0, NEW i \in DOMAIN input' PROVE job < input'[i]
        <3>1. CASE i \in DOMAIN input
            BY <1>3, <2>2, <3>1 DEF Ordered, InputOrdered
        <3>2. CASE i \notin DOMAIN input
            <4>1. i = Len(input) + 1 /\ job \in Written
                BY <1>3, <2>2, <3>2 DEF Typed, ShellTyped
            <4> QED
                BY <1>2, <1>3, <4>1
        <3> QED
            BY <3>1, <3>2
    <2> QED
        BY <1>1, <2>1, <2>2 DEF InputOrdered
<1>6. ASSUME NEW x \in Stream
      PROVE  /\ Due(x)' = Due(x) \cup {n} /\ Marked(x)' = Marked(x) /\ Rising(x)'
             /\ \A m \in Marked(x) : m < n
    <2>1. Closing' = Closing
        BY <1>1 DEF Closing
    <2>2. Due(x)' = Due(x) \cup {n}
        BY <1>1, <1>4, <2>1 DEF Due
    <2>3. Marked(x)' = Marked(x) /\ Rising(x)'
        BY <1>1, SameMarks DEF Ordered
    <2>4. Marked(x) \subseteq Written
        <3>1. pipe[x] \in Seq(Piece)
            BY DEF Typed, ShellTyped
        <3>2. \A i \in DOMAIN pipe[x] : pipe[x][i] \in Piece
            BY <3>1, LenProperties, ElementOfSeq
        <3> QED
            BY <3>2 DEF Marked, MarksIn, Piece
    <2> QED
        BY <1>2, <2>2, <2>3, <2>4
<1> QED
    BY <1>5, <1>6 DEF Ordered

LEMMA StillOrdered ==
    ASSUME Ordered, UNCHANGED <<shell, pipe>>
    PROVE  Ordered' /\ \A x \in Stream : Due(x)' = Due(x) /\ Marked(x)' = Marked(x)
<1>1. UNCHANGED <<input, job, left, pipe>>
    BY DEF shell
<1>2. InputOrdered' /\ \A x \in Stream : Due(x)' = Due(x) /\ Marked(x)' = Marked(x) /\ Rising(x)'
    BY <1>1, SameMarks DEF Ordered, InputOrdered, Due, Inputs, Closing
<1> QED
    BY <1>2 DEF Ordered

-----------------------------------------------------------------------------
(* How far a timeout lets answers lag.                                      *)
TimedOut == {n \in DOMAIN answers : answers[n].timed}

LEMMA TimeoutsCounted ==
    ASSUME Typed
    PROVE  IsFiniteSet(TimedOut) /\ Timeouts \in Nat /\ Len(answers) \in Nat
<1>1. Len(answers) \in Nat /\ DOMAIN answers = 1..Len(answers)
    BY LenProperties DEF Typed, CallTyped
<1>2. IsFiniteSet(1..Len(answers))
    BY <1>1, FS_Interval
<1>3. IsFiniteSet(TimedOut)
    BY <1>1, <1>2, FS_Subset DEF TimedOut
<1> QED
    BY <1>1, <1>3, FS_CardinalityType DEF TimedOut, Timeouts

LEMMA ReturnCounted ==
    ASSUME Typed, current # 0, NEW timed \in BOOLEAN, Return(Answer(timed))
    PROVE  /\ Timeouts' = Timeouts + (IF timed THEN 1 ELSE 0)
           /\ Len(answers') = Len(answers) + 1
           /\ answers'[Len(answers) + 1] = Answer(timed)
           /\ DOMAIN answers = 1..Len(answers) /\ DOMAIN answers' = 1..(Len(answers) + 1)
           /\ \A n \in 1..Len(answers) : answers'[n] = answers[n]
<1> DEFINE k == Len(answers) + 1
<1>1. answers' = Append(answers, Answer(timed)) /\ Len(answers') = k
    BY ReturnTyped
<1>2. Answer(timed) \in [timed : BOOLEAN, mark : [Stream -> Nat], out : Seq(Piece), err : Seq(Piece)]
    <2>1. Len(cmds) \in Nat /\ seen \in [Stream -> 0..Len(cmds)]
        BY LenProperties DEF Typed, CallTyped
    <2>2. seen \in [Stream -> Nat]
        BY <2>1
    <2> QED
        BY <2>2 DEF Answer, Typed, CallTyped, Stream
<1>3. /\ Len(answers) \in Nat /\ DOMAIN answers = 1..Len(answers) /\ DOMAIN answers' = 1..k
      /\ \A n \in 1..Len(answers) : answers'[n] = answers[n]
      /\ answers'[k] = Answer(timed)
    BY <1>1, <1>2, AppendProperties, LenProperties DEF Typed, CallTyped
<1>4. answers'[k].timed = timed
    BY <1>3 DEF Answer
<1>5. TimedOut' = TimedOut \cup (IF timed THEN {k} ELSE {})
    <2>1. TimedOut' = {n \in DOMAIN answers' : answers'[n].timed}
        BY DEF TimedOut
    <2>2. DOMAIN answers' = DOMAIN answers \cup {k} /\ k \notin DOMAIN answers
        BY <1>3
    <2> QED
        BY <1>3, <1>4, <2>1, <2>2 DEF TimedOut
<1>6. k \notin TimedOut
    BY <1>3 DEF TimedOut
<1>7. Cardinality(TimedOut') = Cardinality(TimedOut) + (IF timed THEN 1 ELSE 0)
    <2>1. CASE timed
        BY <1>5, <1>6, <2>1, TimeoutsCounted, FS_AddElement
    <2>2. CASE ~timed
        <3>1. TimedOut' = TimedOut
            BY <1>5, <2>2
        <3>2. Cardinality(TimedOut) \in Nat
            BY TimeoutsCounted, FS_CardinalityType
        <3> QED
            BY <2>2, <3>1, <3>2
    <2> QED
        BY <2>1, <2>2
<1>8. Timeouts = Cardinality(TimedOut) /\ Timeouts' = Cardinality(TimedOut')
    BY DEF Timeouts, TimedOut
<1> QED
    BY <1>1, <1>3, <1>7, <1>8

LEMMA DueNat == ASSUME Typed PROVE \A s \in Stream : Marked(s) \cup Due(s) \subseteq Nat \ {0}
<1> SUFFICES ASSUME NEW s \in Stream PROVE Marked(s) \cup Due(s) \subseteq Nat \ {0}
    OBVIOUS
<1>1. Written \subseteq Nat \ {0}
    BY LenProperties DEF Written, Typed, CallTyped
<1>2. Marked(s) \subseteq Written
    <2>1. pipe[s] \in Seq(Piece)
        BY DEF Typed, ShellTyped
    <2>2. \A i \in DOMAIN pipe[s] : pipe[s][i] \in Piece
        BY <2>1, LenProperties, ElementOfSeq
    <2> QED
        BY <2>2 DEF Marked, MarksIn, Piece
<1>3. Inputs \subseteq Written
    BY LenProperties, ElementOfSeq DEF Typed, ShellTyped, Inputs
<1> QED
    BY <1>1, <1>2, <1>3 DEF Due, Typed, ShellTyped

(* Steps that answer and read nothing.                                      *)
LEMMA StillFloored ==
    ASSUME Floored, UNCHANGED <<answers, seen>>,
           \A s \in Stream : Due(s)' \subseteq Due(s) /\ Marked(s)' \subseteq Marked(s) \cup Due(s)
    PROVE  Floored'
<1>1. Timeouts' = Timeouts /\ \A s \in Stream : Spent(s)' = Spent(s)
    BY DEF Timeouts, Spent
<1>2. ASSUME NEW s \in Stream
      PROVE  /\ \A m \in Marked(s)' \cup Due(s)' : m + Timeouts' > Len(answers') + Spent(s)'
             /\ seen'[s] # 0 => seen'[s] + Timeouts' > Len(answers')
    BY <1>1 DEF Floored
<1> QED
    BY <1>2 DEF Floored

LEMMA IssueFloored ==
    ASSUME Typed, Ordered, Floored, NEW does \in Behaviour \cup {WhichSnip}, Issue(does)
    PROVE  Floored'
<1>1. /\ Len(cmds) = Len(answers) /\ UNCHANGED answers /\ seen' = Both(0)
      /\ Len(answers) \in Nat /\ Timeouts \in Nat /\ seen = Both(0)
    BY TimeoutsCounted DEF Typed, CallTyped, Issue, Free, Fresh
<1>2. Timeouts' = Timeouts /\ \A s \in Stream : Spent(s)' = 0 /\ Spent(s) = 0 /\ seen'[s] = 0
    BY <1>1 DEF Timeouts, Spent, Both
<1>3. \A s \in Stream : Due(s)' = Due(s) \cup {Len(answers) + 1} /\ Marked(s)' = Marked(s)
    BY <1>1, IssueOrders
<1>4. \A s \in Stream : \A m \in Marked(s) \cup Due(s) : m + Timeouts > Len(answers)
    BY <1>1, <1>2 DEF Floored
<1>5. Len(answers) + 1 + Timeouts > Len(answers)
    BY <1>1
<1> QED
    BY <1>1, <1>2, <1>3, <1>4, <1>5 DEF Floored

LEMMA ReadChunkFloored ==
    ASSUME Typed, Ordered, Floored, NEW s \in Stream, ReadChunk(s)
    PROVE  Floored'
<1> DEFINE t == Head(pipe[s])
<1>1. UNCHANGED answers /\ seen[s] = 0 /\ Len(answers) \in Nat /\ Timeouts \in Nat
      /\ Timeouts' = Timeouts
    BY TimeoutsCounted DEF ReadChunk, Reading, Timeouts
<1>2. \A x \in Stream : Due(x)' = Due(x) /\ Marked(x)' \subseteq Marked(x)
    BY ReadChunkOrders
<1>3. CASE UNCHANGED seen
    BY <1>1, <1>2, <1>3, StillFloored
<1>4. CASE t.kind = "mark" /\ seen' = [seen EXCEPT ![s] = t.of]
    <2>1. /\ t.of \in Marked(s) /\ \A m \in Marked(s)' : t.of < m
          /\ \A d \in Due(s) : t.of < d
        <3>1. t.of \in Marked(s) /\ \A m \in Marked(s)' : t.of < m
            BY <1>4, TailMarks DEF ReadChunk, Ordered
        <3> QED
            BY <3>1 DEF Ordered
    <2>2. t.of + Timeouts > Len(answers)
        BY <1>1, <2>1, DueNat DEF Floored, Spent
    <2>3. \A x, y, n, k \in Nat : x < y /\ x + k > n => y + k > n + 1
        OBVIOUS
    <2>4. \A m \in Marked(s)' \cup Due(s)' : m + Timeouts > Len(answers) + 1
        BY <1>1, <1>2, <2>1, <2>2, <2>3, DueNat
    <2>5. t.of # 0 /\ seen'[s] = t.of /\ Spent(s)' = 1
        <3>1. t.of # 0
            BY <2>1, DueNat
        <3>2. seen'[s] = t.of
            BY <1>4 DEF Typed, CallTyped
        <3> QED
            BY <3>1, <3>2 DEF Spent
    <2>6. \A x \in Stream : x # s => seen'[x] = seen[x] /\ Spent(x)' = Spent(x)
        BY <1>4 DEF Spent, Typed, CallTyped
    <2>7. ASSUME NEW x \in Stream, x # s
          PROVE  /\ \A m \in Marked(x)' \cup Due(x)' : m + Timeouts' > Len(answers') + Spent(x)'
                 /\ seen'[x] # 0 => seen'[x] + Timeouts' > Len(answers')
        BY <1>1, <1>2, <2>6, <2>7 DEF Floored
    <2>8. /\ \A m \in Marked(s)' \cup Due(s)' : m + Timeouts' > Len(answers') + Spent(s)'
          /\ seen'[s] # 0 => seen'[s] + Timeouts' > Len(answers')
        BY <1>1, <2>2, <2>4, <2>5
    <2> QED
        BY <2>7, <2>8 DEF Floored
<1> QED
    BY <1>3, <1>4 DEF ReadChunk

LEMMA ReturnFloored ==
    ASSUME Typed, Ordered, Floored, current # 0, NEW timed \in BOOLEAN, timed \/ Finished, Return(Answer(timed))
    PROVE  Floored'
<1>1. /\ Timeouts' = Timeouts + (IF timed THEN 1 ELSE 0) /\ Len(answers') = Len(answers) + 1
      /\ Timeouts \in Nat /\ Len(answers) \in Nat
    BY ReturnCounted, TimeoutsCounted
<1>2. UNCHANGED <<shell, pipe>> /\ seen' = Both(0)
    BY DEF Return, Fresh
<1>3. \A s \in Stream : Due(s)' = Due(s) /\ Marked(s)' = Marked(s) /\ Spent(s)' = 0 /\ seen'[s] = 0
    BY <1>2, StillOrdered DEF Spent, Both
<1>4. ASSUME NEW s \in Stream, NEW m \in Marked(s) \cup Due(s)
      PROVE  m + Timeouts' > Len(answers')
    <2>1. m \in Nat /\ m + Timeouts > Len(answers) + Spent(s) /\ Spent(s) \in {0, 1}
        BY DueNat DEF Floored, Spent
    <2>2. CASE timed
        BY <1>1, <2>1, <2>2
    <2>3. CASE ~timed
        <3>1. Spent(s) = 1
            BY <2>3 DEF Finished, Spent, Stream
        <3> QED
            BY <1>1, <2>1, <2>3, <3>1
    <2> QED
        BY <2>2, <2>3
<1>5. \A s \in Stream : \A m \in Marked(s)' \cup Due(s)' : m + Timeouts' > Len(answers') + Spent(s)'
    <2>1. \A s \in Stream : \A m \in Marked(s)' \cup Due(s)' : m + Timeouts' > Len(answers') /\ Spent(s)' = 0
        BY <1>3, <1>4
    <2>2. Len(answers') + 0 = Len(answers')
        BY <1>1
    <2> QED
        BY <2>1, <2>2
<1> QED
    BY <1>3, <1>5 DEF Floored

-----------------------------------------------------------------------------
(* A call that nothing troubled finds its own output, and only that, on its  *)
(* way: what is read, what waits in the pipe and what the shell will print   *)
(* make up what the command says.                                            *)
LEMMA RestTyped ==
    ASSUME Typed, current \in Written, NEW s \in Stream
    PROVE  /\ Rest(s) \in Seq(Piece) /\ pipe[s] \o Rest(s) \in Seq(Piece)
           /\ Mark \in Piece /\ Text(current, s) \in Seq(Piece)
           /\ Append(Text(current, s), Mark) \in Seq(Piece)
<1>1. Mark \in Piece /\ Text(current, s) \in Seq(Piece)
    BY TextTyped DEF Mark, Tok, Piece
<1>2. Append(Text(current, s), Mark) \in Seq(Piece) /\ Append(left[s], Mark) \in Seq(Piece)
      /\ left[s] \in Seq(Piece) /\ <<>> \in Seq(Piece) /\ <<Mark>> \in Seq(Piece)
    BY <1>1, AppendProperties DEF Typed, ShellTyped
<1>3. Rest(s) \in Seq(Piece)
    BY <1>2 DEF Rest
<1>4. pipe[s] \o Rest(s) \in Seq(Piece)
    BY <1>3, ConcatProperties DEF Typed, ShellTyped
<1> QED
    BY <1>1, <1>2, <1>3, <1>4

(* A step of the shell moves output from what is to come into the pipe.      *)
LEMMA MovedAlong ==
    ASSUME Typed, current \in Written, Flows, UNCHANGED <<cmds, reader>>,
           \A s \in Stream : pipe'[s] \in Seq(Piece) /\ Rest(s)' \in Seq(Piece)
                             /\ pipe'[s] \o Rest(s)' = pipe[s] \o Rest(s)
    PROVE  Flows'
<1>1. UNCHANGED <<current, buf, seen>> /\ Mark' = Mark
    BY DEF reader, Mark
<1>2. \A s \in Stream : Text(current, s)' = Text(current, s)
    BY <1>1 DEF Text
<1>3. ASSUME NEW s \in Stream, seen[s] # 0
      PROVE  pipe'[s] = <<>> /\ Rest(s)' = <<>>
    <2>1. pipe[s] = <<>> /\ Rest(s) = <<>> /\ Rest(s) \in Seq(Piece)
        BY <1>3, RestTyped DEF Flows
    <2>2. pipe[s] \o Rest(s) = <<>>
        BY <2>1, ConcatEmptySeq
    <2>3. pipe'[s] \o Rest(s)' = <<>>
        BY <2>2
    <2> QED
        BY <2>3, ConcatEqualIffEmpty
<1>4. ASSUME NEW s \in Stream
      PROVE  IF seen'[s] = 0 THEN buf'[s] \o (pipe'[s] \o Rest(s)') = Append(Text(current, s)', Mark')
             ELSE seen'[s] = current' /\ pipe'[s] = <<>> /\ Rest(s)' = <<>> /\ buf'[s] = Text(current, s)'
    BY <1>1, <1>2, <1>3 DEF Flows
<1> QED
    BY <1>4 DEF Flows

LEMMA NotClosing ==
    ASSUME NEW n, cmds[n].does.kind # "partial"
    PROVE  \A k : \A s \in Stream : Text(n, s) # <<Tok(k, "mark")>> /\ Unmarked(Text(n, s))
<1> SUFFICES ASSUME NEW k, NEW s \in Stream PROVE Text(n, s) # <<Tok(k, "mark")>> /\ Unmarked(Text(n, s))
    OBVIOUS
<1>1. Unmarked(<<>>) /\ Unmarked(<<Tok(n, "line")>>)
    BY DEF Unmarked, Tok
<1>2. Unmarked(Text(n, s))
    BY <1>1, TextIs
<1> QED
    BY <1>2, MarkIsMarked

LEMMA StartJobFlows ==
    ASSUME Typed, Shaped, Underway, current \in Written, cmds[current].does.kind # "partial", StartJob
    PROVE  Underway'
<1>1. /\ job = 0 /\ input = <<current>> /\ job' = Head(input) /\ input' = Tail(input)
      /\ left' = [s \in Stream |-> Text(Head(input), s)]
      /\ UNCHANGED <<alive, pipe, cmds, reader>>
    BY DEF StartJob, Underway
<1>2. job' = current /\ input' = <<>> /\ \A s \in Stream : left'[s] = Text(current, s)
    BY <1>1, OneElement
<1>3. current # 0 /\ current' = current /\ part' = part
    BY <1>1 DEF Written, reader
<1>4. ~Closing'
    <2>1. left'["err"] = Text(current, "err") /\ "err" \in Stream
        BY <1>2 DEF Stream
    <2> QED
        BY <2>1, NotClosing DEF Closing
<1>5. ASSUME NEW s \in Stream PROVE Rest(s)' = Rest(s)
    <2>1. Rest(s) = Append(Text(current, s), Mark)
        <3>1. input # <<>>
            BY <1>1
        <3> QED
            BY <3>1 DEF Rest
    <2>2. Rest(s)' = Append(left'[s], Mark')
        BY <1>2, <1>3, <1>4 DEF Rest
    <2>3. Mark' = Mark
        BY <1>3 DEF Mark
    <2> QED
        BY <1>2, <2>1, <2>2, <2>3
<1>6. \A s \in Stream : pipe'[s] \in Seq(Piece) /\ Rest(s)' \in Seq(Piece)
                        /\ pipe'[s] \o Rest(s)' = pipe[s] \o Rest(s)
    BY <1>1, <1>5, RestTyped DEF Typed, ShellTyped
<1>7. Flows'
    BY <1>1, <1>6, MovedAlong DEF Underway
<1> QED
    BY <1>2, <1>3, <1>7 DEF Underway

LEMMA PrintNextFlows ==
    ASSUME Typed, Shaped, Underway, current \in Written, NEW s \in Stream, PrintNext(s)
    PROVE  Underway'
<1> DEFINE t == Head(left[s])
<1>1. /\ left[s] # <<>> /\ pipe' = [pipe EXCEPT ![s] = Append(@, t)] /\ left' = [left EXCEPT ![s] = Tail(@)]
      /\ UNCHANGED <<cmds, reader>>
    BY DEF PrintNext
<1>2. job = current /\ input = <<>> /\ input' = <<>> /\ job # 0 /\ alive /\ alive'
    BY PrintCases DEF Underway
<1>3. /\ pipe \in [Stream -> Seq(Piece)] /\ left \in [Stream -> Seq(Piece)] /\ t \in Piece
      /\ pipe' \in [Stream -> Seq(Piece)] /\ left' \in [Stream -> Seq(Piece)] /\ Mark \in Piece
    BY <1>1, Shrunk, Grown, RestTyped DEF Typed, ShellTyped
<1>4. current' = current /\ Mark' = Mark /\ part' = part
    BY <1>1 DEF reader, Mark
<1>5. CASE /\ s = "err" /\ Closing /\ t = Tok(job, "mark") /\ job' = 0 /\ left' = Both(<<>>)
           /\ left = [x \in Stream |-> IF x = "err" THEN <<Tok(job, "mark")>> ELSE <<>>]
    <2>1. ASSUME NEW x \in Stream
          PROVE  pipe'[x] \in Seq(Piece) /\ Rest(x)' \in Seq(Piece)
                 /\ pipe'[x] \o Rest(x)' = pipe[x] \o Rest(x)
        <3>1. Rest(x)' = <<>> /\ Rest(x) = left[x]
            BY <1>2, <1>5 DEF Rest
        <3>2. pipe'[x] \in Seq(Piece) /\ <<>> \in Seq(Piece) /\ pipe'[x] \o <<>> = pipe'[x]
            BY <1>3, ConcatEmptySeq
        <3>3. pipe'[x] = pipe[x] \o left[x]
            <4>1. CASE x = "err"
                <5>1. left[x] = <<t>> /\ pipe'[x] = Append(pipe[x], t)
                    BY <1>1, <1>3, <1>5, <4>1
                <5> QED
                    BY <1>3, <5>1, AppendIsConcat
            <4>2. CASE x # "err"
                <5>1. left[x] = <<>> /\ pipe'[x] = pipe[x]
                    BY <1>1, <1>3, <1>5, <4>2
                <5> QED
                    BY <1>3, <5>1, ConcatEmptySeq
            <4> QED
                BY <4>1, <4>2
        <3> QED
            BY <3>1, <3>2, <3>3
    <2>2. Flows'
        BY <1>1, <2>1, MovedAlong DEF Underway
    <2> QED
        BY <1>2, <1>4, <1>5, <2>2 DEF Underway
<1>6. CASE ~Closing /\ ~Closing' /\ job' = job
    <2>1. ASSUME NEW x \in Stream
          PROVE  pipe'[x] \in Seq(Piece) /\ Rest(x)' \in Seq(Piece)
                 /\ pipe'[x] \o Rest(x)' = pipe[x] \o Rest(x)
        <3>1. Rest(x)' = Append(left'[x], Mark) /\ Rest(x) = Append(left[x], Mark)
            BY <1>2, <1>4, <1>6 DEF Rest
        <3>2. pipe'[x] \in Seq(Piece) /\ Rest(x)' \in Seq(Piece)
            BY <1>3, <3>1, AppendProperties
        <3>3. CASE x = s
            <4> DEFINE b == Append(left[s], Mark)
            <4>1. left[s] \in Seq(Piece)
                BY <1>3
            <4>2. b \in Seq(Piece) /\ b # <<>>
                <5>1. Mark \in Piece
                    BY <1>3
                <5>2. b # <<>>
                    BY <4>1, <5>1, AppendProperties
                <5>3. b \in Seq(Piece)
                    BY <4>1, <5>1, AppendProperties
                <5> QED
                    BY <5>2, <5>3
            <4>3. Head(b) = t /\ Tail(b) = Append(Tail(left[s]), Mark)
                BY <1>1, <4>1, HeadTailAppend
            <4>4. left'[s] = Tail(left[s]) /\ pipe'[s] = Append(pipe[s], t) /\ pipe[s] \in Seq(Piece)
                BY <1>1, <1>3
            <4> HIDE DEF b
            <4>5. Append(pipe[s], Head(b)) \o Tail(b) = pipe[s] \o b
                BY <4>2, <4>4, MoveOne
            <4> QED
                BY <3>1, <3>2, <3>3, <4>3, <4>4, <4>5 DEF b
        <3>4. CASE x # s
            BY <1>1, <1>3, <3>1, <3>2, <3>4
        <3> QED
            BY <3>3, <3>4
    <2>2. Flows'
        BY <1>1, <2>1, MovedAlong DEF Underway
    <2> QED
        BY <1>2, <1>4, <1>6, <2>2 DEF Underway
<1> QED
    BY <1>5, <1>6, PrintCases

LEMMA EndJobFlows ==
    ASSUME Typed, Shaped, Underway, current \in Written, EndJob
    PROVE  Underway'
<1>1. /\ pipe' = [pipe EXCEPT !["out"] = Append(@, Tok(job, "mark"))]
      /\ left' = [left EXCEPT !["err"] = <<Tok(job, "mark")>>]
      /\ UNCHANGED <<alive, input, job, cmds, reader>>
    BY DEF EndJob
<1>2. job # 0 /\ alive /\ left = Both(<<>>) /\ ~Closing
    BY DoneCases DEF EndJob
<1>3. job = current /\ input = <<>> /\ Tok(job, "mark") = Mark /\ Mark \in Piece
    BY <1>2, RestTyped DEF Underway, Mark, Stream
<1>4. left'["err"] = <<Mark>> /\ left'["out"] = <<>> /\ Closing' /\ current' = current /\ part' = part
    BY <1>1, <1>2, <1>3 DEF Both, Stream, Closing, reader
<1>5. ASSUME NEW x \in Stream
      PROVE  pipe'[x] \in Seq(Piece) /\ Rest(x)' \in Seq(Piece)
             /\ pipe'[x] \o Rest(x)' = pipe[x] \o Rest(x)
    <2>1. Rest(x) = <<Mark>> /\ Rest(x)' = left'[x] /\ pipe \in [Stream -> Seq(Piece)]
        <3>1. Rest(x) = Append(left[x], Mark) /\ left[x] = <<>>
            BY <1>2, <1>3 DEF Rest, Both
        <3>2. Rest(x)' = left'[x]
            BY <1>1, <1>2, <1>3, <1>4 DEF Rest
        <3> QED
            BY <3>1, <3>2, OneElement DEF Typed, ShellTyped
    <2>2. <<Mark>> \in Seq(Piece) /\ <<>> \in Seq(Piece)
        BY <1>3
    <2>3. CASE x = "out"
        <3>1. pipe'[x] = Append(pipe[x], Mark) /\ Rest(x)' = <<>> /\ pipe[x] \in Seq(Piece)
            BY <1>1, <1>3, <1>4, <2>1, <2>3
        <3>2. pipe'[x] = pipe[x] \o <<Mark>> /\ pipe'[x] \in Seq(Piece)
            BY <1>3, <3>1, AppendIsConcat, AppendProperties
        <3>3. pipe'[x] \o <<>> = pipe'[x]
            BY <3>2, ConcatEmptySeq
        <3> QED
            BY <2>1, <2>2, <3>1, <3>2, <3>3
    <2>4. CASE x = "err"
        BY <1>1, <1>4, <2>1, <2>2, <2>4
    <2> QED
        BY <2>3, <2>4 DEF Stream
<1>6. Flows'
    BY <1>1, <1>5, MovedAlong DEF Underway
<1> QED
    BY <1>1, <1>3, <1>4, <1>6 DEF Underway

LEMMA ExitShellFlows ==
    ASSUME Typed, Shaped, Underway, current \in Written, ExitShell
    PROVE  Underway'
<1>1. /\ alive' = FALSE /\ job' = 0 /\ UNCHANGED <<input, left, pipe, cmds, reader>>
    BY DEF ExitShell
<1>2. job # 0 /\ left = Both(<<>>) /\ ~Closing
    BY DoneCases DEF ExitShell
<1>3. job = current /\ input = <<>> /\ current' = current /\ part' = part /\ Mark' = Mark
    BY <1>1, <1>2 DEF Underway, reader, Mark
<1>4. ASSUME NEW x \in Stream
      PROVE  pipe'[x] \in Seq(Piece) /\ Rest(x)' \in Seq(Piece)
             /\ pipe'[x] \o Rest(x)' = pipe[x] \o Rest(x)
    <2>1. Rest(x) = <<Mark>>
        <3>1. Rest(x) = Append(left[x], Mark) /\ left[x] = <<>>
            BY <1>2, <1>3 DEF Rest, Both
        <3> QED
            BY <3>1, OneElement
    <2>2. Rest(x)' = <<Mark>>
        BY <1>1, <1>3 DEF Rest
    <2> QED
        BY <1>1, <2>1, <2>2, RestTyped DEF Typed, ShellTyped
<1>5. Flows'
    BY <1>1, <1>4, MovedAlong DEF Underway
<1> QED
    BY <1>1, <1>3, <1>5 DEF Underway

LEMMA ShellOwn == ASSUME Typed, Shaped, Own, Shell PROVE Own'
<1>1. UNCHANGED <<cmds, answers, current>>
    BY DEF Shell, StartJob, PrintNext, EndJob, Swallow, ExitShell, reader
<1>2. Clean' = Clean /\ current' = current /\ cmds' = cmds
    BY <1>1 DEF Clean, Untroubled
<1>3. CASE current = 0 /\ Clean
    <2>1. Silent
        BY <1>3 DEF Own
    <2> QED
        BY <2>1 DEF Silent, Shell, StartJob, PrintNext, EndJob, Swallow, ExitShell, Done, Both
<1>4. CASE current # 0 /\ Clean /\ cmds[current].does.kind # "partial"
    <2>1. Underway /\ current \in Written
        <3>1. Len(cmds) \in Nat /\ current = Len(cmds)
            BY <1>4, LenProperties DEF Typed, CallTyped
        <3> QED
            BY <1>4, <3>1 DEF Own, Written
    <2>2. ~Swallow
        BY <2>1 DEF Underway, Swallow, Done
    <2>3. Underway'
        BY <1>4, <2>1, <2>2, StartJobFlows, PrintNextFlows, EndJobFlows, ExitShellFlows DEF Shell
    <2> QED
        BY <1>2, <1>4, <2>3 DEF Own
<1> QED
    BY <1>2, <1>3, <1>4 DEF Own

LEMMA CallNumbers ==
    ASSUME Typed
    PROVE  /\ Len(cmds) \in Nat /\ Len(answers) \in Nat
           /\ current # 0 => current = Len(answers) + 1 /\ current = Len(cmds) /\ current \in Written
           /\ current = 0 => Len(cmds) = Len(answers)
<1>1. Len(cmds) \in Nat /\ Len(answers) \in Nat
    BY LenProperties DEF Typed, CallTyped
<1>2. current # 0 => current = Len(cmds) /\ current = Len(answers) + 1
    BY DEF Typed, CallTyped
<1>3. current = 0 => Len(cmds) = Len(answers)
    <2>1. current = 0 => Len(cmds) = Len(answers) + 0
        BY DEF Typed, CallTyped
    <2> QED
        BY <1>1, <2>1
<1>4. current # 0 => current \in Written
    BY <1>1, <1>2 DEF Written
<1> QED
    BY <1>1, <1>2, <1>3, <1>4

(* What is read is the head of what the command still has to say.           *)
LEMMA ReadHead ==
    ASSUME Typed, Underway, current \in Written, cmds[current].does.kind # "partial",
           NEW s \in Stream, seen[s] = 0, pipe[s] # <<>>
    PROVE  LET t == Head(pipe[s])
               b == pipe[s] \o Rest(s) IN
           /\ t \in Piece /\ b \in Seq(Piece) /\ b # <<>> /\ Head(b) = t /\ Tail(b) = Tail(pipe[s]) \o Rest(s)
           /\ \/ t.kind = "line"
              \/ t.kind = "mark" /\ t.of = current /\ buf[s] = Text(current, s)
                 /\ Tail(pipe[s]) = <<>> /\ Rest(s) = <<>>
<1> DEFINE t == Head(pipe[s])
<1> DEFINE b == pipe[s] \o Rest(s)
<1> DEFINE txt == Text(current, s)
<1>1. pipe[s] \in Seq(Piece) /\ Rest(s) \in Seq(Piece) /\ buf[s] \in Seq(Piece)
      /\ txt \in Seq(Piece) /\ Mark \in Piece /\ b \in Seq(Piece)
    BY RestTyped DEF Typed, ShellTyped, CallTyped
<1>2. t \in Piece /\ Tail(pipe[s]) \in Seq(Piece)
    BY <1>1, HeadTailProperties
<1>3. Head(b) = t /\ Tail(b) = Tail(pipe[s]) \o Rest(s) /\ b # <<>>
    BY <1>1, TailOfConcat
<1>4. buf[s] \o b = Append(txt, Mark)
    BY DEF Underway, Flows
<1>5. Len(txt) \in Nat /\ \A i \in 1..Len(txt) : txt[i].kind = "line"
    <2>1. txt = <<>> \/ txt = <<Tok(current, "line")>>
        BY TextIs
    <2> QED
        BY <2>1 DEF Tok
<1> DEFINE a == buf[s]
<1> HIDE DEF a, b, txt
<1>6. \/ Len(a) + 1 \in 1..Len(txt) /\ Head(b) = txt[Len(a) + 1]
      \/ Head(b) = Mark /\ a = txt /\ Tail(b) = <<>>
    <2>1. a \in Seq(Piece) /\ b \in Seq(Piece) /\ txt \in Seq(Piece) /\ Mark \in Piece
          /\ Completes(b, a, txt, Mark) /\ b # <<>>
        BY <1>1, <1>3, <1>4 DEF a, Completes
    <2> QED
        BY <2>1, EndsIn
<1>7. CASE Len(a) + 1 \in 1..Len(txt) /\ Head(b) = txt[Len(a) + 1]
    <2>1. t.kind = "line"
        BY <1>3, <1>5, <1>7
    <2> QED
        BY <1>1, <1>2, <1>3, <2>1 DEF b
<1>8. CASE Head(b) = Mark /\ a = txt /\ Tail(b) = <<>>
    <2>1. Tail(pipe[s]) \o Rest(s) = <<>>
        BY <1>3, <1>8
    <2>2. Tail(pipe[s]) = <<>> /\ Rest(s) = <<>>
        BY <1>1, <1>2, <2>1, ConcatEqualIffEmpty
    <2>3. t.kind = "mark" /\ t.of = current
        BY <1>3, <1>8 DEF Mark, Tok
    <2> QED
        BY <1>1, <1>2, <1>3, <1>8, <2>2, <2>3 DEF a, b, txt
<1> QED
    BY <1>6, <1>7, <1>8

LEMMA ReadChunkFlows ==
    ASSUME Typed, Underway, current \in Written, cmds[current].does.kind # "partial",
           NEW s \in Stream, ReadChunk(s)
    PROVE  Underway'
<1> DEFINE t == Head(pipe[s])
<1> DEFINE b == pipe[s] \o Rest(s)
<1>1. /\ seen[s] = 0 /\ pipe[s] # <<>> /\ pipe' = [pipe EXCEPT ![s] = Tail(@)]
      /\ UNCHANGED <<shell, cmds, current>> /\ part = Both(<<>>)
    BY DEF ReadChunk, Reading, Underway
<1>2. /\ t \in Piece /\ b \in Seq(Piece) /\ b # <<>> /\ Head(b) = t /\ Tail(b) = Tail(pipe[s]) \o Rest(s)
      /\ \/ t.kind = "line"
         \/ t.kind = "mark" /\ t.of = current /\ buf[s] = Text(current, s)
            /\ Tail(pipe[s]) = <<>> /\ Rest(s) = <<>>
    BY <1>1, ReadHead
<1> HIDE DEF t, b
<1>3. /\ pipe \in [Stream -> Seq(Piece)] /\ buf \in [Stream -> Seq(Piece)]
      /\ seen \in [Stream -> 0..Len(cmds)] /\ part[s] = <<>>
    BY <1>1 DEF Typed, ShellTyped, CallTyped, Both
<1>4. /\ Mark' = Mark /\ \A x \in Stream : Rest(x)' = Rest(x) /\ Text(current, x)' = Text(current, x)
      /\ UNCHANGED <<input, job, current>>
    BY <1>1 DEF Mark, shell, Rest, Closing, Text
<1>5. CASE t.kind = "mark" /\ seen' = [seen EXCEPT ![s] = t.of] /\ Complete(s, <<>>)
    <2>1. /\ buf' = buf /\ part' = Both(<<>>)
        <3>1. buf[s] \o <<>> = buf[s]
            BY <1>3, ConcatEmptySeq
        <3> QED
            BY <1>3, <1>5, <3>1 DEF Complete
    <2>2. seen'[s] = current /\ pipe'[s] = <<>> /\ Rest(s)' = <<>> /\ buf'[s] = Text(current, s)' /\ current' = current
        BY <1>1, <1>2, <1>3, <1>4, <1>5, <2>1
    <2>3. current # 0
        BY LenProperties DEF Written, Typed, CallTyped
    <2>4. ASSUME NEW x \in Stream, x # s
          PROVE  seen'[x] = seen[x] /\ pipe'[x] = pipe[x] /\ buf'[x] = buf[x]
        BY <1>1, <1>3, <1>5, <2>1, <2>4
    <2>5. Flows'
        BY <1>4, <2>2, <2>3, <2>4 DEF Underway, Flows
    <2> QED
        BY <1>4, <2>1, <2>5 DEF Underway
<1>6. CASE t.kind = "line" /\ Complete(s, Append(part[s], t)) /\ UNCHANGED seen
    <2>1. part' = Both(<<>>) /\ buf'[s] = Append(buf[s], t)
        <3>1. Append(part[s], t) = <<t>>
            BY <1>3, OneElement
        <3>2. buf[s] \o <<t>> = Append(buf[s], t)
            BY <1>2, <1>3, AppendIsConcat
        <3> QED
            BY <1>3, <1>6, <3>1, <3>2 DEF Complete
    <2>2. Append(buf[s], t) \o Tail(b) = buf[s] \o b
        BY <1>2, <1>3, MoveOne
    <2>3. buf'[s] \o (pipe'[s] \o Rest(s)') = Append(Text(current, s)', Mark')
        <3>1. buf[s] \o b = Append(Text(current, s), Mark)
            BY <1>1 DEF Underway, Flows, b
        <3>2. pipe'[s] = Tail(pipe[s])
            BY <1>1, <1>3
        <3> QED
            BY <1>2, <1>4, <2>1, <2>2, <3>1, <3>2
    <2>4. ASSUME NEW x \in Stream, x # s
          PROVE  pipe'[x] = pipe[x] /\ buf'[x] = buf[x]
        BY <1>1, <1>3, <1>6, <2>4 DEF Complete
    <2>5. Flows'
        BY <1>1, <1>4, <1>6, <2>3, <2>4 DEF Underway, Flows
    <2> QED
        BY <1>4, <2>1, <2>5 DEF Underway
<1> QED
    BY <1>2, <1>3, <1>5, <1>6 DEF ReadChunk, t

LEMMA ReadEndFlows ==
    ASSUME Typed, Underway, NEW s \in Stream, ReadEnd(s)
    PROVE  Underway'
<1>1. part = Both(<<>>) /\ UNCHANGED <<shell, pipe, cmds, current, seen>>
    BY DEF Underway, ReadEnd
<1>2. buf' = buf /\ part' = part
    <2>1. buf \in [Stream -> Seq(Piece)] /\ part[s] = <<>>
        BY <1>1 DEF Typed, CallTyped, Both
    <2>2. buf[s] \o part[s] = buf[s]
        BY <2>1, ConcatEmptySeq
    <2> QED
        BY <1>1, <2>1, <2>2 DEF ReadEnd, Complete
<1> QED
    BY <1>1, <1>2 DEF Underway, Flows, Rest, Mark, Closing, Text, shell

LEMMA ReadOwn == ASSUME Typed, Own, NEW s \in Stream, ReadChunk(s) \/ ReadEnd(s) PROVE Own'
<1>1. UNCHANGED <<cmds, answers, current>> /\ current # 0 /\ current \in Written
    BY CallNumbers DEF ReadChunk, ReadEnd, Reading
<1>2. Clean' = Clean /\ current' = current /\ cmds' = cmds
    BY <1>1 DEF Clean, Untroubled
<1>3. CASE Clean /\ cmds[current].does.kind # "partial"
    BY <1>1, <1>2, <1>3, ReadChunkFlows, ReadEndFlows DEF Own
<1> QED
    BY <1>1, <1>2, <1>3 DEF Own

LEMMA IssueKeepsCmds ==
    ASSUME Typed, NEW does \in Behaviour \cup {WhichSnip}, Issue(does)
    PROVE  /\ UNCHANGED answers /\ Len(answers) = Len(cmds) /\ current = 0 /\ current' = Len(cmds) + 1
           /\ \A n \in 1..Len(answers) : cmds'[n] = cmds[n]
           /\ \A n \in 1..Len(answers) : Untroubled(n)' = Untroubled(n)
           /\ Clean' = Clean
<1>1. UNCHANGED answers /\ Len(answers) = Len(cmds) /\ Len(answers) \in Nat
    BY CallNumbers DEF Issue, Free
<1>2. \A n \in 1..Len(answers) : cmds'[n] = cmds[n]
    <2> DEFINE c == [does |-> does, which |-> phase[Holder] = "which",
                     snip |-> IF phase[Holder] = "which" THEN 0 ELSE snip[Holder]]
    <2>1. cmds' = Append(cmds, c)
        BY DEF Issue
    <2> HIDE DEF c
    <2>2. cmds \in Seq([does : Deed, which : BOOLEAN, snip : Nat])
        BY DEF Typed, CallTyped
    <2>3. cmds \in Seq([does : Deed, which : BOOLEAN, snip : Nat] \cup {c})
        BY <2>2, SeqMonotonic
    <2> QED
        BY <1>1, <2>1, <2>3, AppendProperties
<1>3. ASSUME NEW n \in 0..Len(answers) PROVE Untroubled(n)' = Untroubled(n)
    <2>1. \A k \in 1..n : k \in 1..Len(answers)
        BY <1>1
    <2>2. \A k \in 1..n : cmds'[k] = cmds[k] /\ answers'[k] = answers[k]
        BY <1>1, <1>2, <2>1
    <2> QED
        BY <2>2 DEF Untroubled
<1>4. Clean' = Clean
    BY <1>1, <1>3 DEF Clean
<1> QED
    BY <1>1, <1>2, <1>3, <1>4 DEF Issue, Free

LEMMA IssueOwn ==
    ASSUME Typed, Shaped, Own, NEW does \in Behaviour \cup {WhichSnip}, Issue(does)
    PROVE  Own'
<1>1. /\ Clean' = Clean /\ current = 0 /\ current' = Len(cmds) + 1 /\ Len(cmds) \in Nat
      /\ buf' = Both(<<>>) /\ part' = Both(<<>>) /\ seen' = Both(0)
      /\ UNCHANGED <<job, pipe>> /\ input' = Append(input, Len(cmds) + 1)
    BY IssueKeepsCmds, CallNumbers DEF Issue, Fresh
<1>2. CASE Clean
    <2>1. Silent
        BY <1>1, <1>2 DEF Own
    <2>2. input' = <<current'>> /\ job' = 0 /\ input' # <<>>
        BY <1>1, <2>1, OneElement DEF Silent
    <2>3. ASSUME NEW s \in Stream
          PROVE  seen'[s] = 0 /\ buf'[s] \o (pipe'[s] \o Rest(s)') = Append(Text(current, s)', Mark')
        <3> DEFINE txt == Text(current, s)'
        <3> DEFINE S == {Tok(current', "line"), Tok(current', "frag"), Mark'}
        <3>1. Rest(s)' = Append(txt, Mark')
            BY <2>2 DEF Rest
        <3>2. buf'[s] = <<>> /\ pipe'[s] = <<>> /\ seen'[s] = 0
            BY <1>1, <2>1 DEF Silent, Both
        <3>3. txt = <<>> \/ txt = <<Tok(current', "line")>> \/ txt = <<Tok(current', "frag")>>
            BY DEF Text, Says
        <3> HIDE DEF txt
        <3>4. txt \in Seq(S) /\ Mark' \in S
            <4>1. Tok(current', "line") \in S /\ Tok(current', "frag") \in S /\ Mark' \in S
                OBVIOUS
            <4>2. <<>> \in Seq(S) /\ \A e \in S : <<e>> \in Seq(S)
                OBVIOUS
            <4> HIDE DEF S
            <4> QED
                BY <3>3, <4>1, <4>2
        <3>5. Append(txt, Mark') \in Seq(S)
            BY <3>4, AppendProperties
        <3>6. <<>> \o Append(txt, Mark') = Append(txt, Mark')
            BY <3>5, ConcatEmptySeq
        <3> QED
            BY <3>1, <3>2, <3>6 DEF txt
    <2>4. Flows'
        BY <2>3 DEF Flows
    <2>5. current' # 0
        BY <1>1
    <2>6. Underway'
        BY <1>1, <2>2, <2>4 DEF Underway
    <2> QED
        BY <2>5, <2>6 DEF Own
<1> QED
    BY <1>1, <1>2 DEF Own

LEMMA StillOwn ==
    ASSUME Own, UNCHANGED <<shell, pipe, cmds, reader, answers>>
    PROVE  Own'
BY DEF Own, Clean, Untroubled, Silent, Underway, Flows, Rest, Mark, Closing, Text, shell, reader

LEMMA ReturnOwn ==
    ASSUME Typed, Shaped, Own, OwnAnswer, current # 0, NEW timed \in BOOLEAN, timed \/ Finished,
           Return(Answer(timed))
    PROVE  Own' /\ OwnAnswer'
<1>0. PICK k : k = Len(answers) + 1
    OBVIOUS
<1>1. /\ Len(answers) \in Nat /\ Len(answers') = k /\ answers'[k] = Answer(timed)
      /\ DOMAIN answers = 1..Len(answers) /\ DOMAIN answers' = 1..k
      /\ \A n \in 1..Len(answers) : answers'[n] = answers[n]
      /\ current = k /\ current \in Written
    BY <1>0, ReturnCounted, CallNumbers
<1>2. current' = 0 /\ UNCHANGED <<shell, pipe, cmds>>
    BY DEF Return
<1>3. answers'[k].timed = timed /\ answers'[k].mark = seen /\ answers'[k].out = buf["out"] /\ answers'[k].err = buf["err"]
    BY <1>1 DEF Answer
<1>4. \A n \in 1..Len(answers) : Untroubled(n)' <=> Untroubled(n)
    <2>1. ASSUME NEW n \in 1..Len(answers) PROVE Untroubled(n)' <=> Untroubled(n)
        <3>1. \A i \in 1..n : i \in 1..Len(answers)
            BY <1>1
        <3> QED
            BY <1>1, <1>2, <3>1 DEF Untroubled
    <2> QED
        BY <2>1
<1>5. Untroubled(k)' => ~timed /\ Clean /\ cmds[k].does.kind # "partial"
    <2>1. SUFFICES ASSUME Untroubled(k)' PROVE ~timed /\ Clean /\ cmds[k].does.kind # "partial"
        OBVIOUS
    <2>2. \A i \in 1..k : ~answers'[i].timed /\ cmds'[i].does.kind # "partial"
        BY <2>1 DEF Untroubled
    <2>3. k \in 1..k /\ \A i \in 1..Len(answers) : i \in 1..k
        BY <1>0, <1>1
    <2> QED
        BY <1>1, <1>2, <1>3, <2>2, <2>3 DEF Clean, Untroubled
<1>6. ASSUME Untroubled(k)'
      PROVE  /\ seen["out"] = k /\ seen["err"] = k /\ buf["out"] = Text(k, "out") /\ buf["err"] = Text(k, "err")
             /\ pipe["out"] = <<>> /\ pipe["err"] = <<>> /\ Rest("out") = <<>> /\ Rest("err") = <<>>
             /\ Underway
    <2>1. Underway /\ Finished
        BY <1>1, <1>5, <1>6 DEF Own
    <2> QED
        BY <1>1, <2>1 DEF Underway, Flows, Finished, Stream
<1>7. ASSUME Untroubled(k)' PROVE Silent
    <2>1. Rest("err") = <<>> /\ Rest("err") \in Seq(Piece) /\ Mark \in Piece
          /\ left["err"] \in Seq(Piece) /\ Text(current, "err") \in Seq(Piece)
        BY <1>1, <1>6, <1>7, RestTyped DEF Stream, Typed, ShellTyped
    <2>2. Append(Text(current, "err"), Mark) # <<>> /\ Append(left["err"], Mark) # <<>>
        BY <2>1, AppendProperties
    <2>3. input = <<>>
        BY <2>1, <2>2 DEF Rest
    <2>4. job = 0
        <3>1. Closing => left["err"] # <<>>
            BY MarkIsMarked DEF Closing
        <3> QED
            BY <2>1, <2>2, <2>3, <3>1 DEF Rest
    <2>5. left = Both(<<>>)
        BY <2>4 DEF Shaped
    <2>6. pipe = Both(<<>>)
        BY <1>6, <1>7 DEF Typed, ShellTyped, Both, Stream
    <2> QED
        BY <2>3, <2>4, <2>5, <2>6 DEF Silent
<1>8. Own'
    <2>1. Clean' <=> Untroubled(k)'
        BY <1>1 DEF Clean
    <2>2. Silent => Silent'
        BY <1>2 DEF Silent, shell
    <2> QED
        BY <1>2, <1>7, <2>1, <2>2 DEF Own
<1>9. ASSUME NEW n \in 1..k, Untroubled(n)'
      PROVE  /\ answers'[n].mark = Both(n) /\ answers'[n].out = Text(n, "out")' /\ answers'[n].err = Text(n, "err")'
    <2>1. Text(n, "out")' = Text(n, "out") /\ Text(n, "err")' = Text(n, "err")
        BY <1>2 DEF Text
    <2>2. CASE n \in 1..Len(answers)
        BY <1>1, <1>4, <1>9, <2>1, <2>2 DEF OwnAnswer
    <2>3. CASE n \notin 1..Len(answers)
        <3>1. n = k
            BY <1>0, <1>1, <2>3
        <3>2. seen = Both(k)
            BY <1>6, <1>9, <3>1 DEF Both, Stream, Typed, CallTyped
        <3> QED
            BY <1>3, <1>6, <1>9, <2>1, <3>1, <3>2
    <2> QED
        BY <2>2, <2>3
<1>10. OwnAnswer'
    BY <1>1, <1>9 DEF OwnAnswer
<1> QED
    BY <1>8, <1>10

LEMMA StillOwnAnswer == ASSUME OwnAnswer, UNCHANGED <<cmds, answers>> PROVE OwnAnswer'
BY DEF OwnAnswer, Untroubled, Text

LEMMA IssueOwnAnswer ==
    ASSUME Typed, OwnAnswer, NEW does \in Behaviour \cup {WhichSnip}, Issue(does)
    PROVE  OwnAnswer'
<1>1. UNCHANGED answers /\ DOMAIN answers = 1..Len(answers)
      /\ \A n \in 1..Len(answers) : cmds'[n] = cmds[n] /\ (Untroubled(n)' <=> Untroubled(n))
    BY IssueKeepsCmds, LenProperties DEF Typed, CallTyped
<1>2. \A n \in 1..Len(answers) : \A s \in Stream : Text(n, s)' = Text(n, s)
    BY <1>1 DEF Text
<1> QED
    BY <1>1, <1>2 DEF OwnAnswer, Stream

-----------------------------------------------------------------------------
(* How far answers lag.                                                     *)
LEMMA ReturnLag ==
    ASSUME Typed, Floored, Ordered, LagBounded, current # 0, NEW timed \in BOOLEAN, timed \/ Finished,
           Return(Answer(timed))
    PROVE  LagBounded'
<1> DEFINE k == Len(answers) + 1
<1> DEFINE before(n) == {i \in 1..(n - 1) : answers[i].timed}
<1>1. /\ Len(answers) \in Nat /\ Len(answers') = k /\ answers'[k] = Answer(timed)
      /\ DOMAIN answers = 1..Len(answers) /\ DOMAIN answers' = 1..k
      /\ \A n \in 1..Len(answers) : answers'[n] = answers[n]
      /\ current = k /\ Len(cmds) = k /\ Timeouts \in Nat
    BY ReturnCounted, CallNumbers, TimeoutsCounted
<1>2. \A n \in 1..k : {i \in 1..(n - 1) : answers'[i].timed} = before(n)
    <2>1. ASSUME NEW n \in 1..k, NEW i \in 1..(n - 1) PROVE i \in 1..Len(answers)
        BY <1>1
    <2> QED
        BY <1>1, <2>1
<1>3. before(k) = {i \in DOMAIN answers : answers[i].timed}
    <2>1. k - 1 = Len(answers)
        BY <1>1
    <2> QED
        BY <1>1, <2>1
<1>4. Cardinality(before(k)) = Timeouts
    BY <1>3 DEF Timeouts
<1> HIDE DEF before
<1>5. ASSUME NEW n \in 1..k, ~answers'[n].timed, NEW s \in Stream
      PROVE  answers'[n].mark[s] \in (n - Cardinality(before(n)))..n
    <2>1. CASE n \in 1..Len(answers)
        <3>1. answers'[n] = answers[n] /\ n \in DOMAIN answers
            BY <1>1, <2>1
        <3> QED
            BY <1>5, <2>1, <3>1 DEF LagBounded, before
    <2>2. CASE n \notin 1..Len(answers)
        <3>1. n = k
            BY <1>1, <2>2
        <3>2. ~timed /\ answers'[n].mark = seen
            BY <1>1, <1>5, <3>1 DEF Answer
        <3>3. seen[s] # 0 /\ seen[s] \in 0..k
            BY <1>1, <3>2 DEF Finished, Stream, Typed, CallTyped
        <3>4. seen[s] + Timeouts > Len(answers)
            BY <3>3 DEF Floored
        <3>5. seen[s] \in (k - Timeouts)..k
            <4>1. seen[s] \in Nat /\ seen[s] <= k
                BY <1>1, <3>3
            <4>2. \A x, t, l \in Nat : x + t > l /\ x <= l + 1 => x \in (l + 1 - t)..(l + 1)
                OBVIOUS
            <4> QED
                BY <1>1, <3>4, <4>1, <4>2
        <3> QED
            BY <1>4, <3>1, <3>2, <3>5
    <2> QED
        BY <2>1, <2>2
<1> QED
    BY <1>1, <1>2, <1>5 DEF LagBounded

LEMMA StillLag == ASSUME LagBounded, UNCHANGED answers PROVE LagBounded'
BY DEF LagBounded

-----------------------------------------------------------------------------
BashInv == Typed /\ Shaped /\ Ordered /\ Floored /\ Own /\ OwnAnswer /\ LagBounded

LEMMA BashInitially == BashInit => BashInv
<1> SUFFICES ASSUME BashInit PROVE BashInv
    OBVIOUS
<1>1. /\ alive = TRUE /\ input = <<>> /\ job = 0 /\ left = Both(<<>>)
      /\ pipe = Both(<<>>) /\ cmds = <<>> /\ queue = <<>>
      /\ phase = [a \in Agent |-> "idle"] /\ snip = [a \in Agent |-> 0]
      /\ current = 0 /\ buf = Both(<<>>) /\ part = Both(<<>>) /\ seen = Both(0)
      /\ answers = <<>>
    BY DEF BashInit
<1>2. Len(cmds) = 0 /\ Len(answers) = 0 /\ DOMAIN input = {} /\ DOMAIN answers = {}
    BY <1>1
<1>3. left["out"] = <<>> /\ left["err"] = <<>> /\ \A s \in Stream : pipe[s] = <<>> /\ seen[s] = 0
    BY <1>1 DEF Both, Stream
<1>4. Typed
    <2>1. \A S : Both(<<>>) \in [Stream -> Seq(S)]
        BY DEF Both
    <2>2. Both(0) \in [Stream -> 0..Len(cmds)]
        BY <1>2 DEF Both
    <2>3. ShellTyped
        BY <1>1, <2>1 DEF ShellTyped
    <2>4. CallTyped
        BY <1>1, <1>2, <2>1, <2>2 DEF CallTyped
    <2>5. UsersTyped
        BY <1>1 DEF UsersTyped
    <2> QED
        BY <2>3, <2>4, <2>5 DEF Typed
<1>5. Shaped
    BY <1>1, <1>3, EmptyUnmarked, MarkIsMarked DEF Shaped, Closing
<1>6. \A s \in Stream : MarksIn(s) = {} /\ Marked(s) = {} /\ Due(s) = {}
    BY <1>1, <1>2, <1>3 DEF MarksIn, Marked, Due, Inputs
<1>7. Ordered /\ Floored
    BY <1>1, <1>2, <1>3, <1>6 DEF Ordered, InputOrdered, Rising, Floored
<1>8. Own
    BY <1>1 DEF Own, Silent
<1>9. OwnAnswer /\ LagBounded
    BY <1>2 DEF OwnAnswer, LagBounded
<1> QED
    BY <1>4, <1>5, <1>7, <1>8, <1>9 DEF BashInv

LEMMA ShellKeeps == ASSUME BashInv, Shell PROVE BashInv'
<1>1. UNCHANGED <<cmds, answers, seen>>
    BY DEF Shell, StartJob, PrintNext, EndJob, Swallow, ExitShell, reader
<1>2. Typed'
    BY StartJobTyped, PrintNextTyped, EndJobTyped, SwallowTyped, ExitShellTyped DEF BashInv, Shell
<1>3. Shaped' /\ Ordered'
    BY ShellShaped, ShellOrders DEF BashInv
<1>4. Floored'
    BY <1>1, ShellOrders, StillFloored DEF BashInv
<1>5. Own' /\ OwnAnswer' /\ LagBounded'
    BY <1>1, ShellOwn, StillOwnAnswer, StillLag DEF BashInv
<1> QED
    BY <1>2, <1>3, <1>4, <1>5 DEF BashInv

LEMMA IssueKeeps ==
    ASSUME BashInv, NEW does \in Behaviour \cup {WhichSnip}, Issue(does)
    PROVE  BashInv'
<1>1. UNCHANGED <<alive, job, left, answers>>
    BY DEF Issue
<1> QED
    BY <1>1, IssueTyped, StillShaped, IssueOrders, IssueFloored, IssueOwn, IssueOwnAnswer, StillLag
    DEF BashInv

LEMMA ReadKeeps ==
    ASSUME BashInv, NEW s \in Stream, ReadChunk(s) \/ ReadEnd(s)
    PROVE  BashInv'
<1>1. UNCHANGED <<cmds, answers, shell, alive, job, left>>
    BY DEF ReadChunk, ReadEnd, shell
<1>2. Typed' /\ Shaped' /\ Own' /\ OwnAnswer' /\ LagBounded'
    BY <1>1, ReadChunkTyped, ReadEndTyped, StillShaped, ReadOwn, StillOwnAnswer, StillLag DEF BashInv
<1>3. CASE ReadChunk(s)
    BY <1>2, <1>3, ReadChunkOrders, ReadChunkFloored DEF BashInv
<1>4. CASE ReadEnd(s)
    <2>1. UNCHANGED <<shell, pipe, seen, answers>>
        BY <1>4 DEF ReadEnd
    <2>2. Ordered' /\ Floored'
        BY <2>1, StillOrdered, StillFloored DEF BashInv
    <2> QED
        BY <1>2, <2>2 DEF BashInv
<1> QED
    BY <1>3, <1>4

LEMMA ReturnKeeps ==
    ASSUME BashInv, current # 0, NEW timed \in BOOLEAN, timed \/ Finished, Return(Answer(timed))
    PROVE  BashInv'
<1>1. UNCHANGED <<shell, pipe, alive, job, left>>
    BY DEF Return, shell
<1> QED
    BY <1>1, ReturnTyped, StillShaped, StillOrdered, ReturnFloored, ReturnOwn, ReturnLag DEF BashInv

LEMMA UserKeeps ==
    ASSUME BashInv, \/ IssueFails
                    \/ \E a \in Agent, first \in {"which", "run"} : Request(a, first)
    PROVE  BashInv'
<1>1. UNCHANGED <<shell, alive, job, left, pipe, cmds, reader, seen, answers>>
    BY DEF IssueFails, Request, shell, reader
<1>2. Typed'
    BY IssueFailsTyped, RequestTyped DEF BashInv
<1> QED
    BY <1>1, <1>2, StillShaped, StillOrdered, StillFloored, StillOwn, StillOwnAnswer, StillLag DEF BashInv

LEMMA StutterKeeps == ASSUME BashInv, UNCHANGED bashVars PROVE BashInv'
<1>1. UNCHANGED <<shell, alive, input, job, left, pipe, cmds, queue, phase, snip, reader,
                  current, buf, part, seen, answers>>
    BY DEF bashVars, shell, reader
<1>2. Typed'
    BY <1>1 DEF BashInv, Typed, ShellTyped, CallTyped, UsersTyped, Written, Piece
<1> QED
    BY <1>1, <1>2, StillShaped, StillOrdered, StillFloored, StillOwn, StillOwnAnswer, StillLag DEF BashInv

LEMMA BashKept == BashInv /\ [BashNext]_bashVars => BashInv'
<1> SUFFICES ASSUME BashInv, [BashNext]_bashVars PROVE BashInv'
    OBVIOUS
<1>1. CASE Shell
    BY <1>1, ShellKeeps
<1>2. CASE Call
    <2>1. ASSUME NEW does \in Behaviour \cup {WhichSnip}, Issue(does) PROVE BashInv'
        BY <2>1, IssueKeeps
    <2>2. CASE IssueFails
        BY <2>2, UserKeeps
    <2>3. ASSUME NEW s \in Stream, ReadChunk(s) \/ ReadEnd(s) PROVE BashInv'
        BY <2>3, ReadKeeps
    <2>4. CASE Finish
        BY <2>4, ReturnKeeps DEF Finish
    <2>5. CASE Timeout
        BY <2>5, ReturnKeeps DEF Timeout
    <2> QED
        BY <1>2, <2>1, <2>2, <2>3, <2>4, <2>5 DEF Call
<1>3. CASE \E a \in Agent, first \in {"which", "run"} : Request(a, first)
    BY <1>3, UserKeeps
<1>4. CASE UNCHANGED bashVars
    BY <1>4, StutterKeeps
<1> QED
    BY <1>1, <1>2, <1>3, <1>4 DEF BashNext

THEOREM BashInvariance == BashSpec => []BashInv
BY BashInitially, BashKept, PTL DEF BashSpec

(* AnswersBelong: with any number of agents, commands and timeouts, and      *)
(* whatever the order in which shell, pipes and callers take their steps, a  *)
(* call up to which nothing timed out and every line was finished returns    *)
(* what its own command printed, and any call that finishes lags by no more  *)
(* calls than timed out before it (BashSession::run_command).                *)
THEOREM AnswersAreOwn == BashSpec => []AnswersBelong
<1>1. BashInv => AnswersBelong
    BY DEF BashInv, AnswersBelong
<1> QED
    BY <1>1, BashInvariance, PTL

=============================================================================
