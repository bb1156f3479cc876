---------------------------- MODULE BashSession ----------------------------
(***************************************************************************)
(* The bash process the agents of a chat tree share, and the exec tool that *)
(* runs commands on it (xoxo-core/.../bash_session.rs, nerd/.../exec.rs).   *)
(*                                                                         *)
(* A call writes the command and two printf lines to the shell's stdin and  *)
(* reads both output pipes until each has shown its sentinel, or until a    *)
(* timeout.  The shell, the two pipes and the callers are asynchronous; a   *)
(* mutex admits one call at a time, and nothing clears the pipes between    *)
(* two calls.                                                              *)
(*                                                                         *)
(* A piece of output is a token: a line, a fragment without its newline, or *)
(* the sentinel of the command `of`.  A token is written at once; a pipe    *)
(* never fills.                                                            *)
(***************************************************************************)
EXTENDS Naturals, Sequences, FiniteSets

CONSTANTS
    Agent,          \* the agents of the tree
    MaxCommands,    \* bound: commands written to the shell
    MaxTimeouts,    \* bound: calls that run into their timeout
    SnipInstalled,  \* `which snip` finds something
    Kinds,          \* what commands may be, out of AllKinds
    Codes           \* the exit codes they may have

AllKinds == {"plain", "silent", "partial", "reads", "exits"}
Stream == {"out", "err"}

ASSUME BashAssumption ==
    /\ {MaxCommands, MaxTimeouts} \subseteq Nat
    /\ SnipInstalled \in BOOLEAN /\ Codes \subseteq Nat
    /\ Kinds \subseteq AllKinds

VARIABLES
    alive,      \* the shell runs
    input,      \* scripts on its stdin, by command number
    job,        \* the command it executes (0: none)
    left,       \* per stream, what that command will still print
    pipe,       \* per stream, what is printed and not yet read
    cmds,       \* the commands written so far
    queue,      \* the mutex: its holder, then those who wait
    phase,      \* per agent: "idle", "which" (detect_snip), "run"
    snip,       \* per agent: whose output the detected path was (0: no path)
    current,    \* run_command of the holder: the command it waits for (0: none)
    buf, part, seen,   \* per stream: stdout_buf, the unfinished read_line,
                       \* and the owner of the sentinel read (0: none yet)
    answers     \* what each command's call returned

shell    == <<alive, input, job, left>>
reader   == <<current, buf, part, seen>>
bashVars == <<shell, pipe, cmds, queue, phase, snip, reader, answers>>

Tok(n, kind) == [of |-> n, kind |-> kind]
Token == [of : 1..MaxCommands, kind : {"line", "frag", "mark"}]
Both(x) == [s \in Stream |-> x]

(* What an agent's command may do: print lines, nothing, or text without a   *)
(* newline and then end; copy its stdin to stdout for ever, beginning with   *)
(* the printf lines meant for the shell; or end the shell itself.            *)
Behaviour == [kind : Kinds, code : Codes]
WhichSnip == IF SnipInstalled THEN [kind |-> "path", code |-> 0]
                              ELSE [kind |-> "silent", code |-> 1]

Says(kind, s) ==
    CASE kind = "silent" \/ (kind \in {"path", "reads"} /\ s = "err") -> <<>>
      [] kind = "partial" /\ s = "out" -> <<"frag">>
      [] OTHER -> <<"line">>

(* What command n prints by itself.                                         *)
Text(n, s) ==
    LET says == Says(cmds[n].does.kind, s) IN [i \in DOMAIN says |-> Tok(n, says[i])]

BashInit ==
    /\ alive = TRUE /\ input = <<>> /\ job = 0 /\ left = Both(<<>>)
    /\ pipe = Both(<<>>) /\ cmds = <<>> /\ queue = <<>>
    /\ phase = [a \in Agent |-> "idle"] /\ snip = [a \in Agent |-> 0]
    /\ current = 0 /\ buf = Both(<<>>) /\ part = Both(<<>>) /\ seen = Both(0)
    /\ answers = <<>>

-----------------------------------------------------------------------------
(* The shell *)

StartJob ==
    /\ alive /\ job = 0 /\ input # <<>>
    /\ job' = Head(input) /\ input' = Tail(input)
    /\ left' = [s \in Stream |-> Text(Head(input), s)]
    /\ UNCHANGED <<alive, pipe, cmds, queue, phase, snip, reader, answers>>

PrintNext(s) ==
    /\ left[s] # <<>>
    /\ pipe' = [pipe EXCEPT ![s] = Append(@, Head(left[s]))]
    /\ left' = [left EXCEPT ![s] = Tail(@)]
    /\ job' = IF left' = Both(<<>>) /\ Head(left[s]).kind = "mark" THEN 0 ELSE job
    /\ UNCHANGED <<alive, input, cmds, queue, phase, snip, reader, answers>>

Kind == cmds[job].does.kind
Done == job # 0 /\ left = Both(<<>>)

(* The command is over and the two printf lines follow, stdout's first.     *)
(* Nothing says that it ever is.                                            *)
EndJob ==
    /\ Done /\ Kind \notin {"reads", "exits"}
    /\ pipe' = [pipe EXCEPT !["out"] = Append(@, Tok(job, "mark"))]
    /\ left' = [left EXCEPT !["err"] = <<Tok(job, "mark")>>]
    /\ UNCHANGED <<alive, input, job, cmds, queue, phase, snip, reader, answers>>

(* The command took the rest of its script for its input, and does so with  *)
(* every later script.                                                      *)
Swallow ==
    /\ Done /\ Kind = "reads" /\ input # <<>>
    /\ pipe' = [pipe EXCEPT !["out"] = Append(@, Tok(Head(input), "line"))]
    /\ input' = Tail(input)
    /\ UNCHANGED <<alive, job, left, cmds, queue, phase, snip, reader, answers>>

ExitShell ==
    /\ Done /\ Kind = "exits"
    /\ alive' = FALSE /\ job' = 0
    /\ UNCHANGED <<input, left, pipe, cmds, queue, phase, snip, reader, answers>>

-----------------------------------------------------------------------------
(* run_command, by the holder of the mutex *)

Holder == Head(queue)
Free == current = 0 /\ queue # <<>>
Fresh == buf' = Both(<<>>) /\ part' = Both(<<>>) /\ seen' = Both(0)

(* write_all and flush.                                                     *)
Issue(does) ==
    LET n == Len(cmds) + 1
        detects == phase[Holder] = "which" IN
    /\ Free /\ alive /\ n <= MaxCommands
    /\ detects => does = WhichSnip
    /\ cmds' = Append(cmds, [does |-> does, which |-> detects,
                             snip |-> IF detects THEN 0 ELSE snip[Holder]])
    /\ input' = Append(input, n)
    /\ current' = n /\ Fresh
    /\ UNCHANGED <<alive, job, left, pipe, queue, phase, snip, answers>>

(* The shell is gone: the pipe is broken, and the tool fails.               *)
IssueFails ==
    /\ Free /\ ~alive
    /\ phase' = [phase EXCEPT ![Holder] = "idle"]
    /\ snip' = [snip EXCEPT ![Holder] = 0]
    /\ queue' = Tail(queue)
    /\ UNCHANGED <<shell, pipe, cmds, reader, answers>>

FinishedByOne == seen["out"] # 0 \/ seen["err"] # 0      \* mutant: || for &&
Finished == seen["out"] # 0 /\ seen["err"] # 0
Reading(s) == current # 0 /\ seen[s] = 0 /\ ~Finished

(* A read_line that completes ends the select!: the other stream's future   *)
(* is dropped, with the bytes it had taken from the pipe.                   *)
Complete(s, line) ==
    /\ buf' = [buf EXCEPT ![s] = @ \o line]
    /\ part' = Both(<<>>)

ReadChunk(s) ==
    LET t == Head(pipe[s]) IN
    /\ Reading(s) /\ pipe[s] # <<>>
    /\ pipe' = [pipe EXCEPT ![s] = Tail(@)]
    /\ \/ /\ t.kind = "frag"
          /\ part' = [part EXCEPT ![s] = Append(@, t)]
          /\ UNCHANGED <<buf, seen>>
       \/ /\ t.kind = "mark" /\ part[s] = <<>>
          /\ seen' = [seen EXCEPT ![s] = t.of]
          /\ Complete(s, <<>>)
       \/ /\ t.kind = "line" \/ (t.kind = "mark" /\ part[s] # <<>>)
          /\ Complete(s, Append(part[s], t))
          /\ UNCHANGED seen
    /\ UNCHANGED <<shell, cmds, queue, phase, snip, current, answers>>

(* At the end of the stream read_line returns at once, again and again, with *)
(* what it has; no sentinel will come.                                      *)
ReadEnd(s) ==
    /\ Reading(s) /\ ~alive /\ pipe[s] = <<>>
    /\ Complete(s, part[s])
    /\ UNCHANGED <<shell, pipe, cmds, queue, phase, snip, current, seen, answers>>

-----------------------------------------------------------------------------
(* ExecTool::execute *)

At(p) == {a \in Agent : phase[a] = p}
Busy == Agent \ At("idle")
Owed ==                                     \* commands already asked for
    2 * Cardinality(At("which")) + Cardinality(At("run")) - (IF current = 0 THEN 0 ELSE 1)

(* A call: extended, or with "&&", it runs the command as it is; otherwise   *)
(* it first asks for snip, under a lock of its own.                         *)
Request(a, first) ==
    /\ phase[a] = "idle"
    /\ Len(cmds) + Owed + (IF first = "which" THEN 2 ELSE 1) <= MaxCommands
    /\ phase' = [phase EXCEPT ![a] = first]
    /\ queue' = Append(queue, a)
    /\ UNCHANGED <<shell, pipe, cmds, snip, reader, answers>>

(* detect_snip: the first line of an output that came with exit code 0.     *)
PathOf(ans) ==
    IF ans.timed \/ ans.out = <<>> \/ cmds[ans.mark["out"]].does.code # 0
    THEN 0 ELSE Head(ans.out).of

KeepLock(a) == Append(queue, a)                     \* mutant: never unlocked
Unlock(a) == Tail(queue)

Return(ans) ==
    /\ answers' = Append(answers, ans)
    /\ current' = 0 /\ Fresh
    /\ LET a == Holder IN
       IF phase[a] = "which"
       THEN /\ snip' = [snip EXCEPT ![a] = PathOf(ans)]
            /\ phase' = [phase EXCEPT ![a] = "run"]
            /\ queue' = Append(Unlock(a), a)
       ELSE /\ snip' = [snip EXCEPT ![a] = 0]
            /\ phase' = [phase EXCEPT ![a] = "idle"]
            /\ queue' = Unlock(a)
    /\ UNCHANGED <<shell, pipe, cmds>>

Answer(timed) == [timed |-> timed, mark |-> seen, out |-> buf["out"], err |-> buf["err"]]
Finish == current # 0 /\ Finished /\ Return(Answer(FALSE))

Timeouts == Cardinality({n \in DOMAIN answers : answers[n].timed})
Timeout ==
    /\ current # 0 /\ ~Finished /\ Timeouts < MaxTimeouts
    /\ Return(Answer(TRUE))

-----------------------------------------------------------------------------
Shell ==
    \/ StartJob
    \/ \E s \in Stream : PrintNext(s)
    \/ EndJob
    \/ Swallow
    \/ ExitShell

Call ==
    \/ \E does \in Behaviour \cup {WhichSnip} : Issue(does)
    \/ IssueFails
    \/ \E s \in Stream : ReadChunk(s) \/ ReadEnd(s)
    \/ Finish
    \/ Timeout

BashNext ==
    \/ Shell
    \/ Call
    \/ \E a \in Agent, first \in {"which", "run"} : Request(a, first)

BashSpec == BashInit /\ [][BashNext]_bashVars

(* The runtime polls the caller and its timer, and tokio's mutex is fair;   *)
(* nothing is promised of the shell, which other people's programs run in.  *)
BashFairSpec == BashSpec /\ WF_bashVars(Call)

-----------------------------------------------------------------------------
(* Properties *)

BashTypeOK ==
    /\ alive \in BOOLEAN /\ job \in 0..Len(cmds) /\ current \in 0..Len(cmds)
    /\ input \in Seq(DOMAIN cmds)
    /\ left \in [Stream -> Seq(Token)] /\ pipe \in [Stream -> Seq(Token)]
    /\ buf \in [Stream -> Seq(Token)] /\ part \in [Stream -> Seq(Token)]
    /\ seen \in [Stream -> 0..Len(cmds)]
    /\ Len(cmds) <= MaxCommands /\ Len(cmds) = Len(answers) + (IF current = 0 THEN 0 ELSE 1)
    /\ \A i, j \in DOMAIN queue : i # j => queue[i] # queue[j]
    /\ {queue[i] : i \in DOMAIN queue} = Busy
    /\ snip \in [Agent -> 0..Len(cmds)]
    /\ phase \in [Agent -> {"idle", "which", "run"}]

(* No call up to the n-th timed out, and no command ended its text in        *)
(* mid-line.                                                                 *)
Untroubled(n) ==
    \A k \in 1..n : ~answers[k].timed /\ cmds[k].does.kind # "partial"

OwnAnswer ==
    \A n \in DOMAIN answers :
        Untroubled(n) =>
            /\ answers[n].mark = Both(n)
            /\ answers[n].out = Text(n, "out")
            /\ answers[n].err = Text(n, "err")

LagBounded ==
    \A n \in DOMAIN answers :
        LET before == Cardinality({k \in 1..(n - 1) : answers[k].timed}) IN
        ~answers[n].timed => \A s \in Stream : answers[n].mark[s] \in (n - before)..n

(* Until the first timeout a call returns what its own command printed on    *)
(* each stream, all of it and nothing else, with its own exit code (that of  *)
(* the sentinel), whatever the order in which the shell prints, the streams  *)
(* are read and agents take turns.  Timeouts shift answers, but only so far: *)
(* the exit code and the end of stderr are those of a command at most as     *)
(* many calls earlier as there were timeouts (run_command).                      *)
AnswersBelong == OwnAnswer /\ LagBounded

(* Every exec call returns, though the shell may hang or be gone: the other   *)
(* agents of the tree get the mutex, and the caller a result or an error.     *)
Returned == \A a \in Agent : phase[a] # "idle" ~> phase[a] = "idle"

(* exec.rs:58: "the tool uses snip when available": the path it puts in      *)
(* front of a command was printed by `which snip`.                           *)
PathIsOfWhich ==
    \A n \in DOMAIN cmds : cmds[n].snip # 0 => cmds[cmds[n].snip].which
=============================================================================
