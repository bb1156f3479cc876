# xoxo in TLA+

xoxo is a terminal program in which a user talks to LLM agents that run tools:
shell commands, long-running processes, file edits. The Rust code is
concurrent almost everywhere (tokio tasks, channels, a broadcast bus, locks
taken for one access each), it persists every step of a conversation, and it
can be killed between any two of them. This directory holds TLA+ modules for
the parts of it that keep state and for the algorithms that edit and show
files, the TLC configurations that check them on small instances, and TLAPS
proofs of what matters most for every value of their parameters. Paths below
are relative to the repository's root; `core/` stands for
`crates/lib/xoxo-core/src/`, `nerd/` for `crates/agents/nerd/src/`, `ast/` for
`crates/agents/nerd-ast/src/`, `tui/` for `crates/lib/xoxo-tui/src/`.

## The system

```
  keyboard                       tools: exec, process, files, syntax, MCP
     |                                        |
  terminal client --commands(64)--> daemon --mailbox(64)--> agent runner
   |  ^                               |                        |   |   |
   |  |                               +-- spawner, registry ---+   |  facade
   |  +------------ events, ring of 256 ------------------ bus <---+   |
   |  |                                                            |  provider
   |  +-------------- reload -------- storage (sled) <-- snapshot--+
   +--- settings ---> config.toml ---> daemon, MCP catalog
```

| component | state | operations | interacts by |
|---|---|---|---|
| agent runner (`core/agents/runner.rs`) | mailbox, transcript, tool calls of the round | take a command, complete, dispatch tool calls, close | snapshot to storage after every push, events on the bus, handoff to a parent |
| spawner, handle registry (`core/agents/spawner.rs`, `handles.rs`) | chat -> handle, root chat -> execution context | spawn a root, restore one, spawn a subagent, clean up | locks taken for one access; tasks |
| daemon (`crates/bin/xoxo/src/daemon.rs`) | handles of roots | route a message to a held, a stored or a new chat; choose its provider | command channel, mailboxes, config.toml |
| bus (`core/bus.rs`) | command channel, event ring | send (waits), publish (never waits), receive (may lag) | everything |
| client session (`tui/app.rs`, `app/sync.rs`, `bin/xoxo/src/main.rs`) | active chat, turn indicator, history | submit, `/new`, `/sessions`, drain the ring, reload | commands, events, storage |
| client input and settings (`tui/app/events/`, `tui/app/modal/`) | input line, mention popup, menu, settings modal | a key | the session; config.toml |
| configuration, LLM facade (`core/config/`, `core/llm/`) | config.toml, the registry of providers | load, save, choose a provider and its client | read by daemon and MCP catalog, written by the settings |
| bash session and `exec` (`core/tooling/execution_context/bash_session.rs`, `nerd/tools/exec.rs`) | a shell, its pipes, a mutex | `which snip`, run a command with a timeout | sentinels in the shell's output |
| file tools and registry (`core/tooling/execution_context/mod.rs`, `nerd/tools/`) | checksums of files read | read, create, patch | the disk, shared by agents and others |
| noise stripper (`nerd/coding/noise_stripper/`) | a lexer's state | show a file with its comments blanked | `read_file`; line numbers go to `patch_file` |
| syntax tools (`ast/`) | a file's tree | rename, patch, import, find symbols, references, tests | the parser, the file registry |
| process registry and `process` (`core/tooling/execution_context/process_registry.rs`, `nerd/tools/process.rs`) | children, buffers, exit fields | start, poll, signal | three tasks for each child |
| MCP catalog and client (`core/mcp/`) | sessions, tool lists, the started flag | connect, list tools, call one | locks taken for one access, a mutex, config.toml |
| storage, chat types, tool registry | snapshots, transcripts | save, load | modelled as the above use them |
| todo list, vector stores, skills, search tools, log layer, rendering, ACP, concierge | small or none | | not modelled, see the end |

What is hard here, and what correctness means for each part:

- **Runner.** A turn is a chain of push, save and publish, with an `await`
  before each link. A crash may fall between any two, a save may fail, a
  shutdown may sit in the mailbox. The transcript must stay a sequence of
  well-formed turns, storage must never lose what it has acknowledged,
  nobody may have seen an event that a reload does not show, messages are
  taken up in order and once.
- **Spawner and daemon.** Exits, cleanups, spawns and restores interleave
  between lock acquisitions. A running agent must keep its shell, its registry
  entry and its chat; a tree nobody uses must be released.
- **Client session, bus and daemon.** Two bounded channels with waiting senders
  and a ring that overwrites. Nothing may be lost, repeated or overtaken,
  nothing may wait in a circle, and a message should go to the chat the user
  means, and to the provider the header shows.
- **Input and settings.** A popup keeps an index into a line that typing,
  pasting, erasing and completing change; a modal keeps a copy of a file and a
  position in a list that edits shorten and lengthen.
- **Shell.** Answers are recognised by sentinels on two streams; a timeout
  leaves the sentinel of the abandoned command in the pipe.
- **Files.** An edit names line numbers or nodes in a content that was seen
  earlier; the file may have changed since, between calls and within one; and
  an edit of many places must not be moved by its own earlier ones.
- **Noise stripper.** 25 hand-written lexers must agree on one thing: what
  they show has the line numbers and columns of the file; and each must know what
  opens a comment in its language and what only looks like it.
- **Processes.** Exit code, signal and running flag are set and read under
  separate locks; a buffer grows while it is copied.
- **MCP.** Callers race to build and to start a server's client while the
  server may die and its configuration change.

## Modules and how they correspond to the code

**AgentRunner** is `AgentRunner::run` with the parts of the spawner that start,
restore and clean up an agent. `chat` is the in-memory history, `disk` the
stored snapshot, `mailbox` the command channel, `bus` what this process has
published, `pc` the place in `run` (`recv`, `accepted`, `completing`,
`replied`, `dispatching`, `started`, `executing`, `finished`, `closing`).
`Push` is `push_message_event` or `push_tool_call_event` with the
`persist_history_snapshot` it ends in: two writes, each of which may fail and
then publishes an error. `Crash` loses all but storage; `Restore` is
`restore_root`. Two history variables: `sent` numbers the accepted messages,
`cuts` remembers where restarts resumed. Text is abstracted to identities;
tool results and typed messages are both stored with role User, as in the code.

**Conversation** is what an agent promises, in turns: messages taken up in
order, one result for each, finished turns never taken back, a crash cutting at
most the open turn unless a save had failed. **RunnerIsConversation** maps the
runner's transcript to it: a turn begins at a user message and its state is told
by its last event. `ImplementsConversation` is the safety part of the promise,
`KeepsConversing` its fairness, with `TakenUp` spelled out for the runner's own
mailbox. **TranscriptView** adds what a terminal shows of
a chat live (`handle_bus_event`) and after a reload (`history_from_chat`). The
live view also keeps the thinking that came before an agent's message, and the
agent's shutdown; nothing persists these, so `ReloadShowsTheSame` compares the
messages and tool calls of both (`Told`). Of deltas the bus carries the thinking
only, a run of them as one envelope: text deltas enter no history.
**Selections** is what an iterator's `filter` leaves of a sequence, written by
counting positions and not by recursion. **AgentRunnerProofs** holds the
runner's proofs.

**AgentTree** is `spawn_root`, `restore_root`, `do_spawn_with_handoff`,
`ensure_root_execution_context` and `cleanup_after_runner`, one action for each
lock acquisition, together with the daemon's `root_handles` and its
`handle_submit_user_message`. A task's turn is only "in a turn": it is
AgentRunner's subject. `Senderless` is the condition under which `recv()`
returns `None`: every holder of a sender (registry, daemon, caller of spawn)
has dropped it. **AgentTreeProofs** holds its proofs.

**TerminalSession** composes client, bus and daemon. `tui` is the place in the
client's loop (`poll`, `submit`, `drain`), `commands` the channel, `unread` and
`lagged` the ring, `hand` the message the daemon waits to deliver and the agent
it goes to. An agent is its mailbox and its turn. It has the number of its chat;
`Second(c)` is the one restored for a chat whose first agent the daemon has let
go of (`strayed`). `spawn_root` sends the message that opens a chat, and only
then is the pointer to the chat stored and the handle kept (`Settle`), or
neither, with an error for a message the agent has (`Forget`). Snapshots are
always written here; AgentRunner has their failures. `aim`, `convOf` and `convOfChat` are history
variables for what the user means: a conversation begins at `/new` and is come
back to by `/sessions`; `hasty` records whether the user touched a key before
everything had come to rest. **TerminalSessionProofs** holds its
proofs.

**SettingsModal** is the settings: the modal's sections and panes
(`config.rs`) and the provider pane's three modes (`provider_pane.rs`), on the
copy of config.toml that the modal took when it was opened (`config`) beside
the file itself (`disk`). A save writes the copy whole, or fails unnoticed
(`faults`). A provider is its kind and its name; URL, key and compatibility are
fields nothing looks at. **TerminalInput** puts it among the other takers of a
key: the mention popup with the walk of the workspace behind it, the input
line and its commands, the menu of sessions. A symbol of the input line is a
character or a word of a path or a command. **ProviderRouting** composes both
with the daemon's choice of a provider (`resolve_current_provider_config`) and
the facade's choice of a client (`selector.rs`, `rig_stream.rs`): `chats` is
the provider stored with each chat and that of its runner.
**ProviderRoutingProofs** holds their proofs.

**BashSession** models the shell, its two pipes, `run_command` and `exec`'s two
calls of it. A piece of output is a token with the command it belongs to: a
line, a fragment without newline, or the sentinel. `ReadChunk` and `ReadEnd`
are the two branches of the `select!`, including what a completed branch does
to the other one's unfinished `read_line`. `queue` is tokio's fair mutex.
**ExecutionContextProofs** holds its proofs and those of ManagedProcesses, the
other part of `ExecutionContext`; where both modules would use the same name
BashSession's begins with `Bash`.

**FilePatching** models one file, the registry's entry for it and six tools,
each access to disk or registry a step of its own. A content is a version
number and a checksum names the version it was computed from. `fs::write` may
fail, with the file untouched or holding a part of what was to be written.
`calm`, `users` and `touched` are history variables: whether anything touched
the file inside a call, which agents used it, and into whose call somebody else
wrote. **FilePatchingProofs** holds its proofs and those of LineEdits and
SyntaxEdits.

**LineEdits** is what a `patch_file` batch does to the lines of one content:
`plan_updates` with its refusals and the line endings, and the operations in
the order the code applies them. **SyntaxEdits** is the other way to edit, by
byte ranges of a syntax tree: `nodes` is the tree in preorder, its leaves the
tokens and the gaps between them. A text is a sequence of characters (**Texts**
has their lines). The parser is external; each edit is made twice, on the bytes
as the tool makes it and on the leaves, and `TextIsTree` compares the two. An
import is written with the line ends of its file (`DetectLineEnding`) and looked
for without the blanks around it (`NormalizedBlock`).
**Grammars** holds the tables of
`ast/languages/*.rs`, one record for each language. **FileEdits** has a file
edited in either way.

**NoiseStripper** writes the 25 lexers as tables (what opens a region, how it
ends, what becomes of its inside) with one loop, one iteration a step.
What the loop is compared with, the division of a text into regions and lines
of block scalars (`Boundaries`, `ScalarLines`), is written without it.
**NoiseStripperProofs** proves what holds of the loop for all tables.

**ManagedProcesses** models a child, the reader and waiter tasks of
`ProcessRegistry::start`, and the tool calls, field by field. A read may fail,
and the reader stops (`broken`); `wait()` may fail, and the waiter clears the
running flag with nothing else to say (`unwaited`). What a child started may
print after its end. Its proofs are in ExecutionContextProofs.

**McpCatalog** is `McpCatalog` and `McpClientSession` with several callers, each
at a place of its own (`at`) between two lock acquisitions: look in the tool
cache, look for a session, build one, put it in unless another is there, take
the start mutex, shake hands, ask, store the list. Servers die, config.toml
changes, handshakes fail. **McpCatalogProofs** holds its proofs.

Composition goes by EXTENDS where components share state (ProviderRouting over
TerminalInput over SettingsModal, FileEdits over SyntaxEdits and LineEdits,
TranscriptView over AgentRunner) and otherwise by promise, not by one big
product. What AgentTree and TerminalSession assume of a turn (it takes one
message, it ends) is what AgentRunner's `InOrderOnce` and `TurnsEnd` establish;
what AgentRunner assumes of its mailbox is what TerminalSession's
`DeliveredOnceInOrder` establishes; that line numbers an agent saw are those of
the file is NoiseStripper's `ShapeKept`, that the file is still the one it saw
FilePatching's `AppliedToSeen`, and what then happens to the lines LineEdits'
`BatchIsFromOriginal`.

`MC*` modules only extend a module for TLC and give its constants values that
a `.cfg` cannot write. Definitions marked as mutants by their comment, before
them or at the end of their line, are variants of the definition below them in which a plausible bug is planted;
nothing uses them unless the definition is replaced by one to see the property
fail.

## Runs

| run | configuration | distinct states | shows |
|---|---|---|---|
| `agent` | MCAgentRunner | 946,000 | transcript, storage, bus, model context and reloaded history agree, with one crash and one failed write anywhere |
| `promise` | MCRunnerIsConversation | 111,000 | the runner implements Conversation and has its fairness; messages are taken up and turns end |
| `tree` | MCAgentTree | 95,000 | no agent loses shell, handle or chat to another; empty trees are released |
| `session` | MCTerminalSession | 901,549 | nothing lost, repeated or overtaken, and only the opener of a chat both answered and reported as failed; every message is taken up or refused; the indicator goes out; a patient user's messages stay in their conversation |
| `fresh_chat` | MCFreshChat | violation | the message after `/new` goes to the old chat |
| `bash` | MCBash | 672,000 | own answers until the first timeout, a bounded lag after it, every call returns |
| `patching` | MCFilePatching | 958,347 | edits are made of registered contents; undisturbed patches apply to what was seen |
| `processes` | MCManagedProcesses | 14,982 | consistent summaries, gapless polls, all output given to whoever polls on |
| `noise` | MCNoiseStripper | 138,000 | every language: the view keeps columns and line numbers and, where regions do not nest and the lexer knows a comment when it sees one, blanks the insides of comments, nothing else |
| `terminal` | MCTerminalInput | 607,000 | popup and line in step, highlights on what is shown, the current provider stays connected, messages go to the provider shown |
| `mcp` | MCMcpCatalog | 1,764,000 | racing callers use one client, which shakes hands once and first |
| `edits` | MCFileEdits | 214,372 | syntax edits land on their nodes in every language, renames are all or nothing and keep tests, imports are found again, batches count in the original's lines |

Seven more configurations are run by hand; each ends in the counterexample that
the last but one section describes: MCHiddenMessage and MCLostDraft (modules
MCAgentRunner, MCTerminalInput), MCPointerFault (MCAgentTree), MCSnipPath
(MCBashSession), MCChatsProvider (MCTerminalInput), MCJsxLines
and MCFreeForm (MCNoiseStripper).

### Bounds, and why they are enough

- **agent**: two messages, so that one waits in the mailbox while the other is
  worked on; one tool round of up to two calls, so that a failing first call
  has a second one behind it; one crash, one failed write. The properties
  compare neighbours in the transcript, the transcript with storage, and one
  message with the next, all of which these bounds reach. `promise` takes one
  call per round, because the temporal properties multiply the state space.
  The safety properties among these, the refinement included, are proved without
  bounds (see below).
- **tree**: three tasks over three chats, one of them from an earlier process:
  a root with two siblings, two roots with a subagent, or a root that is
  restored. The races are between two exits, or an exit and one start.
- **session**: three messages, up to four chats, one `/new`, one picked
  session, two failed submissions, as many as the ring holds; a command channel
  of 1, mailboxes of 2 and a ring of 2 in place of 64, 64 and 256, so that every
  one of them fills.
- **bash**: three commands of two agents (a command of its own may cost a call
  for `which snip`), each of which may print whole lines, print without a
  newline, read the rest of its script, or end the shell, and any call may time
  out. A lag of two needs three calls.
- **patching**: three contents of one file, two agents, other programs that
  write, delete or restore it at any moment. Agents are symmetric.
- **processes**: one child with three pieces of output, and any number of polls.
  Children share nothing but the registry's map and the agent's one call.
- **noise**: for each language all texts of three pieces from a vocabulary of
  its own openers, closers, escapes, quotes, blanks, newlines and a letter; of
  five pieces where regions nest (Rust comments, JSX, template literals, block
  scalars). Three pieces are an opener, what is in the region, and a closer or
  its look-alike; the lexers look no further back than their state. Fortran, whose
  fixed-form comments are blanked by characters, also has one that is not ASCII.
- **terminal**: an input line of up to three symbols from seven (a mention of
  one path, a command), four entries of which three are visible, five sessions
  on pages of two; two connected providers out of three built-ins, one custom
  and one the registry does not have, in three configurations to begin with
  (one of them empty, one with a stranger as current); one failed save. The
  settings are used with an empty or one-symbol line (`MaxFollowUp`), since the
  line and the modal do not read each other. One chat is followed (`MaxChats`):
  the property is about one chat at a time. After a failed save no chat is
  followed (`FollowsNoChat`): the property excepts it.
- **mcp**: three callers, one server, three clients, one change of the
  configuration among the settings that are refused or not; callers are
  symmetric. Two callers race and a third comes late; nothing is shared
  between servers but the maps, which are indexed by server. The proofs have
  no bounds.
- **edits**: two calls in a row, on one file per language and pair of item
  kinds, with the items beside or inside each other, with what may stand above
  them (imports, attributes, headers, a Go comment over the end of the first
  line), names that are equal, a prefix of another, or capitalised (a Haskell
  class and module of one name among them), and imports
  that are empty, of one line and of two; files with line feeds, with carriage
  returns and with both; batches of two updates on lines 1 to 3 of files with
  every line end, a final one or none.

`CHECK_DEADLOCK FALSE` stands where a bounded system really comes to a rest
(all messages used, all processes ended, the program quit). `session` never
stops (the client polls) and `mcp` neither: both are checked for deadlock.

### Fairness

- AgentRunner: weak fairness of `Run`, the runner's task. The runtime polls a
  ready task. It also says that the provider ends every stream and every tool
  returns; runner.rs sets no time limit on either, so `KeepsConversing` and
  `TurnsEnd` are promises under that assumption, and under the bound on the
  rounds a model asks for in a turn, which the code does not limit either.
- AgentTree: weak fairness of a task's own steps and of a started spawn. A turn
  that awaits a subagent's handoff is not forced to end.
- TerminalSession: weak fairness of the client's loop, of the daemon (routing,
  delivering, or keeping a new chat's handle; a failure is never forced), and of
  the agents together: one of those that can, takes up a message or ends a turn.
  That much follows from AgentRunner's `TurnsEnd` and its assumptions, and as
  messages are finitely many it is enough for `Answered`.
- BashSession: weak fairness of the call: the reader and its timer. Nothing is
  promised of the shell, in which other people's programs run.
- ManagedProcesses: weak fairness of the reader and waiter tasks only. That the
  agent keeps polling is a premise of `OutputDelivered`.
- The other modules state safety only. The start of an MCP client waits for a
  mutex that is held during a handshake without a time limit, so the code
  promises no caller an answer.

## Proofs

Each theorem is stated for every value of the constants under the named
assumptions of its module, which TLC evaluates in every run of it.

| module | theorem | statement |
|---|---|---|
| AgentRunnerProofs | `Invariance` | `Spec => []IInv` |
| | `TypeCorrect` | `Spec => []TypeOK` |
| | `MessagesInOrder` | `Spec => []InOrderOnce` |
| | `TurnsWellFormed` | `Spec => []TurnGrammar` |
| | `ObserversCanReload` | `Spec => []ObservedIsDurable` |
| | `StorageGrows` | `Spec => SnapshotsOnlyGrow` |
| | `ResultsAreComplete` | `Spec => []ResultsCoverTheCalls` |
| | `BusInvariance` | `Spec => []BusInv` |
| | `BusIsFaithful` | `Spec => []BusFollowsTranscript` |
| | `ContextIsWellFormed` | `Spec => []ContextAlternates` |
| | `ReloadIsFaithful` | `Spec => []ReloadShowsTheSame` |
| | `ConversationIsKept` | `Spec => ImplementsConversation` |
| AgentTreeProofs | `Invariance` | `Spec => [](faults = 0 => IInv)` |
| | `ShellsOutliveAgents` | `Spec => [](faults = 0 => ContextOutlivesAgents)` |
| | `NothingIsSharedByMistake` | `Spec => [](faults = 0 => AgentsKeepTheirOwn)` |
| | `TypeCorrect` | `Spec => []TypeOK` |
| McpCatalogProofs | `OneClientIsUsed` | `Spec => []OneClientPerServer` |
| | `HandshakeIsFirst` | `Spec => []HandshakeComesFirst` |
| NoiseStripperProofs | `ShapeIsKept` | `Spec => []ShapeKept` |
| | `CommentsAreBlanked` | `Spec => []OnlyCommentsAreBlanked` |
| ProviderRoutingProofs | `ShownIsStored` | `RoutingSpec => []IInv` |
| | `CurrentIsKept` | `RoutingSpec => CurrentStaysConnected` |
| | `MessagesAreNotMisrouted` | `RoutingSpec => MessagesGoWhereShown` |
| | `ScreenIsConsistent` | `RoutingSpec => []TypeOK` |
| | `PopupHolds` | `RoutingSpec => []PopupIsAnchored` |
| TerminalSessionProofs | `Invariance` | `Spec => []IInv` |
| | `TypedIsDelivered` | `Spec => []DeliveredOnceInOrder` |
| | `TypeInvariance` | `Spec => []TypeInv` |
| | `TypeCorrect` | `Spec => []TypeOK` |
| | `BusySettles` | `Spec => []IndicatorSettles` |
| | `PatienceIsRewarded` | `Spec => []StaysInConversation` |
| ExecutionContextProofs | `PollsAgree` | `Spec => []PollsAreConsistent` |
| | `BashInvariance` | `BashSpec => []BashInv` |
| | `AnswersAreOwn` | `BashSpec => []AnswersBelong` |
| FilePatchingProofs | `EditsAreRegistered` | `Spec => []EditsRegistered` |
| | `PatchesFitWhatWasSeen` | `Spec => []AppliedToSeen` |
| | `BatchFromOriginal` | `LineSpec => []BatchIsFromOriginal` |
| | `TextFollowsTree` | `SyntaxSpec => []TextIsTree` |
| | `ImportsAreEnsured` | `SyntaxSpec => []ImportIsEnsured` |
| | `EditsLand` | `EditSpec => [](TextIsTree /\ ImportIsEnsured /\ BatchIsFromOriginal)` |

**Runner** (`RunnerAssumption`: a mailbox of at least one, bounds that are
numbers). None of the safety properties is inductive by itself. `IInv` adds to
the first four:

- `Standing`: the place in `run` determines the kind of the last event in the
  transcript. Without it nothing is known of what a push follows, and
  `TurnGrammar` is not preserved.
- `Counting`: inside a tool round there is a call left and the round is within
  the bound, which `TypeOK` needs when counters move.
- `Durability`: the stored snapshot is a prefix of the transcript while the
  process lives, and all of it unless an error is on the bus. This gives
  `ObservedIsDurable` when an event is published, and `SnapshotsOnlyGrow` when
  one is saved.
- `Numbering`: message numbers in storage and transcript are at most `sent` and
  those in the mailbox increase; `InOrderOnce` needs it when a message is taken
  up, and after a restart.
- `Grammatical(disk.events)`: `Restore` turns the stored snapshot into the
  transcript, so that it has to be well-formed as well.

The file is laid out the same way: lemmas on appending and on prefixes, the
effect of a `Push` on each conjunct (`PushGrammar`, `PushDurability`,
`PushObserved`, `PushNumbering`), one lemma for each action (`RecvUserKeeps`
to `RestoreKeeps`), then `NextKeeps` and the theorems. On `IInv` rest:

- `RoundInv`, for `ResultsAreComplete`: how far the round at the end of the
  transcript has got (`RoundAt`), place by place, and that completed rounds are
  covered in the transcript and in storage, from which a restart resumes.
- `BusInv`, for `BusIsFaithful`: the ids of both copies of the transcript count
  up and come from the supply, each event has the one before it as its parent,
  and what a restart resumed from is still in storage.
- `ContextIsWellFormed` and `ReloadIsFaithful` need no invariant of their own.
  Which messages are left out is a set of positions, so that neighbours in a
  `Picked` sequence are neighbours among those positions (`Nth`), and what lies
  between them in the transcript is known from `TurnGrammar`. The reload hides
  a message by its parent's id, which by `BusInv` is the id of the event before
  it.
- `ConversationIsKept`: the mapping `TurnsOf` is shown to append a turn when a
  user message is pushed, to change the last turn's state by the event pushed
  otherwise, and to shorten nothing else; then one lemma for each action names
  the action of Conversation it is, or shows that all four mapped variables
  stay.

**Agent tree** (`TreeAssumption`). The theorems hold until storing the pointer
to the chat last used fails for the first time: MCPointerFault shows that they
do not hold after it. Up to then the daemon holds every chat it has opened
(`Opened`), so a root's chat gets one task ever; a subagent's chat is never one
the daemon could open (`RootChat`, in `Placed` and `Pending`), so that chats and
tasks are one to one (`OwnChat`). A task is then in the registry from its start
until it unregisters itself (`Registered`), which is what makes "nobody of my
tree is in the registry" mean that all the others have gone (`LastOne`). Contexts
are one to one with trees, those that were shut belong to opened chats, and the
daemon starts a root only in a chat that was not (`InContext`, `Opening`); a
subagent starts only while its root is in its turn (`Pending`). `TypeCorrect`
has an invariant of its own, `TypeInv`, since the types hold after a pointer
fault too: whatever names a task (a channel, a map, a spawn under way, the
daemon) names one that was started, and a new one takes the next number.

**MCP** (`CatalogAssumption`). `OneClientPerServer` speaks of callers that have
adopted a client. What keeps it is about the moment before: a client that its
builder has not put in the map yet is untouched and nobody else's (`Fresh`), so
that losing the race throws away a client nobody has started; the map holds a
server's own clients (`Known`); the start mutex is with the caller that shakes
hands (`Held`), and the started flag is up exactly for clients whose handshake
was made (`Flagged`), so that whoever asks, asks a started one (`Asking`).

**Noise stripper** (`FilesAssumption`: texts are sequences of symbols). First
the tables: every opener of every language is shown as it was matched, `REM`
apart (`Faithful`). The invariant for the shape is then that what was taken and
what was shown have the same length, symbol against symbol; each branch of the
loop takes n symbols that are there and shows n that they may become. JSX is
excepted because it collapses comments (see MCJsxLines below), and so are texts
of Fortran with a character that is not ASCII (`Aligned`): only there a byte may
be passed over (`NothingSkipped`).

`OnlyCommentsAreBlanked` compares the loop with a reading of the text that has
no loop: a region ends at the first closer with an even number of backslashes
(or of quotes) before it, cells follow one another from the first symbol on,
and a line belongs to a block scalar if it is below a header and it and all
lines between are blank or deeper. Both sets are the last value of a recursive
function; that there is one is shown by induction (`GrowsExists`), and what
membership in them means follows (`BoundariesAre`, `ScalarLinesAre`). Cells do
not overlap (`Apart`), so that a symbol is inside of a comment when it is
inside of its own cell's (`Cells`). The invariant `Follows` says where the lexer
is in that reading (`Placed`): at the beginning of a cell, or in the region of
one (`Untouched`), which has not ended, with an even number of backslashes
before it. The lexer counts nothing; it takes what a backslash protects along
with it, which keeps the number even (`Escaping`), and a doubled quote in one
step (`Repeating`). The one place where the number may be odd is before the
line break or the end of the text that a trailing backslash runs into, and
there the region is over anyhow (`Live`). For YAML the lexer keeps one number,
the indent under which the open scalar ends; `Tracks` says that it is that of
the one header whose lines have not ended (`OneHeader`), and `Decides` that it
suffices. The property is about regions that do not nest (`Plain`): of Rust, of
Vue, and of texts with a bracket where a slash may open a regular expression,
only the shape is claimed. That a cell which the lexer opens as a comment is one
in the language is a premise (`AsMeant`): `Misread` lists where it is not.

**Settings and routing** (`SettingsAssumption`, `InputAssumption`,
`RoutingAssumption`). `IInv` says that the highlight is in the list (`InList`),
that a draft which replaces an entry replaces the highlighted one (`Drafted`:
otherwise saving it could write over, or past, another), and that unless a save
has failed the header shows what is on the disk and the open modal edits it
(`Shown`). One statement, `Sound`, sums up what any key does to the pane: it
leaves a configuration, saves it or changes nothing, and keeps the current
provider. The lemmas prove it mode by mode up to `PaneSound`; the invariant and
`CurrentIsKept` both follow. `MessagesAreNotMisrouted` then needs only that the
facade sends a provider's requests to itself or nowhere. `ScreenInv` adds the
menu's pick to its page (`Paged`) and the section to the sections (`Sectioned`)
for `ScreenIsConsistent`. For `PopupHolds`, `LineInv` says of the line what it
is made of; the lemmas follow the popup through a filter that grows, shrinks or
is replaced by a path (`RefilteredHangs`). It takes an assumption that TLC
checks as well: what the walk finds are entries with a path that is not empty
(`walk_workspace` skips the others).

**Delivery** (`SessionAssumption`). From the keyboard to the daemon's hand the
messages form one line, each later than those before it and than all that were
routed or refused (`InLine`); from the hand on there is one line for each agent,
later than what it has taken up (`Routed`, `InBox`). What is typed is
somewhere on these lines (`Located`) or was refused before it had an agent
(`TurnedDown`), and as they are strictly increasing it is
there once, which is what the counting in `NothingLostOrTwice` comes to.
A chat may have two agents, and their turns are not ordered: `Strays` says that
the one the daemon let go of has a single message, the opener, which is reported
as failed, and that all messages of the second are later. So the order within a
chat can only be broken by an opener the user was told had failed.
`Chatty` bounds the chats by the messages routed, so that the daemon always has
a chat id left; the capacities of the channels are not used.

`TypeInv` uses them: it bounds channels and ring, and names the conversation of
every message and of every chat (`Named`), which the history variables need.

The indicator goes out because a turn event can leave the ring unread only when
newer ones come in, and the newest of all is a Finished. `SettleInv` says so of
the states in which no agent works: the client has seen it (`Calm`), or it is in
the ring with only errors behind it, one for each failed submission (`Ending`).
The last clause is where the bound in `IndicatorSettles` comes from: without it
the proof fails, and with two errors and a ring of two TLC finds the state in
which they have pushed the Finished out and the client stays busy. In the code
that takes 256 failed submissions in a row, at each of which the client's drain
ends at a Lagged error (`ignore_lagged`) before it has read anything.

A user who waits has at most one message under way. `PatientInv` says where it
can be (`Flight`): nowhere, written but not sent, on the way to the daemon, or
with one chat, in whose hand, mailbox or turn it is (`With`), and that the
client's active chat, and what waits in the ring, are of the user's conversation
or of none yet (`Aims`, `Toward`). `Unsplit` adds that a conversation has one
chat while no submission has failed.

**Bash** (`BashAssumption`: bounds and exit codes are numbers, the kinds those
of the model). `AnswersBelong` has two halves, and each has an invariant about
output that nobody has read yet. `OwnAnswer` needs to know where the output of
a call is while it is under way: as long as nothing was troubled, what a stream
has been read, what waits in its pipe and what the shell is still to print are,
one after the other, the command's text and its sentinel (`Flows`), and between
two calls the shell has nothing left to do and the pipes are empty (`Silent`).
A step of the shell moves a piece from the third part into the second
(`MovedAlong`), a read from the second into the first (`ReadChunkFlows`), and a
sentinel can only be the last piece (`EndsIn`). `LagBounded` also holds after
timeouts, when pipes hold output of older commands. There the sentinels a
stream holds, or is still to show, are in the order of their commands
(`Ordered`), and each of them is later than the answers given less the timeouts
so far (`Floored`): a call that finishes uses up one sentinel of each stream, a
call that times out pays for the one it leaves behind. `Shaped` says what a
command may still have to print, so that a sentinel is never taken for text.

**Processes** (`ProcessAssumption`). What a summary says was read one lock at a
time from fields that were set one lock at a time, so the invariant follows
both orders: the waiter task sets `running` last (`Explained`), the summary
reads it first (`Summing`), and what `wait` returned is what the child ended
with (`Endings`), unless it failed. For the output (`Tiling`), what the agent has received is the
offset it has counted, except while a reply is under way, which holds the length
of the buffer when it was read.

**Patching**. That an edit is made of a registered content holds for any number
of agents: a baseline that is not "no entry" was registered (`Listed`), the
call's checksum was compared with it, and what the call edits belongs to that
checksum (`Chain`): for the symbol tools because they edit what they checked,
for a patch, which reads the file again, because nobody in `touched` is meant. `AppliedToSeen` is about one agent, and
needs to know who has called at all (`Entered`: whoever has not is in no call)
and what the only one knows at each place of a call (`Knows`): that the registry
holds the checksum of what it was shown, that content and checksum of an edit
under way are still the file's, and that the baseline stays equal to the call's
checksum until `update` looks at it again. The last part is why a call that
wrote all it was asked to does not fail.

**Lines of a batch** (`ContentsAssumption`: contents are sequences). The batch is
a fold over the updates from the top, the reference one over the lines from the
bottom. Neither can be computed by the provers: `FlattenSeq` and `FoldLeft`
choose a function with a recursive equation, that there is one is shown by
induction (`FlattenedExists`, `FoldedExists`), and its values follow one line at
a time. The two meet at every line: what the batch puts in place of line k
(`LineOut`), and before and behind it, is what the single edit at k makes of it
(`LineEdited`), and the edits further up find everything above k as it was
(`EditedUp`). That no update is about a line that is not there, nor two about
one line, is what the plan refuses (`Planned`), and with the result being that
of the batch it is the invariant (`LineInv`). In FileEdits each step is one of
LineEdits or leaves its variables alone.

**Syntax edits** (`LabelsAssumption`, `NamesAssumption`, `LanguagesAssumption`,
`FilesAssumption`, `SpecsAssumption`: labels and texts are what they are used
as; a file's root is no item, hides none and spells nothing itself; a name that
is asked for is not empty, which loses nothing, since no item's name is; a
grammar's import items are nodes of their own, no calls, and may go without a
name; an import is as `normalize_import_spec` leaves it). The invariant of the first
property is `TreeInv`: the types, the root, and `TextIsTree`. The text of a tree
is a `FlattenSeq`, so that the text of two pieces is that of one after the other
(`RenderCat`) is an induction; a patch and an import then are a tree cut in two
or three. A rename replaces one range after the other, and every replacement but
the last moves what is behind it. The proof follows the tool from the last range
to the first: the text is always that of a tree with the new name in the nodes
behind some place and the old one before it, whose ranges are still those of the
original, since no node before the place has changed its length. For the second
property, `EnsuredInv`: at the top, and below a header where a line break or the
end of the text follows (what `ran` excludes), the import is a line of the new
text (`FoundWithin`), with the carriage return that may be left of its line end
taken off again; behind an import it is an item of its own in the new tree
(`BehindIsImport`), whatever follows on its line, and at the top too where the
language has import items (`TopIsImport`), which is what counts in a file
without line feeds. An import of several lines is no line of any text. In FileEdits a step of one way to edit
leaves the variables of the other alone (`BothWaysToEdit`), so all three
properties hold there together.

Induction over data is done by hand: `Induction`, in the two modules that need
it, is stated for a set of numbers, because the library's theorems take an
operator, and follows from the library's theorem that every set of numbers has
a least member.

Only model-checked: all liveness (`KeepsConversing`, `TurnsEnd`,
`TreesAreReleased`, `Answered`, `Returned`, `OutputDelivered`), which is out of
the prover's reach; and `AllOrNothing` and `TestsFollowRename`. These two hold
of the grammars' tables as they are, not of every table (a grammar that spells
some of its names with identifiers and others not refutes the first, and
Haskell is one, whose modules the property excepts), so what there is to prove
is a computation over the tables, which TLC does and the provers do not. After a
pointer fault nothing but the types is claimed of AgentTree.

## What the code does against its word

Eight configurations end in a counterexample; the first is the run
`fresh_chat`, the others are run by hand.

- `fresh_chat` (`tui/app/sync.rs:15`). Any event makes its chat the active one,
  so an event of the old chat after `/new` undoes it. The passing property
  `StaysInConversation` is the same statement for a user who waits.
- MCFreeForm (`nerd/coding/noise_stripper/fortran.rs:84`). The lexer "strip[s]
  comments from Fortran source" (line 11) without regard to its form: a line of
  an `.f90` file that begins with `call` or `contains` at column one is shown as
  a `c` and blanks.
- MCHiddenMessage (`tui/app/history.rs:65`). The reload hides user messages
  whose parent is a tool event, to hide tool results. After a restart inside a
  tool round the next typed message has such a parent and vanishes.
- MCPointerFault (`core/agents/spawner.rs:442`, `daemon.rs:88`). If storing
  the last-used pointer fails, the daemon forgets the handle of a chat it has
  opened. The next message opens it again, and the first task's cleanup
  removes the second's registry entry and kills its shell.
- MCSnipPath (`nerd/tools/exec.rs:153`). After a timeout, `which snip` may
  read the abandoned command's output, whose first line then goes in front of
  the next command.
- MCLostDraft (`tui/app/modal/provider_pane.rs:93`). `handle_key` puts Browse in
  the place of the mode and takes what is there in the end, so every key that
  should only change a choice or a draft leaves the editor and drops the draft;
  the footer (lines 69 to 81) says "Up/Down field  Type edit  Tab next". A
  provider can be connected or edited only with the defaults and an Enter at
  once.
- MCChatsProvider (`daemon.rs:70`). `config/structs.rs:288` says "Current
  provider selection used for new root chats"; a chat of an earlier session is
  restored with the current provider as well, and with its own stored model.
- MCJsxLines (`nerd/coding/noise_stripper/javascript.rs:254`). The JSX lexer
  collapses a comment of several lines into `{//}` on one; the type's comment
  (line 23) says "Line count is preserved", and `patch_file` takes the line
  numbers shown.

### Divergences without a run

Each of these follows from a few lines and needs no search; the passing
properties are stated so as not to claim the opposite.

Agents, client, daemon:

- ADR 0001 (lines 290, 295) lets a subagent exit on its handoff; its `run`
  returns to `recv()` instead (`runner.rs:20`), and nobody has a handle to shut
  it down (`spawner.rs:268`). No subagent is spawned by today's program. ADR
  0001:206 calls the transcript isomorphic to the bus stream; tool results are
  in the transcript only (`BusFollowsTranscript` says so).
- `daemon.rs:56` publishes the error of a failed submission under the nil chat,
  which the client then takes for the active one: the next message opens a
  second chat. `StaysInConversation` claims one chat for each conversation only
  where no submission failed; in ProviderRouting it is `Refuse`.
- If the pointer to a new chat cannot be stored (`daemon.rs:120`), an error is
  reported for a message that its agent has and answers, and the handle is
  dropped: the chat's next message goes to a second agent restored from storage,
  while the first may still be at work. `DeliveredOnceInOrder` allows this for the message
  that opens a chat and no other.
- `app.rs:103` calls `turn_in_progress` that of the active chat; it is one flag
  for all chats. `IndicatorSettles` claims no more than that it goes out, and
  that only as long as fewer submissions have failed than the ring holds events:
  the Finished a lagging client missed is not made up for by anything.
- A line that begins with a slash and is no command is dropped without a word.
- After Tab has completed a directory, the popup keeps the highlighted row, not
  the entry: the second Tab may commit another entry than the first one chose
  (`app/events/tests.rs:441` tests the case where it is the same).
- `page_up` of the settings' navigation keeps the right pane's scroll, which
  every other move resets.

Configuration and providers:

- The settings write the whole file as it was when they were opened: what was
  changed in it meanwhile is lost, and a failed save is not noticed. `Shown` and
  `MessagesGoWhereShown` except failed saves.
- The editor replaces a built-in whose id the registry does not have by the
  registry's first, and keeps its key.
- The provider is the header's at the time the daemon takes a message up, not
  when it was typed: a save in between redirects it. `MessagesGoWhereShown`
  compares with the former. In ProviderRouting one command is on its way at a
  time, and a save changes the file and the header in one step: a daemon that
  reads the file between the two, while one key is handled, is left out.
- `rig_stream.rs:54` refuses every registered provider but `openrouter`; the
  ai-lib path serves five and is not given the key of the configuration. A
  custom provider as current one is always "missing provider config":
  `config.provider` compares ids, which it does not have.

MCP:

- `started` is never reset when a server dies, so a dead server is not
  connected to again; sessions outlive a server's being disabled or changed;
  an older list of tools may overwrite a newer one in the cache, which is
  never refreshed; `McpClientSession::shutdown` has no caller.

Shell and processes:

- `bash_session.rs:163` asks callers to discard the session after a timeout;
  no caller does. `AnswersBelong` says how far answers are off from then on.
- `bash_session.rs:193`: `read_line` in a `select!` is not cancellation safe.
  Text without a newline on one stream is lost when a line arrives on the
  other. `AnswersBelong` excepts such output.
- `docs/llm_and_agents.md:82` (in xoxo-core) says that a context's shutdown
  kills managed processes; `execution_context/mod.rs:186` kills the shell only.
- `process_registry.rs:180`: a poll may say that a child has ended before its
  last output has been read. An agent has to poll once more, and nothing tells
  it when it has everything.
- `process_registry.rs:178`: when `wait()` fails the child is reported ended
  without a code or a signal.
- `process_registry.rs:242` signals a pid without asking whether its process
  has been reaped.

Files:

- `patch_file/apply.rs:161` and `read_file.rs:72` read the file twice, and
  `write_file.rs:182` checks for existence before it writes: a change in
  between goes unnoticed. `AppliedToSeen` is stated for a call that nobody
  disturbs. With two agents in a tree, one baseline serves both, and another
  agent's read moves it.
- The first edit of a file with mixed line ends makes them one kind; a file of
  one newline counts as no lines.
- Lexers: a Rust `/**/` never closes; in JSX `/**/ code /* x */` is one
  comment; what `Misread` lists is blanked as comments, `#[Attr]` of PHP, `$#` and
  `${#x}` of shells, `?#` of Ruby and Elixir, `$%` of Erlang, `|--` and `-->` of
  Haskell among it, and so is a here-document's `#`, which it does not list;
  a fixed-form comment keeps one blank of a non-ASCII character where
  every other line keeps one for each byte;
  every lexer but JavaScript's shows the bytes of a non-ASCII character as
  characters of their own, so that columns are of bytes.
- `rename_symbol` on a Ruby constant, an Erlang atom, an Elixir alias or a
  Haskell variable or module reports success with no occurrence, since the
  leaf's kind is none of those `is_identifier_like` knows; a Haskell class of
  its module's name is renamed and the module is not, which `AllOrNothing`
  excepts (without the exception TLC refutes it); it merges a name with one the file
  has already; and it is not parsed again, so that a keyword as the new name
  breaks the file. `AllOrNothing` and `TestsFollowRename` say what is left.
- `ensure_import` puts nothing behind an import that goes below a header line
  (Go's package clause, a shebang), where it runs into the next line; several
  lines are put in again by each call in languages without import items, and so
  is one line where carriage returns alone end the lines, since `lines()` then
  sees a single one; and the import that ends last may lie in a nested module.
  `ImportIsEnsured` excepts the first three; the description promises every import.
- `find_tests_for_symbol`: a `#[test]` within three lines above marks the next
  function too, and `is_project_root` looks for `go.facade` (line 293).
- In PowerShell the variable `$ab` and the function `ab` are items of one name.

## Not modelled, and why

- **BashSession**: pipes never fill; fragments on stdout only; `kill`, the
  options of `spawn`, truncation of output, and the `http` tool, one more
  caller of `run_command`. Commands do not print sentinels.
- **ManagedProcesses**: writing to stdin, `list`, `shutdown_all` (no caller);
  stdout and stderr are handled alike, and one stands for both. A piece of
  output is whole characters: a character cut by the end of a read is replaced
  (`from_utf8_lossy`).
- **TerminalSession**: delta buffers and header statistics. What the screen
  must show when a session is loaded while its events wait in the ring is said
  nowhere in the sources; the two daemon commands without a sender only publish.
- **TerminalInput, SettingsModal**: drawing, the mouse, Shift+Tab, the content
  of fields that nothing looks at. Entries of the walk are given: gitignore and
  the depth of the walk are the walker crate's.
- **SyntaxEdits**: the parser. That the edited text parses as the edited tree is
  what the tools count on; `broken` stands for the cases in which it does not.
  The project-wide search is made file by file.
- **NoiseStripper**: words that no lexer looks inside are one symbol.
- **McpCatalog**: transports, timeouts and messages of the SDK.
- **Todo list**: one lock around the replacement of a whole list. **Model
  catalog**, **tool registry**: tables filled once. **Log layer, search tools,
  prompts, skills, rendering**: formatting and I/O without state that is read
  again. **Indexing and vector stores**: used by nothing yet. **ACP server** and
  **concierge**: stubs.

## Plan

The order was: the runner first, because everything else passes through it;
then its promise, its proofs, and the tree of agents; then client and daemon;
then the tools with state of their own; then what a user edits (input,
settings) and what the tools do to files; the MCP catalog; and a proof wherever
a module's promise is a matter of every input. What is left, in order:

1. The stream driver as a refinement of what the runner sees of a completion:
   deltas, then one final response or one error.
2. The client's delta buffers, once the sources say what a reload under way
   must show.
3. `OnlyCommentsAreBlanked` for comments that nest: the reference would have to
   count levels, as the lexer does.
