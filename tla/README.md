# good-review in TLA+

TLA+ models of the Go program in `src/` (a group chat bot for QQ), the TLC runs that check
them on small instances, and proofs for TLAPS. `PROJECT.json` lists runs, the lines each
definition translates, the mutations each property was seen to catch, findings, hazards and
theorems. Paths below are relative to `src/` unless they end in `.tla` or `.cfg`.

    tlc -config MCBot.cfg MCBot        # a run: module and cfg are in PROJECT.json, "runs"
    tlapm ConsumerProofs.tla           # a proof

## 1. The system

One process. A chat platform's sidecar pushes OneBot events to a webhook; the bot stores them,
runs commands, describes pictures, decides whether to answer, asks a language model and sends
the answer back. State outlives the process only in one SQLite file.

    sidecar -> im.Server -> Bot.AcceptEvent -> [sync router] -> [command] -> [assets] -> [agent]
                                                    |              |            |           |
                                                 messages       commands    tag jobs     speech -> llm, tools
                                                 (state.db)                 (state.db)      |
                                                                                            v
                                                                              onebot.Client -> sidecar

Each bracket is a *node*: a `MemoryBuffer` with a `Consumer` (a pool of goroutines) on top. The
nodes know nothing of one another; the orchestrator puts what a node's handler signals into the
next node's buffer.

### Components

| part | state | operations | talks to | what is hard | what makes it correct |
|---|---|---|---|---|---|
| `pipeline.MemoryBuffer` (pipeline/buffer.go) | a queue per partition, a total, two wake-up channels, closed | Put, Take, TakeReady, Len, Total, Close | its Consumer, the orchestrator | waiting callers and readers, two limits, Close in the middle of a Put | limits hold, no wake-up is lost, Close lets nothing in and everybody out |
| `pipeline.Consumer` (pipeline/consumer.go) | ready list and its index, keys in flight, goroutines | Submit, Run, next, drain, takeBatch, process, release, Close, Wait | one MemoryBuffer, one handler | a notification for a key that is in flight, sleeping goroutines, one key that never runs dry, retries, shutdown | one goroutine per key, order within a key, nothing forgotten, retries counted, nobody starves |
| `bot` orchestrator (bot/orchestrator.go, handler.go, router.go, domains.go) | the four nodes | put, consume, dispatch, send, pending, active, idle, closeBuffers, closeConsumers, wait | nodes, domain handlers | a hop waits for room while it holds a goroutine and a chat; several batches of a chat on the way at once | a chat's messages keep their order over all nodes, no hop loses one, full buffers do not wedge the chain |
| `bot` entry (bot/ingest.go, handler.go) | dedup table with expiry, closed flag | AcceptEvent, Run, drain | im.Server, orchestrator, workspaces | redelivery while the first copy waits, after it expired, during shutdown; the order of closing | no message answered twice, none turned away and forgotten, shutdown ends |
| `speech` (speech/) | a router per workspace: command table, personas, switches, proactive state per chat, send ledger | RouteMessageNow, ReplyAddressedNow, TryProactiveNow, Generate, Deliver, RunInternalCommand, Rebuild | llm, tools, conversation, onebot, state | the pace of unasked answers, failing and uncertain sends, crash between send and ledger, stale windows, table rebuilt under dispatch | nothing sent twice, anchors only after a complete send, pace limits hold, who is addressed gets an answer |
| `conversation` (conversation/) | a ring of messages per chat with an id index, an anchor per chat | Add, GetAll, SetNickname, HasSeen, SetLLMAnchor | agent, speech, workspace | wrap-around, ids evicted with their slot | the ring is the window of the last N messages, ids and slots agree |
| `workspace` (workspace/) | a workspace per account, its member directory, known groups, settings overlay | ResolveOrCreate, PrepareBatch, learn, fetchAsync, EnsureGroup, LearnIdentity, scheduleMentionBackfill, Close | state, onebot, conversation, speech | names fetched over the network racing names learned from messages; a coalescing background worker | the newest name wins, memory and database agree in the end, no request for work is lost |
| `assets` (assets/) | tag jobs (rows with status, attempts, lease) | TagURLs, SaveAssetTagJob, claim, process, purge | state, llm | leases that run out under a slow worker, crashes, retries used up | a finished job stays finished, every job is finished or given up on |
| `state`, `kv` (state/, kv/) | SQLite behind one connection, a cache in front | one method per row kind | everybody | update-then-insert, a cache filled behind a newer write, writes after Close | the last write wins, reads see it |
| `mcpclient` (mcpclient/) | a session per tool server with its tools, breaker, snapshot of all tools | dial, refreshTools, markDead, reconnectLoop, CallTool, rebuildSnapshot, Close | tool servers, speech | notices, errors and lists of an old session arriving in a new one | the snapshot shows the live session's tools, a dead session comes back, Close leaves none open |
| `mcpserver` | none but its listener | view_image | mcpclient | - | - |
| `llm` (llm/) | rate limiter, circuit breaker | Chat, SingleChat, guard | speech, assets | half-open breaker with many callers | one probe, cancelled calls do not count |
| `config`, `config/store` | snapshot of the settings, prompt files | Load, Reload, AddCommand, Changed, Run | everybody | a change between loading and watching, a read that fails, read-modify-write of files | the last good snapshot, and in the end the file's |
| `async`, `pool`, `app` | goroutine groups, start and stop order | Go, GoCtx, Wait, Start, Shutdown | all | tasks submitted while stopping, the database closed under late writers | everything started is stopped, in order |
| `im`, `onebot`, `sidecar` | ref and identity maps in the sidecar | webhook, actions | the platform | an action whose result is uncertain | a send is known, refused or uncertain |
| `web/server`, `web/frontend` | login limiter | panel reads, login | state, workspaces | the limiter's check and count are two steps | - |
| `telemetry`, `logutil`, `policy`, `version`, `apppath` | counters; none | - | - | - | - |

`policy` and most of `config` are pure functions. Nothing in the program talks to a second copy
of itself; comments in assets/jobs.go speak of replicas that could share the database.

## 2. What is modelled

    pipeline    SerialPartitions  <-- implements --  Consumer  -- EXTENDS -->  MemoryBuffer
    bot         AppShutdown  -- EXTENDS -->  Bot  -- EXTENDS -->  Orchestrator
                (the nodes of Orchestrator are SerialPartitions)
    one chat    Speech      what the agent and command nodes send and when
                Commands    what a command does on its way through both
                ToolLoop    one reply made with tools
                ChatStore   rows, ring, anchor, prompt window  -- implements -->  ChatWindow
    one account Names       who is called what
                Mentions    names put into texts that were stored without them
    process     Workspaces  accounts, prompt files, command tables
                TagJobs     pictures, notes, jobs with leases
                McpSessions tool services and the snapshot of their tools
                LlmGuard    limiter, breaker and formats around the model
                ConfigFiles configuration and its reload
                Panel       the archive's counters and what the panel puts together

    MCWorkers  EXTENDS TagJobs, Mentions, Workspaces, McpSessions, ConfigFiles
    MCRequests EXTENDS ChatStore, Names, Panel, LlmGuard, ToolLoop, Commands, Orchestrator

| module | of | state and actions |
|---|---|---|
| `MemoryBuffer.tla` | pipeline/buffer.go | `queues`, `total`, `shut` (Close sets a flag under the lock and closes a channel after it: two steps), `call[i]` a Put per item, `taker[t]` a blocking Take. One turn of Put's loop is one action (`PutStore`, `PutPark`, `PutClosed`), as it is one critical section |
| `Consumer.tla` | pipeline/consumer.go | one action per critical section: `Submit`, `NextPick`, `NextWait`, `TakeFirst`, `TakeRest` (linger in between), `Handle`, `Retry`, `DeadLetter`, `Release`, `Close`, `Cancel`. The configuration is read afresh per batch. `sync.Cond.Signal` wakes any one sleeper |
| `SerialPartitions.tla` | the contract in the comment of `BatchHandler` | per key: accept, collect in order, handle a non-empty batch, settle what came back |
| `Orchestrator.tla` | bot/orchestrator.go, the workflow of NewBot, the domains' answers | four nodes as `SerialPartitions` shows them: `Pick`, `Collect`, `Handle`, `Send`/`SendClosed` one hop at a time, `Release`; `CloseBuffer`, `ClosePool` in the order of allNodes |
| `Bot.tla` | bot/ingest.go, messageDedup | `Enter` to `Forget` are AcceptEvent, step by step, for concurrent calls; `ContextDone` to `Return` are Run with drain, whose idle() reads one counter at a time; `Expire` is dedupTTL, over at any time, a copy still in the chain or not (`late`); `cached` is the ring of each chat's cache, whose oldest message goes when a slot is taken (`evicted`), by the agent's batch or by replies |
| `AppShutdown.tla` | app/app.go (Run, Shutdown) | `app` is how far Shutdown is: `Signal`, `WebDown`, `CallsAnswered` or `BudgetOver`, `CloseDatabase`, `MainReturns`; `BotRuns` is a step of `Bot`, until the process has gone. `stored` is what reached the database while it was open |
| `Speech.tla` | speech/deliver.go, proactive.go, generate.go, dispatch.go; Bot.gate and Bot.handleAgent; workspace/ledger.go | one chat. `Command` is the command node (`RunCommand`, `SayResult`, `NoteCommand`: switch, send, noteDirect). `Agent` is the agent node: `TakeBatch`, one step per message, `Enqueue`/`Judge`/`Drop`/`NoMore` are enqueue and next under the registry's lock, `Write` is Generate, `SendPart` to `Refused` one round of sendReply's loop each, `NoteReply`, `SetAnchor`, `Record`. `Restart` keeps `enabled`, `ledger`, `anchor` |
| `Commands.tla` | bot/domains.go, speech/command.go, command_run.go, internal_cmd.go, agent_gate.go, policy | each message of `Arrivals` goes through `CommandMatch`, `CommandRun` (matched again), `SaveGate`, or by `Pass` into the agent domain (`AgentTurn`, `RouteMessage`, `AgentAnswer`), which may come upon a command itself; `cmGate` is the switch in memory, `cmRow` its row; what was replied is told apart (done, not found, refused, answered by the model); table and nicknames change between any two steps |
| `ToolLoop.tla` | speech/mcp_loop.go, the cutting in reply_format.go | rounds of `AnswerText` or `CallTools`, `RunTool`, `NextRound`; tools withdrawn in the last round; `Corrected` is the answer to a call written as text; `Keep` and `Rewrite` hand on the draft or the sentences another call of the model made of it |
| `ChatStore.tla` | conversation/cache.go, speech/chat_window.go, workspace/sync.go, state/messages.go, anchors.go | `chBuf`, `chAt`, `chFilled`, `chSeen` are GroupMsgCache field by field; `chRows` the table, `chAnchor`/`chStored` the anchor in memory and on disk. `PrepareBatch` is the sync node, `AgentTakes` to `SetAnchor` the agent node, `CommandReply`/`CommandKeeps` the command node's own answers, `RestoreChat` a restart |
| `ChatWindow.tla` | what the cache promises | `Add` and `Reload` on a sequence |
| `Names.tla` | workspace.go (directory, learn, fetchAsync, mirrorSelfName, SyncSelfName), state/directory.go | memory under a lock, table after it: `Enter`, then `Table`, `Mirror`, `Rename`, `RenameRow`, `SaveName`; tasks `sync`, `ask`, `check` |
| `Mentions.tla` | workspace/mention.go, state/messages.go, conversation/mention.go | `Render`, `Save`, `EndBatch` store a batch of messages; `Learned` and `Schedule` set the two flags of the worker, which goes `Begin`, `ReadBatch`, `RewriteBatch`, `Leave`; a text is the set of its placeholders |
| `Workspaces.tla` | workspace.go (ResolveOrCreate), config/prompt.go, config/store, speech/command.go, internal_cmd.go | two files, one configuration, a table per account; an editor, the commands that write the files, the poller with its one-place channel, opening flows |
| `McpSessions.tla` | mcpclient/manager.go | `Handshake`, `FirstList`, `Mount`; `Reconnect`; a notice and its `ListAgain`, `SaveTools` (refreshTools); a `Call` that finds its connection closed (`MarkDead`); `LockRebuild`, `ReadServer`, `Publish` (rebuildSnapshot); `CloseServer` |
| `TagJobs.tla` | assets/tagger.go, assets/jobs.go, state/jobs.go, state/images.go | the tagger through a message's pictures with its budget and goroutines; `Workers` are backfillers of several processes: list, claim (`Claim`), fetch, describe, `WriteBack`; ages in ticks; a process dies or is told to end |
| `LlmGuard.tla` | llm/llm.go, llm/resilient.go | tokens, breaker, and the mode all callers share (`lgMode`, `lgPlain`), which each loads, tries and lowers with compare-and-swap; every 400, 404, 422 and 501 is taken for one about the format (`RejectsFormat`, `RejectsRequest`), a cancelled call is not counted |
| `ConfigFiles.tla` | config/loader.go, section_*.go, settings.go, config/store, workspace/settings.go | a document is the fields two rules speak about; defaults, checks and overlay are operators; first fingerprint, polling, informer, observer are actions |
| `Panel.tla` | state/schema.go (triggers), overview.go, web/server/handlers.go, accounts.go | "update, else insert" in two steps, counters by trigger, ResetData table by table, answers put together from several reads; a page that is asked for fills the names in memory (`NameForPage`) and counts nothing |

`MC*.tla` give the constants small values for TLC; `*Proofs.tla` hold proofs only.

### Composition

`Consumer` runs on `MemoryBuffer` itself, `Bot` on `Orchestrator`, and `AppShutdown` on `Bot`:
their steps interleave.
`Orchestrator` takes a node to be what `Consumer` was shown to implement. `ChatStore`,
`Commands` and `Speech` each put the command node and the agent node next to one another over
the state those two share. The components of `MCWorkers` and of `MCRequests` share no variable
in the code, apart from the table rows modelled with each of them, so nothing is gained by
interleaving them; one run checks several, a behaviour being one of the component named by
`part` while the others stay in their initial states.

### Abstractions

Payloads are item names. Time is not modelled in the pipeline and bot modules: the linger time, the put
timeout and the drain timeout may pass at any moment the code could see them pass. A handler
call is one step of the orchestrator, because handlers of one chat never run at the same time
(that is what `SerialPerKey` shows) and touch nothing else that this module speaks of; what
a handler answers is any of the events its code can return. Encoding and decoding of payloads
between nodes cannot fail (the same program wrote them). Messages with an empty id, which share
one dedup key, are not told apart from others.

In `Speech` the times of `proactiveGroup` are ages in ticks that stop growing at the limit they
are compared with. What a message is (plain, addressed, #启动, #关闭) is chosen at the start;
what the judge and the model answer is a choice each time, a reply being 1 to `ReplyMax` parts.
A send is accepted, refused, or gets no answer, in which case the part has come out or not. Both
nodes work on one batch of a chat at a time (`Consumer` shows it), so `Speech` has one actor per
node. Only the synchronous entrances are modelled, as the bot calls no others. Half of the
variables record what the chat and the platform saw (`got`, `doubt`, `quiet`, `cut`,
`unasked`): the properties relate those to the program's own books.

A message in `ChatStore` is its id, with a weight in tokens and a time in whole seconds as
constants; a window is compared by ids. A tool name in `McpSessions` is a triple of service
prefix, cleaned name and number. The breaker inside callRawTool is one of the errors of a call.
In `TagJobs` time passes in ticks, and a worker spends at most `Work` of them on a job, as its
calls have timeouts; the lease of every job of a round is as old as the round, since the round
reads the clock once. In `LlmGuard` the service takes the formats
`Formats` and perhaps the extra kwargs, of what it does not take it complains in either
order, and it may reject a single request for another reason (a fault, as is a call without answer). `Panel` keeps one message and one person, since the triggers count rows. A database write
succeeds or fails as a whole. Every module with faults has a bound on them (`...Faults`), and
on the arrivals and edits nobody limits (`...Calls`, `...Edits`, `...Changes`).

## 3. Runs

| run | shows | bounds and why they are enough |
|---|---|---|
| `buffer` | counters exact, limits kept, no lost wake-up, Close lets out everybody | two partitions of two places with three in all: a Put can be held up by its own partition, by the total, by both; five callers, one reader |
| `consumer` | one goroutine per key, ready list exact, no key forgotten, no lost signal, refinement of `SerialPartitions` | two goroutines can race for a key with two items while a third item occupies either; configurations (0,-1) and (2,1) cover normalisation, batches and retries |
| `consumer_fair` | every item is served although one key never runs dry; Close ends the pool | one goroutine makes starvation possible; burst limit two |
| `bot` | `HandledOnce`: the claim and the chat's cache together keep a message from being answered twice, except where both have let go of it or the first copy was slower than the claim, and a command from being run twice within a claim; `RefusalLeavesNothing`: a refused event leaves neither claim nor item | two copies of a message, the second also after the claim ran out, before or after the first is through, and one more message that pushes it out of a cache of one slot; one place per node, so that calls wait; no time to drain (`bot_fair` has some). The two copies are alike (symmetry). 2.74 million states |
| `bot_fair` | `EverythingEnds`: accepted messages get to an end, Run returns (if the process lives on, see `drain_text`), HTTP calls are answered | two messages in a chain of one place and one goroutine per node: every hop meets a full buffer; a drain with a timeout |
| `speech` | no part comes out twice, no reply with a hole, the anchor moves after complete replies, a pause after speaking, every batch ends | a reply of two parts has a first and a later one; two messages, one pushed twice; one fault: a ledger read or write or a restart; all limits of one tick. `Scripts` has a command before a plain message (the command's noteDirect falls between enqueue and next), two plain ones (latest wins, pace), a mention before #关闭. 1.25 million states |
| `workers` | `OneWorkerPerJob`, `EveryPictureAccountedFor`, `SnapshotOfLive`, `NoLeakedSession`, `SnapshotWorks`, and `BackgroundSettles`: whatever runs in the background gets there in the end | tags: two pictures, one of them worn out, two backfillers, rounds of two jobs, work of one tick each under a lease of two, one death; mentions: three texts in batches of two, so that there is a second batch, one with a torn row, one failing call or restart; workspaces: two accounts, two edits, one restart; mcp: two services whose offers clash in one cleaned name, one caller, one changed list, one broken connection; config: ten documents, each with one rule at its edge, three secrets, two edits, one failed read. 934 thousand states |
| `requests` | `WindowIsTail` (the ring implements `ChatWindow`), `RequestIsTrue`, `NamesAgree`, `PanelExact`, `FaultsOnly`, `ReplyIsClean`, `CommandsTakeEffectOnce`; `ChatOrder` and `NothingVanishes`: order of a chat over all nodes, nothing lost or doubled | flow: three messages, two chats, batches of one or two, two places per node, so that both limits are met and a batch can be split over two hops when a buffer closes; the two messages of one chat are alike (symmetry); chat: three messages and a reply in a ring of three, so that it wraps and evicts; window of two, one heavy message that alone nearly fills the limit, a quote, two equal times, one second push, one restart and one failed write; names: two groups, two names, the bot itself, answers with and without a card, one fault; panel: two writers, two resets; llm: two callers, a service that takes the second and third format and no kwargs, four calls, three faults of either kind, a breaker of two; tools: four pictures with three allowed and one given twice, two rounds of two calls; commands: start, switch, stop and a switch without the right, with two changes of the table. 1.7 million states |
| `unasked_limit` | see Findings | three plain messages, limit two |
| `drain_idle`, `drain_text` | see Findings | two messages in the instance of `bot_fair` |
| `lease` | see Findings | the instance of `workers`, with work of two ticks on a job and a lease of three |

What depends on the number of goroutines, keys, messages, pictures or callers is proved where
section 4 says so; the other properties are checked at these sizes only.

### Fairness

Goroutines that can take a step take it (weak fairness per goroutine): the Go scheduler is
preemptive. Handlers return, since each runs under a timeout or makes bounded calls. AcceptEvent
runs on once entered. Nothing makes events arrive, callers give up, or the application stop. The one strong
fairness is drain's deadline: drain looks at its timer at the head of a loop it keeps
coming back to, so the chance to see it recurs without being continuous. In `Speech` the two
nodes' goroutines take steps; model calls and sends end, as both have timeouts.

In the background: tagger and backfillers run on and time passes (`TagFair`); the mention
worker runs on (`MentionFair`); poller, notice, listing and each opening flow of an account run
on (`WorkspacesFair`), as do the reconnect loop, a started dial or refresh, the publishing of a
snapshot and Close (`McpFair`), and the poller and the refresh of settings (`ConfigFair`), all
of them loops over tickers or goroutines with nothing to wait for but calls that time out.
Nothing makes files change, services fail or commands come, and `BackgroundSettles` says what
holds once they no longer do. `MCWorkers` states the same fairness for the component that moves.

### Findings

* `drain_idle`: idle() (bot/orchestrator.go:506) adds counters node by node without a lock. A
  message that hops onto a node already read is in none of the sums: idle() is true, the drain
  ends before its timeout and closes the buffers while the message is waiting. The comment
  above it says that idle means safe to leave.
* `drain_text`, two findings. Shutdown (app/app.go:137) closes the database and lets the process
  end when the HTTP calls are answered and the routers' groups are empty. Bot.Run, a goroutine of
  its own (app.go:70), is not among what it waits for, and the bot's handlers put nothing into
  those groups: the drain and its timeout run beside a shutdown that does not know of them, and
  SaveMessage on a closed store returns 0 without a word. The comment at app.go:164 says the
  database is closed after everything under way has ended. And the comment at
  bot/ingest.go:26-27 says a drain that fails loses no text because the text is stored
  synchronously: it is stored by the router node, after the event has been answered with 204.
  The run composes the two, and ends with an accepted event whose text is stored nowhere.
* `unasked_limit`: docs/domains/speech.md:125 promises at most `proactive_max_streak` unasked
  replies in a row. sendReply (speech/deliver.go:246) calls noteDirect after every reply, which
  sets the streak to 0 right before recordReply raises it to 1: with a limit above one it never
  acts. Found when the streak in the model did not get beyond 1.

* `lease`: assets/jobs.go:58-59 asks for a lease longer than the worst time of a single job, or a
  job is taken from a replica still working on it and one picture described twice. tick()
  (jobs.go:96) reads the clock once for a round, and every claim of the round writes that time as
  the start of its lease. In a round of two, with work of two ticks and a lease of three, the
  second job can be claimed again while the first worker has it in hand. The defaults are twenty
  jobs a round and ten minutes. `TagOneWorker` proves what is enough: a lease as long as the work
  of a round.

### Seen while modelling, without a run

Formulas named here stand in their modules; no run checks them.

Shutdown. Submit on a closed pool panics (pool/pool.go:45-49 sends on a closed channel) where its
comment at line 43 says it returns false; Group.Go tests the context before it, so only a test
request of the panel that passed the test before the stop and slept through Web.Shutdown's ten
seconds gets there. cmd/good-review/main.go says all goroutines have stopped when Run returns;
Bot.Run, the informer and the observers are not waited for.

Bot and speech. docs/domains/ingest.md:72 says a repeated message id is dropped because it has
been dealt with, but the claim is made before the buffer takes the event: the copy can be turned
away while the first still waits, and the first refused afterwards. Events are still accepted
during the drain although docs/domains/ingest.md:74 says no new ones are (bot/ingest.go raises
the flag after it); `global_capacity` is a limit per node (bot/handler.go:116-119) where
docs/domains/pipeline.md:104 speaks of the process; a duplicate is answered 404, which the
comment of im.EventConsumer keeps for accounts the bot does not manage. An answer to somebody
who asked is lost without a word when the model fails, since replyDefaultNow
(speech/dispatch.go:139) drops the error that replyWithWindow would turn into a fixed phrase;
the message at generate.go:161 announces a retry that nothing makes; a reply that broke off half
way starts no cooldown; #启动 answers with a banner and a reply of up to five parts, six messages
on one inbound message where deliver.go:180 speaks of five. A #switch
that found no persona, since it was removed between the two matches, and one by somebody without
the right, which counts as run, are answered with the error and then by the model too, against
internal_cmd.go:55-57 and docs/domains/speech.md:57 (`AnsweredIfSwitched`;
`CommandsTakeEffectOnce` names these cases). No reply may be a call written as text
(mcp_loop.go:16-17), but the draft that was looked at is replaced by the sentences of a second call
of the model, at which nobody looks (reply_format.go:79-96; `NoCallIsSaid`), and a reply made
without tools is not looked at either (generate.go:257-282). A message pushed again after ten
minutes is answered again when the ring has given its slot away, or when the first copy is still
waiting in the chain (`HandledOnce` names both). A command gone from the table between the two matches is
passed on to the agent where the comment of handleCommand says dropped. Pictures beyond the room
left are marked as seen and never shown in a later round (mcp_loop.go:149-175).

Model. Every 400, 404, 422 and 501 lowers the format all callers share, also one about a prompt
too long or a picture, and of two callers that load the mode at once the later may take an answer
about chat_template_kwargs for one about the format (`FormatKept`, llm.go:201-213, against the
comment before the swap). Nothing raises it again. At the last format a caller whose kwargs were
stripped by another one meanwhile fails its call; `FaultsOnly` counts such callers.

Jobs and names. A full batch of rows nobody can
name holds up all younger rows of the mention worker. The directory forgets its rule when an
answer bears no card (comment of `NamesAgree`); two writers of one member that overlap leave memory
and table with different names until the name changes or a restart (`nmRaced`); it carries the card of one group to the others
(mirrorSelfName), asks for a group's name once, and is not cleared by ResetAll.

Tables, services, configuration. A table rebuilt by one account leaves those of the others to
the poller (`RebuildsAgree`, speech/command.go:124-126); personas are deleted when the custom
file is malformed at the start. A notice between the first listing and the mounting of a session
is dropped (`ListsFollow`, manager.go, against its head comment); the numbering of two equal
names of 64 characters does not end (manager.go:641-648). A read that fails after the fingerprint
has moved is not tried again until the next change, and a change between loading and the first
fingerprint is missed; the resync described at informer.go:23-25 is not set anywhere
(app/providers.go:207-219). A save between the steps of ResetData leaves counters wrong (a test
endpoint only; `pnTorn` marks it).

## 4. Proofs

Assumed: the named ASSUMEs of the modules only (finite sets, limits that are naturals, a lease
longer than the work on one job), each evaluated by TLC in the runs; and, in `TagOneWorker`, the
hypothesis it states. Every invariant and every action or
refinement property of a passing run has a theorem; liveness has none.

| module | theorem | by |
|---|---|---|
| `MemoryBufferProofs` | `BufferTyping`, `BufferCounted`: types; `total` is what is queued, limits hold | `BufferTypeOK /\ CountInv`, inductive; the number of occupied slots changes by what is appended or removed (`StoreSlots`, `DequeueSlots`) |
| | `BufferNoStrandedWaiter`: a sleeper has reason to sleep | inductive on its own given the above: whoever makes room or stores wakes all |
| | `BufferClosedOnlyDrains`, an action property | one lemma per action |
| `ConsumerProofs` | `ConsumerTyping`, `ConsumerSerialPerKey`, `ConsumerReadyIndex`, `ConsumerNoForgottenKey` | `PoolInv`: types, the goroutines' holdings (`HoldInv`) and the three properties together |
| | `ConsumerWorkConserving`: no signal is lost | `WorkInv`: while somebody sleeps there are at least as many awake goroutines as listed keys, counted step by step; and after Close nobody sleeps (`ClosedSleepers`) |
| | `ConsumerUsesBuffer`: the pool is a client of the buffer | every step of the pool is a step of `MemoryBuffer` or leaves it alone |
| | `ConsumerImplementsContract`: the pool implements `SerialPartitions` | `ContractInv`: `PoolInv`, items in the queue of their own key (`OwnItems`), what a goroutine may have in its hands at each place (`GoodHands`) |
| `BotProofs` | `FlowTypeCorrect`, `FlowChatOrder`, `FlowNothingVanishes` | `FlowInv`: the chain of a chat as eight segments from the last node's hand to the first node's queue; each holds admitted items only, in their order (`Orderly`), and each admitted item stands once, has ended, or was dropped (`ChatFine`) |
| | `FlowNeverStuck`: full buffers never make the nodes wait in a circle | `Ready`: a goroutine about to take a batch finds one. The last node with anything to do finds room in the next one, which is empty |
| | `NodesKeepContract`: each node of the chain keeps `SerialPartitions` | step by step; a step of any other node is an `Accept` or a stutter of this one's contract |
| | `BotTypeCorrect`, `BotHandledOnce`, `BotRefusal` | `BotInv`: `FlowInv`; who holds a message has its claim or outlived it, only after it ran out can a second copy be let in, and one on its way by then makes the message late (`Claims`); what a later node has went through the router (`SyncFirst`); what the ring still holds the router leaves out, what the agent answered the ring holds or has forgotten (`Once`) |
| | `BotIsFlow`, `BotKeepsOrder`: the bot uses the chain as the orchestrator alone allows, so order, account and freedom from circles hold in it | each step of the bot is one of the chain or a stutter |
| | `AppIsBot`, `AppStoredOrWaiting`: the application adds no step to the bot; while the database is open an accepted text is in it or at the router node | `AppInv`: what has ended or was dropped went through the router (`EndedRouted`), and what went through it is stored |
| `SpeechProofs` | `SpeechTyping`, `SpeechSentOnce`, `SpeechNoGap`, `SpeechAnchor` | `SpeechInv`: shapes of nodes and records, what the reply at hand has done so far (`ReplyRule`), who has the slot (`SlotRule`), what came out (`Delivery`) |
| | `SpeechQuiet`, an action property | `QuietRule` relates the time since the bot last said something to what `proactiveGroup` holds |
| `ChatStoreProofs` | `RingIsWindow`: the ring implements `ChatWindow` | `ChatInv`: occupied places hold different messages and are the ones seen, one row per message, what is on the way bears a real row; each step is an `Add`, a `Reload` or a stutter of the window (`RingAdds`, `Reloads`) |
| | `RequestTrue`, `ChatTypeCorrect`: what the model is asked is what the chat says | `RequestInv`: the window last answered and the one being worked on agree with the ring read backwards from their last message, as far as both go (`Aligned`, in `SentOf` and `WorkOf`) |
| `RequestsProofs` | `NamesAlwaysAgree`, `NamesTypeCorrect` | `NamesInv`: memory shows what the row will show when the one task that writes it has done so (`Agreed`, `Errands`) |
| | `PanelAlwaysExact`, `PanelTypeCorrect` | `PanelInv`: the counters fit the rows at each stage of the two-step writes and of the emptying (`ArchiveFits`), each half-made answer fits what it has read (`AnswerFits`) |
| | `LlmTyping`, `LlmFaultsOnly` | `LlmInv`: only calls that are over are mistaken, and none where the service takes the kwargs (`LlmLoaded`); failures the breaker counted or has yet to count are at most the faults and the mistakes together (`Blames`, in `LlmCounted`) |
| | `ToolReplyIsClean`, `ToolTyping` | `TextRule`: only a text is cut, only what was cut is said, and only a rewritten reply is anything but a text; `PictureRule`: where there is a limit, what is counted is what was shown, by a lemma on the first few of a set |
| | `CommandsTyping`, `CommandsOnce` | where a message is says what its command has done and whether it may be answered after it (`RunOnce`, `MayBeAnswered`); the row follows the memory (`RowFollows`) |
| | `RequestsTyped`: the types of all six side by side | one component moves, the others stand still (`OneMovesAtATime`) |
| `WorkersProofs` | `McpTypeCorrect`, `McpNoLeak`, `McpSnapshot` | `McpInv`: one goroutine at a time makes a session (`OneMaker`), every open session is in use or in the hands of somebody who will close it (`OpenOwned`), the snapshot is right whenever nobody else is about to rebuild (`SnapInv`) |
| | `ConfigWorks`, `ConfigTyping` | `ConfigInv`: what runs was assembled from two files that load, and the settings are some that were saved (`FromFiles`) |
| | `TagOneWorker` (rounds whose jobs together fit the lease), `TagEveryPicture` | `TagInv`: rows follow pictures, running rows follow workers; under `TagBatch * Work <= ClaimTimeout` also `LeaseHeld`: what a backfiller has spent since its round began and what is left on its list fit the round, and the lease of the job in hand is no older than the round (`LeaseRule`) |
| | `WorkersTyped`: the types of all five side by side | `MentionInv`, `SpacesInv` and the above |
| `Stepwise` | no theorem about the program: `LeastNumber`, `CountUp`, `CountAll`, `StepByStep` and their like, which the modules above cite | |

None of these properties is inductive by itself. That a key is worked on by one goroutine
needs the ready list to be without repetition and disjoint from the keys in flight; that no key
is forgotten needs every key in flight to have a goroutine on its way to Release, which looks
back at the queue. That messages keep their order needs all places of the chain at once, since
any two neighbours can exchange items, and that a message is answered once needs to know which
of its copies the claim stands for, and which let-go claims and overwritten slots leave room for another. That nothing is sent twice depends on how far the reply in
hand has come and what the ledger said when it was read. That a ring is a window needs its
places, the set of seen ids and the table to agree, the last because a restart fills the ring
from it; that a request goes on where the last one ended needs more, namely where in the ring
the last one stands while the command node writes to it and the oldest leave. That two
backfillers stay apart needs the age of the row related to the time each has spent on the whole round. Hence joint
invariants, one lemma per action (`SubmitInv`, `RingKept`, ...), and the theorems from them.

Induction. The library's induction theorems take an operator as a parameter, which the provers
cannot instantiate. `Stepwise` states induction over sets of numbers instead: a non-empty set of
naturals has a least one, a set with 0 and with the successor of each of its members is the
whole range, and a function given step by step exists. That suffices for the recursive
functions of the model: the filter a node applies to a batch (`Onward`), the sum of
a window's tokens (`Tokens`), the count of attempts. `ChatOrder` is stated by pairs of
positions (`Precedes`) rather than with a recursive filter, for the same reason.

What the proofs changed in the model. `PanelExact` was false after two emptyings: a
chat with a wrong row can be skipped by the second one, which goes by the rows there are. The
run had one reset; it has two, and `pnTorn` keeps such a chat. `RequestIsTrue` failed in the
case its comment now names, a second push of a message the ring has forgotten, where only the
estimate of the cost is off.

Only model-checked: liveness (EveryItemServed, CloseEndsPool, CloseReleasesCallers,
EverythingEnds, BatchEnds, BackgroundSettles), since the prover reasons neither about fairness
nor about ENABLED; `FlowNeverStuck` and `ConsumerWorkConserving` are the safety half of it. And
the violations of the four runs under Findings, which are instances; `AppStoredOrWaiting` says
of one of them how far it reaches. `NeverStuck` and `StoredOrWaiting` are stated in `BotProofs`
and checked by no run.

## 5. Plan

Done: the pipeline, the bot under the shutdown of the application, one chat (`Speech`, `Commands`, `ToolLoop`,
`ChatStore`), the account's names and mentions, accounts and prompt files, jobs, tool services,
the guard of the model, the configuration, the panel's answers; proofs as in section 4.

Left, in this order:

1. Proofs: that no request for work is lost in `Mentions` and `Workspaces` (the safety half of
   BackgroundSettles); the texts in ChatStore against what Mentions rewrites.
2. The login limiter (web/server/auth.go) and the cache in front of the database (kv, state).

## 6. Not modelled

Everything in PROJECT.json with status `not_modelled` gives its reason: stateless I/O (onebot,
im, mcpserver, sidecar), presentation (web/frontend), observation (telemetry), a cover of a
library (kv), groups that only a test endpoint uses (async, pool). Components that are `partly`
modelled say what is left out: texts of prompts and replies, persona rendering, decoding of
pictures, bodies of requests, login and settings forms, statistics, migration of the file.
Within the modelled parts: the constructor's checks that panic on wrong wiring, `Ack` (does
nothing), the counters for metrics, overflow of absurdly long durations in the configuration.
