# Formal models of liberated-claude-code

The program puts a proxy with the Anthropic API in front of other model providers, and a chat bot
(Telegram, Discord) that runs Claude Code as a subprocess and talks to that proxy. The proxy is almost
stateless; the bot, the rate limiters and the stream translation keep the state that makes the program
hard to get right. This directory holds TLA+ models of them, TLC configurations that check them on
small instances, and TLAPS proofs of theorems that hold for every value of the constants.

`tlc -config X.cfg M` runs a configuration, `tlapm M_proofs.tla` checks a proof module; `PROJECT.json`
lists the runs, the source lines each definition models, the hazards and the theorems.

## 1. The system

    chat user --- platform --- handler --- TreeQueueManager --- process_node task --- CLI session --- claude
                    |             |                                  |                                  |
             message limiter   session store <-----------------------+                        HTTP /v1/messages
                                                                                                        |
                                        provider API <--- rate limiter <--- provider client --- SSE translation

One asyncio loop runs everything except the timer threads of the session store and the subprocesses.
A step of a model is therefore the code between two suspension points, and between two holds of the
`threading.Lock` in the store. Where an `await` cannot suspend (an uncontended `asyncio.Lock`, a
coroutine that awaits nothing) it is no boundary.

| component (source) | state | operations | interacts with | what is hard | what makes it correct |
|---|---|---|---|---|---|
| tree queue (`messaging/trees/`) | nodes and their states, FIFO queue, `is_processing`, current node and task | create_tree, add_to_tree, enqueue, process_node, `_process_next`, cancel_tree / node / branch, remove_branch | handler, commands, store | commands interleave with tasks that still have a `finally` to run; tasks cancelled before their first step | one run at a time, in order, each once; a free slot is always handed on; what is stopped stays stopped |
| session store (`messaging/session.py`) | trees, node map, message log, `_dirty`, timer, the file | save/remove tree, mappings, record_message_id, clear_all, timer save, flush | handler (calls), timer threads, app shutdown | debounce races, writes outside the lock, failing writes, crash, restart | no change without a save ahead of it; file equals store at rest; log and its id set agree |
| provider limiter (`providers/rate_limit.py`) | times of the last grants, `_blocked_until`, semaphore | concurrency_slot, wait_if_blocked, execute_with_retry, set_blocked | provider clients | requests sleep between check and use; retries; cancellation | window bound, slots, blocks |
| messaging limiter (`messaging/limiter.py`) | queue with compaction by key, worker, pause | enqueue, fire_and_forget, worker, shutdown | platforms | stale retries, lost answers, compaction racing the worker | each caller is answered; the latest text is shown |
| CLI sessions (`cli/`) | pending and known sessions, lock, subprocesses, pid registry | get_or_create, register, start_task, stop, remove_session, stop_all | handler, API | cancellation at every await; a lock held while a process dies | no session or process outlives its run; nobody waits for ever |
| message run (`messaging/handler.py`) | status of one message, captured session id | `_process_node_impl`, events, errors | all of the above | error then complete events; cancellation in `finally` | states agree with the tree and the sessions |
| commands (`messaging/commands.py`) | none of their own | /stop, /clear, /stats | tree queue, sessions, store | many awaits between cancelling and removing | nothing removed comes back |
| stream translation (`providers/openai_compat.py`, `providers/common/sse_builder.py`) | open blocks, tool states, buffered arguments | one step per `yield` | parsers, client | any mixture of thinking, text and tool chunks, failures midway, disconnection | the client always receives a well-formed message |
| text parsers (`providers/common/*_parser.py`) | buffer, state | feed, flush | stream translation | input cut anywhere | the output does not depend on the cuts, nothing is lost, the loops end |
| transcript (`messaging/transcript.py`, `event_parser.py`) | segments, open blocks, subagent stack | apply, render | handler | events by index and by id | every event lands in its segment |
| voice notes, platforms | pending voice register | register, take, cancel | limiter, handler | a note is cancelled while it is transcribed or its status message is sent | a cancelled note is not run |
| API, provider clients, converter, settings, rendering, `claude_with` | none between requests | | | | translations only |

## 2. Modules

| module | models | used by |
|---|---|---|
| `SerialQueue` | abstract: requests served one at a time, in order | refined by `TreeQueue` |
| `TreeQueue` | one conversation, its tasks and every command on it | `Conversation`, `MCTreeQueue`, `Conversation_proofs` |
| `Conversation` | composition: `TreeQueue` with the handler calls that add messages, voice notes, the commands with their awaits, the id map, what is saved, and a restart from it | `MCConversation`, `Conversation_proofs` |
| `SessionStore` | the store, its timer threads, the file, crash and restart | `MCSessionStore`, `Sessions_proofs` |
| `RollingWindow` | the deque of grants both limiters use | `ProviderThrottle` |
| `ProviderThrottle` | requests in front of a provider | `MCProviderThrottle`, `ProviderThrottle_proofs` |
| `MessageLimiter` | outgoing chat traffic, down to the retries of the Telegram platform | `MCMessageLimiter`, `MessageLimiter_proofs` |
| `CLISessions` | runs, sessions, subprocesses, the manager lock | `MCCLISessions`, `Sessions_proofs` |
| `AnthropicStream` | abstract: the messages an Anthropic client accepts | refined by `SSEStream` |
| `SSEStream` | the translation of one provider stream | `MCSSEStream`, `SSEStream_proofs` |
| `ThinkTagParser` | `<think>` tags in text cut anywhere | `MCThinkTagParser`, `ThinkTagParser_proofs` |
| `ToolText` | the texts of the tool parser and what its regular expressions find in them | `HeuristicToolParser` |
| `HeuristicToolParser` | tool calls and control tokens in text cut anywhere | `MCHeuristicToolParser`, `HeuristicToolParser_proofs` |
| `Transcript` | events of the CLI, parsed, applied, rendered and shown | `MCTranscript`, `Transcript_proofs` |

The proof modules hold the theorems of section 4.

**TreeQueue.** `task[n]` is where the coroutine `process_node` of a message is; `Start`, `SessionInfo`,
`ErrorEvent`, `Exit`, `Raise`, `Cancelled` and `Finish` are the stretches of `_process_node_impl`
between its awaits, and `Finish` takes in the `finally` of `process_node` with the `_process_next` it
calls. `NeverRuns` is asyncio throwing `CancelledError` into a task before its first step. A queue is
the set of waiting nodes with the ticket each drew, which is what the FIFO of the code tells apart.

**Conversation.** Adds to `TreeQueue` what surrounds it. `call[m]` is the await the handler is at
for message m: a voice note being transcribed in its thread, or the status message being sent; `found`
is the parent looked up before that await and used after it. `Enter` is `create_tree` or `add_to_tree`
with its `save_tree`. `mapped` is `_node_to_tree`, and Root is in it exactly if the manager has the
tree; a run keeps the tree object it found (`adopted`) even when the manager has dropped it. `statusIds` are
the messages whose status message is in the same map, in memory and in the store: `Enter` registers it as a
node too (`handler.py:285-298`), and no removal takes it out. `ClearReply`
and `RemoveCleared`/`ForgetCleared` are the two sides of the awaited deletions of a /clear by reply,
`GlobalCancel`, `GlobalStopped` and `GlobalCleared` the stretches of a global command. Every `save_tree`
is in the action that makes it (`Save`), so a step that forgets to save is a step that does. `Restart`
is `load`, `from_dict`, `cleanup_stale_nodes` and `sync_from_tree_data`. discord.py runs each event in a
task of its own, so handler calls interleave freely; python-telegram-bot runs updates one after the
other by default, which is a subset of these behaviours.

**SessionStore.** Each thread is at a line of `_save_from_timer` or `_flush_save`; `OpenFile` empties the
file and `CloseFile` fills it. A timer that fired cannot be cancelled. `spoiled`, `overlapped` and `failed`
are history: what the file lost, that two writes met, that a write failed. How long the debounce waits is
left open. Each change cancels the timer and arms another (`session.py:113-123`). `Restart` loads what the
disk holds; an unreadable file is an empty store. What `Conversation` calls the store is the memory of this
module; a crash that loses the last changes is, there, a restart at the time of the last write.

**RollingWindow, ProviderThrottle.** An integer clock, advanced by `Tick` up to `MaxTime`. Every grant
ever made is kept and the deque is its part from `head` on, so that the bound can be stated over all
windows. A request goes `Check` -> `Admit` -> sent -> accepted, or `RateLimited` -> `BackOff` -> `Retry`,
or gives up. It keeps its slot from `Enter` until `End`, and can be cancelled at each await.

**MessageLimiter.** Untimed: windows, pauses and backoffs take any time. The queue list and the map
of the code are one sequence of items, each a function with the futures that wait for it. `Retry`
puts the same function back under the same key. What the worker runs is a call of `_with_retry`:
`TryAgain` repeats it after a failure the library may raise although the call was carried out,
`Swallowed` are the errors that count as success, `Delete` removes a message under its edits. `shown` is what
the chat displays under a key.

**CLISessions.** A run is the tail of `_process_node_impl` with its session and subprocess; `pc` names
the await it is at, and there is one `Cancelled...` action for each. `owner` holds the manager lock;
which waiter gets it next is left open. `StopAll(FALSE)` is the application shutdown.

**SSEStream.** Every `yield` is a suspension point: a handler fills `todo` with events, one `Yield`
emits each, and the client may be gone at any of them. What the text parsers return is an input. A
name is a sequence of fragments, arguments are pieces of a document.

**ThinkTagParser, HeuristicToolParser.** A step is one turn of the loop of `feed`, with one action per
branch; `Feed(n)` hands over the next n characters, so all cuts of all texts are behaviours. The think
parser's tags are parameters: it relies on nothing but that each begins with the only bracket in it. How a
text is read without cuts is stated of each of its positions (`Thinking`, `Dropped`). A
document of the tool parser is a sequence of parts (prose, calls, a call cut short, control tokens,
stray bullets and brackets). The parser appends, cuts and drops but never moves a character, so its
buffer, a name, a value and what is shown are sets of positions of the document, and a regular expression is a
relation between positions of the buffer (`ToolText`): a match of `_FUNC_START_PATTERN` is a bullet that
`Leads` to a word "function=" with a `Close`. The properties compare what is shown and called with the
document itself instead of with another run of the parser. Some calls have a blank between the tag of the
function and the parameter and a bullet for the value (`loose`): both decide what the parser does when a piece
ends with them. `parted` says that one did. Left out are calls with several parameters, names and values of
several characters, and control tokens inside a call.

**Transcript.** The CLI is an agent that writes blocks with and without indices, calls tools and
launches subagents, whose output comes in the same stream. A segment is its kind and the pieces written
to it; its text is a size. An id is a sequence of parts, for a result may extend the id of its call
and `_subagent_pop` matches either way: `IdAssumption` says that an id of the CLI extends no other, that those
of tasks and no others have the part "task", and that none begins with the `__task_` of the ids the
program makes up. `Handle` is one event through `parse_cli_event`, `TranscriptBuffer.apply` and
`update_ui`, which may find that less than a second has passed. `Render` is `render` with its drop of
the oldest segments and its shortening of the last. `Cancel` is a command that cancels the run between two
events, `EditStopped` the edit of the same status message to "Stopped." alone that the command makes at any
time after it (`handler.py:706`, `724`, `744-755`), `Abort` the last update of the cancelled run itself.

Helper state in the models that no line of the code holds is history, read by properties only (`stopped`,
`cleared`, `revoked`, `late`, `crossed`, `crowded`, `torn`, `parted`, `cutShort`, `spoiled`, `overlapped`,
`failed`, `gone`, `grants` before `head`).

## 3. Runs

| run | module | checks | distinct states |
|---|---|---|---|
| `tree_serial` | `MCTreeQueue` | three messages, /stop and /clear by reply: `OneAtATime`, `Fifo`, `StoppedForGood`, the refinement of `SerialQueue`, types | 42 thousand |
| `tree_stop_all` | `MCTreeQueue` | the global /stop: a message waits only for a busy tree (`BusyWhileWaiting`), every message ends (`EverySubmissionEnds`) | 59 thousand |
| `tree_stop_node` | `MCTreeQueue` | *violated*: every message ends although a reply /stop is used | |
| `conversation` | `MCConversation` | `RestartAgrees`, `MappingAgrees`, `ClearedStaysCleared`, `NoRunOutlivesTree`, `NoGhost`, `CancelledVoiceNeverRuns` | 2.0 million |
| `store_saves` | `MCSessionStore` | dirty implies a save ahead, file equals store at rest, log and ids agree, a store that is left alone is saved | 195 thousand |
| `throttle_limits` | `MCProviderThrottle` | rolling window, slots, blocks that were found | 1.3 million |
| `limiter` | `MCMessageLimiter` | `CallerHeldOnce`, `RestShowsLatest`, `EveryCallEnds` | 277 thousand |
| `cli_sessions` | `MCCLISessions` | sessions freed, processes stopped, pids unregistered, cancelled runs and stop_all end | 232 thousand |
| `sse_stream` | `MCSSEStream` | refines a well-formed message, arguments are one document, the builder knows what the client has, never empty | 1.2 million |
| `think_tags` | `MCThinkTagParser` | `CutsDoNotMatter`: what is yielded does not depend on the cuts, and only beginnings of tags are held back | 96 thousand |
| `tool_text` | `MCHeuristicToolParser` | `CallsSurviveCuts`: exactly the calls of the document; `ProseSurvivesCuts`: its prose, whole and in order | 353 thousand, all documents of three parts, and of four without a `loose` call |
| `transcript` | `MCTranscript` | `InOrder`, `HidesSubagents`, `NoDepthDrift`, `FinalIsShown`, `ShowsTheNewest` | 2.9 million, runs of five events |

### What the violated run shows

`tree_stop_node`: a task cancelled before its first step never reaches its `try`, so nothing passes
the slot on and the messages behind it wait for ever (`queue_manager.py:302`, `processor.py:92`).

### What the properties had to leave out

The models have all of the following behaviours, and the conditions in the properties name them. Where a
comment of the repository promises more, it is quoted.

- *Tree.* After a global /stop two runs may overlap: `cancel_tree` frees the tree at once
  (`queue_manager.py:267`) while the cancelled task has yet to run its `finally`; a reply in between starts
  a second run, whose slot that `finally` then hands out. `handler.py:113` says "Per-tree queue ensures
  ordered processing". So `OneAtATime` is checked and proved without the global /stop.
- *Conversation.* With the global /stop among the commands the overlap breaks `NoRunOutlivesTree`: /clear
  asks only the newest of the two to stop. A message that joins while a global /clear deletes messages
  (`commands.py:240`, history variable `late`) runs on in the discarded manager and its run saves the
  cleared tree again, although `commands.py:241` says "Stop tasks first (ensures no more work is running)".
  A reply that joins during the deletions of a branch leaves an id in the queue whose node is gone; when its
  turn comes the tree is busy without a task (`data.py:456`, `processor.py:118`). An exit with code 0 and
  without a session leaves its node in progress (`handler.py:429`), which `NoGhost` excepts. A global /clear
  does not cancel pending voice notes; a failed transcription leaves its entry registered. The ids of status
  messages are registered as nodes (`handler.py:285-298`), while every removal is given the ids of nodes
  only (`queue_manager.py:423`, `session.py:258-271`, `commands.py:177`). So the map keeps the ids of the
  status messages of what was removed, in memory and in the store, over a restart too, although
  `session.py:266` says "Remove a tree and all its node mappings from the store." `MappingAgrees` is exact
  about messages, and about status messages says that those of the tree are there and no others but those of
  messages that /clear removed. A message that a late run saves again comes back without its status message.
- *Store.* Two overlapping writes may leave the older snapshot on the disk; `RestIsSaved` is about the rest.
  Changes that come faster than the debounce put the save off for as long as they keep coming, since each arms
  the timer anew (`session.py:113-123`). `QuietStoreIsSaved` promises the save after the last of a row of changes
  only, whatever the number of changes before it.
- *Throttle.* A block is read once and not again after the sleep (`rate_limit.py:113`); `SeenBlockRespected` is
  about the block that was found.
- *Limiter.* A stale retry may overwrite a newer update, and a repeated send is a second message, although
  `limiter.py:76-77` promises that "only the latest version of a message update is processed". In the
  real library `BadRequest` is a subclass of `NetworkError`, so that which branch of `_with_retry` an
  error takes depends on the library; the model allows either.
- *CLI.* A run cancelled while its `finally` waits for the manager lock leaves its process without a signal
  until stop_all (`handler.py:642`).
- *Stream.* Of a tool name in fragments only the first is sent (`openai_compat.py:89`), although
  `register_tool_name` "Handles providers that stream names as fragments" (`sse_builder.py:67-71`): the
  builder knows the whole name, the client does not.
- *Tool text.* A parameter is searched for beyond the next bullet (`heuristic_tool_parser.py:137`), so a
  call cut short in front of another may take its parameter; a token is let through when the buffer begins
  with its first two characters. A piece that ends with the blank in front of a parameter ends the call
  without it: a blank buffer strips to the empty string, which does not start with "<" (165-174). So does
  one that ends between a bullet in the value and the end of the parameter (157-164). The markup of the
  parameter that follows is then shown as text. The comment at 131-132 has it otherwise for blanks: "If we
  see a newline followed by anything other than <parameter or spaces, we might be done with the tool call."
  So `CallsSurviveCuts` is about cuts that bring no whole call behind an open one (`crowded`) and part none
  from its parameter (`parted`). Under `parted` `ProseSurvivesCuts` promises the order only; it promises the
  whole prose, and nothing else but blanks in front of parameters, without stray bullets and brackets, with
  tokens in one piece and without crowded calls.
- *Transcript.* A subagent that returns before a younger one pops that one too (`transcript.py:294`), and shows
  what it still writes; results without an id pop a synthetic entry. `HidesSubagents` is about results youngest
  first and with ids. `NoDepthDrift` depends on `IdAssumption`: a late id without "task" in it does not pop the
  made-up one. After a command that cancels the run the chat may show "Stopped." instead of the transcript, when
  the edit of the command comes after that of the run (as after a global stop); `FinalIsShown` allows just
  that text, and nothing else, once the command has made its edit.

### Bounds

- Tree: a root and two replies in any shape. Two live tasks and one waiter are the most any of the
  properties relates; commands are unlimited, as are failures.
- Conversation: a root and two replies, one a voice note; two commands that stop or clear, besides any
  number of voice cancellations; one restart. Two commands are needed for one to find what the other left
  half done, two replies for one to join while the other is removed. The global command is /clear. The
  view leaves out `stopped`, which nothing in this run reads.
- Store: two timer threads and the main thread are needed for two writers to meet while a third
  flushes; two message ids with a cap of one make the log drop an id; three changes.
- Throttle: three requests for two slots and a window of two grants in two seconds; one retry;
  the clock stops at 5, after the longest chain of block, backoff and window.
- Limiter: a status, two edits of it and an unrelated message under two keys, one retry in the background
  and two tries of the platform (three in the code) each: the least in which a retry meets a newer
  update that meets a newer caller, and in which a try is the last or not.
- CLI: two runs, so that one holds the lock the other waits for, one cancellation by name and one
  stop_all.
- Think tags: all texts of up to seven characters over the four that the tags are made of, which holds an
  opened and closed pair, in pieces of up to three: a tag of four may be cut twice.
- Tool text: three parts hold a call between two others, four a stray part besides, and a `loose` call is cut in
  all its places with something on both sides; `MaxTag` is the 100 of the code
  made small enough for a bullet to be given up, and larger than a whole tag.
- Stream: three pieces of content out of thinking, text, text tools and native tools with and without
  an index, a fragmented name, a Task.
- Transcript: five events hold two nested subagents with their results and one event between; sizes are
  small numbers chosen so that three segments do not fit.

`MaxTime`, `MaxCalls`, `MaxCancels`, `MaxStops`, `MaxChunks`, `MaxPiece`, `MaxText`, `MaxEvents`,
`MaxCommands` and `MaxRestarts` are bounds of the models; `MaxRetries`, `MaxTries`, `MaxTag`, `Limit`,
`TailMax` are parameters of the code made small. Deadlock is checked only in the run of the store:
everywhere else a system with all its work done stops.

### Fairness

- Tree: `WF(TaskStep(n))`. The event loop runs every ready task. That a Claude process ends some day is an
  assumption on the environment.
- Store: `WF(ThreadStep(t))`. A timer fires and its thread is scheduled, unless it is cancelled first: a timer
  that each change cancels is disabled again and again, and fairness does not make it fire. So
  `QuietStoreIsSaved` ends its promise with every further call and does not rely on `MaxCalls`.
- Limiter: weak fairness of the worker, of each caller's first step and of retries: sleeps end, the
  loop runs ready tasks, a platform call returns or raises.
- CLI: weak fairness of the run's own steps, of `stop_all`, of `Kill` (the five second timeout) and of
  the death of a process only after SIGKILL. A process may ignore SIGTERM for ever, and a run may read for
  ever if nobody cancels it.
- Everything else: safety only.

## 4. Proofs

All theorems hold for any constants that meet the named assumptions of the modules (a finite set of
messages with a root in it; a positive limit and window; a cap; `NoNode`, `None` outside the sets; ids that
cannot be taken for each other).

| module | theorem | states | argument |
|---|---|---|---|
| `Conversation_proofs`, for `TreeQueue` | `TypeCorrect` | types | one step per action, lemmas for the helpers |
| | `FirstComeFirstServed` | `Fifo`: order of starts, each once, under every command | `QueueInv`: waiting nodes drew later tickets than all that ran; the queue is empty if the tree is free |
| | `WaitingFindTheTreeBusy` | `BusyWhileWaiting` | a part of `QueueInv` |
| | `SerialRuns` | `OneAtATime`, and a busy tree while it runs | `SlotInv`: every live task is the current one and a free tree has no task. Assumes no global /stop |
| | `StoppedStaysStopped` | `StoppedForGood` | `StoppedInv` on top of `SlotInv`: a stopped node that still runs has its cancellation pending or thrown |
| | `ImplementsSerialQueue` | refinement of `SerialQueue` | each action maps to Submit, Advance, Withdraw, Close or a stutter |
| `Conversation_proofs`, for `Conversation` | `ConversationTypes` | types | reuses the step lemmas of `TreeQueue` |
| | `CancelledVoicesNeverRun` | `CancelledVoiceNeverRuns` | `CallInv`: who has no ticket is neither queued nor run; a revoked note has none and is on no way to one |
| | `MappingsAgree` | `MappingAgrees` | `MappingInv`: while the manager has the tree, map, nodes and store hold the same messages; once it has not, the store has none or all of them. `StatusInv`: which status messages the two maps have. Most steps change no shape (`SameShape`) |
| | `RestartsAgree` | `RestartAgrees` | `RunInv`: a completed node is neither waiting nor running, and a run has the tree of its node in hand; so no step but its last, which saves, changes what counts (`SavedInv`) |
| | `NoRunIsLeftBehind` | `NoRunOutlivesTree` | `OneRunInv`: one live task, the one `cancel_tree` asks to stop; once the tree is being discarded nothing waits and that task was asked. Assumes no global /stop |
| | `ClearedMessagesStayCleared` | `ClearedStaysCleared` | `ClearedInv` on top of `OneRunInv`: no run is left to save a discarded tree. Assumes no global /stop |
| | `NothingHaunts` | `NoGhost` | `GhostInv`: the task a command cancels is that of the node it marks, so a task cancelled before its first step belongs to a failed node; a run leaves a final state before it cleans up |
| `Sessions_proofs`, for `SessionStore` | `ChangesAreScheduled` | a dirty store has a save ahead of it | a protocol invariant on which thread owns the timer |
| | `SavedWhenAtRest` | the file holds the store at rest | `SaveInv`: a file in the hands of one writer receives the newest snapshot unless a change has dirtied the store |
| | `LogIsExact` | `LogMatchesIds` | `LogInv`: the same of every snapshot and of the disk, from which a restart reads the log |
| `ProviderThrottle_proofs` | `TypeCorrect` | types | |
| | `RollingWindowHolds` | `WindowBound` | `WindowInv` adds that popped grants have expired for good |
| | `SlotsAreUsed` | `SlotsInUse` | `SlotInv`: the line for a slot holds every queued request once and no other |
| | `FoundBlocksHold` | `SeenBlockRespected` | `BlockInv`: a sleep for a block is as long as the block, and who waits for the window is past it |
| `Sessions_proofs`, for `CLISessions` | `TypeCorrect` | types | needs `SessionInv`: a run that has yet to create its session has none |
| | `SessionsAreFreed` | a run that is over has no session in the manager | `SessionInv`: where a run may be while it has one |
| | `PidsAreUnregistered` | no pid of a run that is over in the registry | `PidInv`, on top of the types |
| | `ProcessesEndWithRuns` | no live process of a run that is over | `ProcessInv`: a live process has a session in the manager, or the manager dropped it, or its run is just removing it |
| `MessageLimiter_proofs` | `TypeCorrect` | types | |
| | `CallersAreHeld` | `CallerHeldOnce` | `HeldInv`: a caller is in one item at most, only while it waits or gave up, and a worker that is not stopped has every caller that waits |
| | `ChatShowsLatest` | `RestShowsLatest` | `OrderInv`: the tasks of a key begin in the order its calls were made, an awaited one first; `LatestInv`: as long as nothing went wrong with the key, the last call whose task was queued is in the queue, else with the worker, else shown |
| `SSEStream_proofs` | `TypeCorrect` | types, distinct blocks | together with `StreamInv` |
| | `TasksGetOneDocument` | `TaskInputIsOneDocument` | `ToolInv`: a name only grows by what it begins with, so a tool that was ever given arguments as a Task has a name that begins with "Task", and the client was shown a beginning of it. Assumes that "Task" does not begin "tool_call" |
| | `NoMessageIsEmpty` | `NeverEmpty` | `StreamInv`: every error, text and started tool has its block |
| | `ClientAndBuilderAgree` | `BuilderAgrees` | `PlayInv`: the events in `todo` lead the client, each allowed by `AnthropicStream` where it comes, from the blocks it has open to those the builder takes for open; runs of events compose (`PlaysConcat`), and taking the first keeps the rest (`PlaysHead`) |
| | `StreamIsWellFormed` | refinement of `AnthropicStream` | by `PlayInv` every `Yield` is a step of the client's specification, and nothing else changes what the client has |
| `Transcript_proofs` | `TypeCorrect` | types, and that maps and stack refer to segments that are there | `IInv`, which the next three share. It is about the transcript as it will be after the event in hand, because the CLI has moved on already: `Standing` (types), `AgentsOK`, `Ordered`, `Tidy` |
| | `DepthIsRight` | `NoDepthDrift`: the stack is empty when no subagent runs | `AgentsOK`: with given ids every entry of the stack is a running task, and all of them unless one returned out of order; with late ids there are as many entries as tasks; without ids at most as many |
| | `SubagentsHidden` | `HidesSubagents` | `AgentsOK` and `Ordered`: who speaks is a subagent only if the stack is not empty, and then nothing is written |
| | `Order` | `InOrder` | `Ordered`, and `Tidy`: at most one block is open at an index and none where the stream ended its last, and a block the main agent is writing has its own segment open |
| | `FinalShown` | `FinalIsShown` | `Shown`, the property itself with the bound on the size: the step that ends a run forces its update, and only the edit of a command replaces it |
| | `NewestShown` | `ShowsTheNewest` | what `Render` returns at the end, case by case: all segments, a suffix of them that fits, or a tail of the last |
| `ThinkTagParser_proofs` | `TypeCorrect` | types | a part of `IInv` |
| | `AnyCuts` | `CutsDoNotMatter` | `IInv`: the buffer is the end of the text, no tag that would count begins before it and ends in it (`Could`, also of a tag whose end has not come), and the mode is that of the whole text there. `Scan`: up to the first tag nothing is dropped and all is of that mode; `ReadOn`: the reading of a text goes on with what is yielded next, by the rank of each position among those kept |
| `HeuristicToolParser_proofs` | `TypeCorrect` | types | the buffer never holds what was not fed |
| | `CallsSurvive` | `CallsSurviveCuts` | `WholeInv`, described below, while no cut parted a call from its parameter: `CallsInv` says that the bullet of every call is unread, or the call is being read, or it is detected, and that detected calls precede what is left |
| | `ProseSurvives` | `ProseSurvivesCuts` | `OrderInv`, under any cuts: all that is shown precedes what is left. `WholeInv`, while no cut parted a call: `ShownInv` says where prose is that no stray bullet or bracket precedes |

Each invariant comes with Init => Inv, Inv /\ [Next]_vars => Inv', Inv => property, and the step
lemma has one case per action or group of actions. The inductive invariants were first checked by TLC on the
instances of the runs. `OneAtATime` and the others are not inductive themselves: each says nothing of the
state that makes the next step safe, which is what the invariants add.

The invariant of the tool parser is the types, `OrderInv`, and `WholeInv` as long as not `parted`.
`WholeInv` is about `Unread`, what is in the buffer or not fed yet. `LeftInv`: from any character of it on,
the part around that character is whole, so a regular expression finds in the buffer only what belongs to
one part (`FunctionsAre`, `ParametersAre`, `StripIs`) wherever the text was cut. `HeadInv` and `CurrentInv`:
nothing is left of a call without its bullet but of the call that is being read, whose parameter is either
still to come or taken. `IdleInv`: what the parser waits with between two pieces, which makes the next piece
complete it. `ApartInv`: a whole call in the buffer has no open one in front of it, unless the history
variable `crowded` says that a piece brought one. `PartInv`: the last piece did not end where it parts a
call from its parameter, which is what keeps the branches for bullets and text from ending one too early. It
was checked by TLC on all documents of up to three parts. The theorem is about documents of any number of
these parts, cut in any way. What a part looks like is fixed (`Form`): one character stands for a name, a
key, a value, a piece of prose.

Model-checked only: liveness under fairness and `ENABLED`, which are out of the prover's reach, as is
induction over data (what a recursive definition computes for every input) and modules with RECURSIVE
operators. That leaves the five progress properties of the runs: `EverySubmissionEnds`, `QuietStoreIsSaved`,
`EveryCallEnds`, `CancelledRunEnds` and `StopAllReturns`. Every other property of a passing run, the action
properties and the two refinements included, is stated by a theorem.

## 5. Not modelled

- Rendering (Markdown to Telegram's and Discord's dialects), the message converter, request builders, settings,
  routes, logging and the launcher: no state between calls, or only I/O. Their output matters to no property
  here; a model of them would be a transliteration of string handling.
- Starting and stopping the chat platforms, reading updates, and their libraries, which are external.
- Several conversations: they share only the map from ids to trees, the store and the limiters, and ids
  of different conversations never meet.
- Loading of the file formats; what an unreadable file becomes is in `SessionStore`.
- Hazards without a property: in most of them the code does go wrong and the property that covers the rest
  excepts them; `PROJECT.json` says so at each, and section 3 says which. In one the code promises nothing: at
  shutdown the store is flushed before the platform and the sessions are stopped (`api/app.py:157`).
  `SessionStore` has the changes after the flush; whether the debounce timer still fires depends on how long the
  rest of the shutdown takes.

## 6. Plan

1. The id maps of the CLI manager (temporary and real ids) as part of `CLISessions`.
2. Message conversion as an operator, checked against a reference definition over small inputs.
