# A verification project for fiddlesticks

TLA+ modules of the agent framework in this repository, TLC configurations that
check them on small instances, and theorems about them proved with TLAPS. The
modules are read from the Rust source; `PROJECT.json` gives, for every
definition, the lines it models.

## The system

| Crate | Part | State | Operations | Talks to |
|---|---|---|---|---|
| fharness | `Harness` | none of its own; the locals of each run | `run`, `run_initializer`, `run_task_iteration` | memory backend, chat service, health checker, selector, validator |
| fmemory | `MemoryBackend`: in-memory, SQLite, PostgreSQL, filesystem | per session: manifest, feature list, progress log, checkpoints, transcript | ten async calls | called by the harness and, through `MemoryConversationStore`, by chat |
| fchat | `ChatService` | the locals of each turn; the transcript is in the `ConversationStore` | `run_turn`, `stream_turn` | provider, tool runtime, store |
| ftooling | `DefaultToolRuntime`, `ToolRegistry` | the registry; hooks | `execute` | called by chat; calls tools and hooks |
| fprovider | `SecureCredentialManager` | provider → credential and metadata, under a mutex | set, rotate, use, look at, revoke | called by adapters; tells an observer |
| fprovider | OpenAI websocket transport | one cached socket, its age and credentials, under an async mutex | `complete`, `stream` | the OpenAI server |
| fprovider | OpenAI HTTP/SSE transport | the locals of a stream: buffer, text, calls | `complete`, `stream` | the OpenAI server |
| fprovider | other adapters (Anthropic, Claude, Ollama, OpenCode Zen) | none | `complete`, `stream` | hand their requests to the OpenAI transport |
| fprovider | `RetryPolicy`, `execute_with_retry` | attempt number | one provider call with retries | used by `run_turn`; `stream_turn` has a loop of its own; both tell operation hooks |
| fobserve | safe, metrics and tracing hooks | counters and log lines | hook calls | told by the tool runtime, the retry loops and the harness |
| fcommon, fiddlesticks | registry wrapper; facade | none | builders | all of the above |

How they interact: a caller starts a harness **run** on a session. The first run
initializes the session (one backend call); later ones loop over its features:
load the list, select a feature, run a chat **turn** about it, have a validator
judge the result, mark the feature, and finally record a checkpoint and a
progress entry. A turn loads the transcript, calls the provider (with retries),
runs the tools the answer asks for, calls again, and appends its messages. All
of this is `async`: a run, a turn or a tool call may be suspended at every
await, may overlap with others on the same session, and may be dropped there.

What is hard about it, and what makes each part correct:

- **Harness.** Runs overlap and decide from lists they loaded earlier. No run may
  overwrite a session, mark what no validator accepted, declare completion early,
  or report more than it did; its loops must end; its handoff must be recorded.
- **Backends.** The same ten calls, with four kinds of atomicity: one mutex, many
  auto-committed statements, one row with or without a transaction, a file that
  is replaced. Each should look like one step to callers, survive failures, and
  initialize a session once.
- **Chat.** Retries nest inside tool rounds; plain and streamed turns duplicate
  the logic; turns overlap on a transcript; a stream may be dropped anywhere.
- **Records.** Every stored record is checked when it is read, and one that cannot
  be read costs the session; so nothing may be stored that cannot.
- **Requests.** A request is written from what earlier turns stored, with a key that
  other threads rotate and revoke while it waits and is tried again.
- **Tools.** The tool's answer races the timeout; hooks must be paired.
- **Observers.** Two retry loops and many error paths must each call one closing
  hook, and an observer that panics must not take the operation with it.
- **Credentials.** The clock is read before the mutex is taken and events are
  emitted after it is freed; callers' closures run under it, and may panic.
- **Websocket.** Frames carry no request id, so requests must not share the socket
  while a response is on its way, and a broken socket must not be handed on.
- **Streams.** Chunks end anywhere, calls arrive in pieces under an index or an id,
  and three accumulators (two transports, the chat turn) must agree.

`PROJECT.json` lists 40 such hazards with their lines and the properties that
cover each, with a note where a property leaves part of it out.

## Modules

| Module | Models |
|---|---|
| `SessionState` | the state of a session and the calls of the trait as pure functions (`fmemory/src/backend.rs`) |
| `Harness` | `fharness/src/harness.rs`, with the backend atomic as in memory |
| `SessionCalls` | arguments and answers of the ten calls, shared by all stores |
| `SessionStore` | **the abstract specification**: what a `MemoryBackend` promises; also exactly the in-memory backend |
| `SqliteStore`, `PostgresStore`, `FileStore` | the durable backends, statement by statement; each instantiates `SessionStore` with a refinement mapping (`Contract`) |
| `RecordStore` | the records on their way into a document or rows and back (`filesystem.rs`, `postgres.rs`, `sqlite.rs`) |
| `MemoryBackends` | a deployment: which backend the application chose and how it uses it (`fmemory/src/backend.rs`, `create_memory_backend`) |
| `ChatTurn` | `fchat/src/service.rs`, with the retries of `fprovider/src/resilience.rs` |
| `ProviderCall` | the requests of a session's turns: `build_request`, both retry loops with their hooks, the adapters' credential, the checks and errors of `openai/serde_api.rs`, `provider.rs` and `transport.rs` |
| `ToolRuntime` | `ftooling/src/runtime.rs`, `registry.rs` |
| `Observability` | `fobserve`: composes `ToolRuntime`, `ProviderCall` and the phases of a harness with an observer |
| `Credentials` | `fprovider/src/credentials.rs` |
| `WsConnection` | `fprovider/src/adapters/openai/responses_ws.rs` |
| `ProviderStream` | a streamed response from bytes to the chat turn: `transport.rs`, the accumulator of `responses_ws.rs`, and the collecting loop of `stream_turn` |
| `HarnessProofs`, `ChatTurnProofs`, `SessionStoreProofs`, `SqliteProofs`, `BackendProofs`, `ObservabilityProofs`, `ProviderStreamProofs` | theorems about the module each is named after; `BackendProofs` is about `MemoryBackends` |
| `ProviderProofs` | theorems about `Credentials` and `WsConnection` |
| `MC…` | values and sets of callers for TLC |

`SessionState` is extended by `Harness` and, through `SessionCalls`, by every
store, so the harness and the backends agree on what each call does: `Harness`
takes one atomic step per backend call, `SessionStore` says that calls are such
steps, and `MemoryBackends` says in which deployments that is true of each backend.

### Harness

A run `r` has one `pc[r]` value per call it waits for; what it does between two
awaits is one action. `processed`, `validated`, `turns`, `retries`, `loaded`
are the locals `processed_feature_ids`, `validated_feature_ids`, `turns_used`,
`retries_remaining` and `bootstrap.feature_list`; `outcome` is what it is going
to return. `approved` is a history variable: which validator verdicts were
given.

| Action | Code (`harness.rs`) |
|---|---|
| `RunSession`, `SelectPhase` | `run_with_observer`, `select_phase` |
| `RunInitializer`, `InitializeSession`, `VerifyManifest` | `run_initializer_inner`: request checks, `initialize_session_if_missing`, the load that verifies it |
| `RunTaskIteration`, `RecordStarted` | chat check, started checkpoint |
| `LoadBootstrap`, `CheckHealth` | first load, health check, gate on the list loaded **before** it |
| `SelectFeature`, `FindNoFeature`, `FinishBatch` | head of the outer loop on a fresh load: limit, gate, selector; and the gate after the loop |
| `ExecuteTurn` | one chat turn, with the retry decision when it fails |
| `Approve`, `Reject`, `ValidatorError` | the validator's answers |
| `MarkPassed` | `update_feature_pass` |
| `RecordTerminal`, `RecordProgress` | `record_final_handoff` |
| `MemoryError` | any backend call fails, before or after its write took effect |
| `Cancel` | the run's future is dropped |

Features are an id and `passes`; descriptions, steps, timestamps, notes and
prompts are abstracted, as are phase hooks. Every run belongs to a harness of its
own: `Policy[r]` is that harness's `RunPolicy` and `Selector[r]` says whether it
has the default selector or one the application supplies, which may return
anything.

### Stores

`Client`s make calls; `op` and `answer` describe the last call of each, `calls`
lists what it called, and `acked` remembers which calls were answered with
success. `SqliteStore` turns a call
into a list of statements (`Program`) that commit one by one; the connection
mutex (`OneProcess`) keeps the calls of one process apart. `PostgresStore` has
the committed row, the row lock and the draft a client is going to write.
`FileStore` has the session file, the temporary file and the draft.

The refinement mappings say when a call takes effect. PostgreSQL: at the commit
or the save. Filesystem: at the removal of the old file (from there on the
mapping shows the draft), or at the rename if there was none. SQLite: at the first
statement of a write, because nobody sees the tables before the last one; at the
last statement of a read.

`MemoryBackends` puts the four side by side. Its variable `deployment` is chosen
once; `ContractKept` is checked for

- `memory`, `files`: clients of one process may call anything, and any call may
  fail, on files at any file operation but the rename;
- `sqlite`: clients of one process may call anything, and any call may fail before
  its first statement, at any statement of a read, or on the way to the caller;
- `postgres_writer`: one client writes and the others read;
- `postgres_initializers`: the session has a row, and whoever writes initializes.

Files are promised it only as long as removal and rename do not come apart
(`SafeRename`). SQLite is promised it only as long as no write of several statements
fails once it has begun (`Interrupted` is `FALSE`; such writes are
`replace_features`, initialization and the inserts of transcript messages,
`sqlite.rs:295-325`, `393-458`, `976-992`): a statement that fails in the middle
leaves what was written before. PostgreSQL is promised it only in these two
deployments. Findings shows what happens outside of them. In `sqlite_processes`
several processes share one file without a common mutex and die between any two
statements. The contract is not claimed there (the mapping shows a store nobody
calls); what is claimed is `CreatedOnce` and `AcknowledgedKept`, for calls that
do not replace the list.

Two more deployments look inside the records, call after call. `RecordStore` has
what a call is given, how it is encoded, when that is refused (a time before the
epoch), and what a load makes of it: `json_records` is the document of the files
and of PostgreSQL, `row_records` the tables of SQLite, where an initialization
that is refused leaves what was written before (`half`) and a plan without steps
is read as none. `told` is a history variable: what the acknowledged calls asked
to store.

### Chat, tools, credentials, websocket

`ChatTurn`: `turn[t]` holds the locals of a turn. `LoadMessages` is
`prepare_turn`; `AttemptFails`/`Backoff` the retry loop; `Complete` (plain) and
`StreamOpens`, `ToolCallDelta`, `StreamEnds`, `StreamFails` (streamed) the
response; `RunTool`/`NextRound` the tool loop; `AppendMessages`, `StoreFails`,
`TurnComplete` the end. A failed append may leave the first messages of the turn,
as SQLite inserts them one by one. Streamed calls are collected in a `BTreeMap`, hence
sorted and without duplicates; plain ones keep the order of the response.

`ProviderCall` follows one turn after another on a session. `call` is the turn
under way: `Begin` is `prepare_turn` and `build_request`; `StartAttempt`,
`Prepare`, `Send` an attempt, up to the request that leaves; `ServerFails`,
`Fallback` and `ServerAnswers` what comes back, a status mapped to an error by
`ErrorOf`; `Fails` and `Wake` the retry; `Collect`, `RunTools`, `AppendMessages`
the rest of the turn. A message is its role and whether it is blank, which is what
`serde_api.rs` looks at. `version` counts the changes of the credential and is odd
while there is one, so `AuthFresh` can compare the key in a request with the one
there was when its attempt began (`since`).

`Observability` adds the observer: `seen` counts its counters or log lines. A
step that calls a hook is the step of `ToolRuntime` or `ProviderCall`
together with `Hook`; or an observer panics in it, and unless the wrapper around it
catches that hook (`Unwinds`, `Caught`) the operation unwinds instead
(`ToolUnwinds`, `ProviderUnwinds`, `PhaseUnwinds`). Hooks of one
kind tell nothing of the others, so each behaviour has operations of one `kind`.

`ToolRuntime`: `Invoke` runs a synchronous tool to its end or creates the future
of an asynchronous one, `Poll` is the `select` of the tool and the timer, which
looks at the tool first.

`Credentials`: a call is up to three steps (read the clock, work under the mutex,
emit the event), with `Tick` and other threads between them. `Show` is the closure
that sees the secret under the mutex: it returns (`Grant`) or panics (`Panics`),
which poisons the mutex for every provider (`PanicsElsewhere` is a closure with
another's) and makes every later call return an error (`FindsPoisoned`).

`WsConnection`: `wire` holds the frames on their way to the client, `work` what
the server has yet to answer on this socket; a socket that is given up takes both
with it. `old` and `dead` are its age limit and its being closed or broken. The
mutex is `holder`. A request that fails frees it at once, but for a stream: it hands
out the error still holding it (`erred`) until it is polled again (`StreamFails`) or
dropped. The server is external: it answers in order, with events and a
last or an error frame, and may close the socket.

`ProviderStream`: `sent` is what the server said so far, `position` how much of it
has arrived in half lines (a chunk may end within a line), `parsed` how much the
transport has handled. `text` and `calls` are its accumulator, `final` the message
it completes with, and `kept` what `stream_turn` has collected. A call line may come
without its name, and over SSE without its index, which `transport.rs:246` then
takes for the first (`KeyOf`). A piece of text or
of arguments is the number of the item that brought it, so that what is kept can be
compared with what was said. The server is external: any item may follow any other,
but a finished response and an output item repeat what was said before.

## Runs

Every run finishes in under three minutes with two workers. Passing runs check
invariants (I), action properties (A), refinement (R) or liveness (L); all twelve
runs are listed.

| Run | Instance | Checks | Shows |
|---|---|---|---|
| `harness` | 2 runs: a batch of at most 2 features with any selector, and a strict one with the default selector; acceptable and refused requests; session fresh or initialized; 2 features; 2.1 M states | I `NoEarlyCompletion`, `PassesOnlyWhenApproved`, `SucceededIsTrue`, `TurnsWithinBudget`, `IncrementalScope`, `CleanHandoff`; A `SessionKept` | what a run writes, declares and records is true of the session although the other works on it too, whatever fails |
| `harness_ends` | 2 unlimited runs with the default selector, budget 2; fair; 225 k states | I `NoFeatureTwice`; L `RunEnds` | the loop without a limit of its own ends |
| `backends` | the eight deployments; 2 clients, 2 calls each, or 3 writes of records; 1.2 M states | I `TypeOK`, `CreatedOnce`, `AcknowledgedKept`, `LoadsBack`; R `ContractKept` | which backend keeps the contract when, what it is worth to its callers, and that what is stored can be read |
| `postgres_create`, `postgres_append` | 2 clients, one call each | **violated**: `CreatedOnce`, `AcknowledgedKept` | see Findings |
| `file_crash` | 2 clients that append to the log | **violated**: `AcknowledgedKept` | see Findings |
| `sqlite_interrupt` | 2 initializers of one process | **violated**: `ExistsMeansWritten` | see Findings |
| `chat` | a plain and a streamed turn that overlap; 2 tool rounds, 2 attempts, 2 call ids; fair; 113 k states | I `TypeOK`, `WholeTurns`, `PersistedOnce`, `HistorySeesFinished`, `ResultsAnswerCalls`, `BoundedRequests`; L `TurnEnds` | retries and rounds compose and end, and whatever fails or is dropped leaves a sound transcript |
| `observed` | 3 tool calls (asynchronous, synchronous, of no tool) with a timeout, or 2 turns of one tool round and 2 attempts, with a provider that takes a key or with Ollama, and 3 changes of the key, or 2 phases; every observer, panicking in any hook; fair; 641 k states | I `HookOrder`, `TimeoutMeansUnanswered`, `NeverStuck`, `AuthFresh`, `Balanced`; L `TimeoutEnforced` | hooks are paired on every path that returns; a hanging asynchronous tool is timed out; a session is never stuck with what it stored; no stale key is sent; metrics and log agree with what happened |
| `streams` | a response of up to 4 lines or events, 2 calls, named and indexed or not, over either transport; 7.6 M states | I `TypeOK`, `KeptIsSaid`, `MilestonesLast`, `CompleteMeansFinished` | what the turn keeps of a streamed response is the text the server sent and the calls it told apart, however it was cut |
| `credentials_threads` | 2 threads, 3 calls each, 3 instants; closures that panic; 452 k states | I `CredentialTypeOK`, `AuditBalanced`, `UsesCounted`; A `ExpiryIsFinal` | audit, counters and expiry under races, and up to the panic that poisons the mutex |
| `ws` | 3 requests, one streamed, 2 credentials, dropping and unreadable frames; fair; 81 k states | I `TypeOK`, `OwnFrames`; A `CompleteHeals`; L `EveryRequestEnds` | whose frames a request can read, that broken sockets are given up, and that no request starves while the server finishes |

### Why these bounds are enough

- Two runs, clients, turns or threads are where every race of this code happens:
  each interleaves one actor's read and write with another's. `ws` has a third
  request because its hazards need one that leaves something behind, one that
  finds it, and one with other credentials.
- Two features tell "this one", "another" and "all" apart.
- Limits (turns, features, rounds, attempts, budget) are at 2 where the step from
  "one left" to "none left" matters, and at 1 or 0 elsewhere.
- `MaxCalls` (stores, credentials), `ToolCall` (ids of calls in one response),
  `MaxEvents` (frames before the last one), `MaxItems` (items of a streamed
  response: two for each of two calls, in any order), `MaxTime`, `MaxWrites`
  (records: an initialization, which may bring an entry and a checkpoint, and two
  writes more), `MaxTurns` and `MaxChanges` (a session's turns, one of which stores
  what the next sends; the credential's changes, enough to set, rotate and revoke
  it) and `MaxObserved` (turns with an observer, whose counters multiply the states)
  are bounds of the models, not of the code; so is the stop of `turn[t].requests`
  one above the bound that `BoundedRequests` states. Three instants are before, at
  and after the expiry of a credential with `Ttl = 1`. Two calls per client let one
  be answered before the other fails, and an initializer come after an interrupted
  one.
- Symmetry is used in `credentials_threads` alone: its threads are
  interchangeable, and it checks no liveness.

### Fairness

`Harness!Fairness`: every call a run waits for is answered, with a result or an
error. This is what the await of an ordinary backend, provider or validator
amounts to; nothing says that calls succeed. `ChatTurn!FairSpec`: turns are
polled, and provider, tools and store answer. `Observability!FairSpec` asks for
its tools what `ToolFairSpec` of `ToolRuntime` does, which is less: ready futures
are polled and timers fire, but **no tool need ever answer**, and a synchronous one
holds its thread. Nothing is asked of its turns and phases, of which it promises
only safety. `WsConnection!FairSpec` asks that the server
finish what it was asked, because the code has no read timeout; without it
nothing ends, which is listed as a hazard. All are weak fairness; dropping and
cancelling are never forced.

`CHECK_DEADLOCK FALSE` is everywhere: runs, turns, calls and requests are finite
in number and the systems stop when all have ended.

## Findings

Each is a run that TLC finds violated, with a line of the repository that says
otherwise (`PROJECT.json` quotes it).

1. `postgres_create`: two initializers of a session without a row are both told
   that they created it; the second overwrites the first. `FOR UPDATE` locks
   rows, and there is none.
2. `postgres_append`: every other write is a load and a save without a
   transaction: concurrent appends lose acknowledged entries.
3. `file_crash`: `write_atomic` removes the old file before the rename; a failure
   in between loses the session.
4. `sqlite_interrupt`: an interrupted initializer leaves a session without
   features that is never repaired, since it exists.

Where a property had to leave out a case to be true, the case is in the model, and
its comment says so:

- `CleanHandoff` speaks of runs that return a result. A backend that fails during
  the handoff ends it there (`MemoryError`), so such a run returns an error and
  may leave an `InProgress` checkpoint without a terminal one, or a checkpoint
  without its progress entry (compare `fharness/README.md:168`).
- `HookOrder` speaks of calls that return. A call dropped while its tool runs has
  a start hook and no end hook (compare `ftooling/README.md:122-124`).
- `NeverStuck` leaves out a blank system prompt and a blank tool output of the turn
  itself: the adapter refuses both, at every turn of such a session or for that
  turn (`serde_api.rs:114`).
- `LoadsBack` compares nothing after an initialization that SQLite refused half
  way (`half`), only that the session can still be loaded.
- `WholeTurns` lets a turn whose append failed stand in part, and `Balanced` counts
  what is dropped as begun: no hook tells of it.
- `TimeoutEnforced` leaves out tools registered with `register_sync_fn`: `Invoke`
  runs them to their end before the timeout is armed (compare
  `ftooling/README.md:120`, "enforces per-call timeout").
- `ContractKept` leaves out what Findings 1 to 4 are about: PostgreSQL with other
  writers, a crash between removal and rename, and a write of SQLite that fails
  after its first statement (the four violated runs have these cases).
- `KeptIsSaid` promises the calls of responses that tell them apart. A call that is
  named late, or over the websocket in some of its deltas only, leaves an extra call
  under a placeholder id, which is run as a tool (`transport.rs:252`,
  `responses_ws.rs:307`); and over SSE, calls without an index are all taken for the
  first and become one (`transport.rs:246`). It also speaks of streams that end:
  a chunk that ends within a multi-byte character   fails a stream that has no
  fault (`CutsCharacter`).
- `CompleteMeansFinished` leaves out SSE: a body that ends before `[DONE]`
  completes the response with what has arrived (`BodyEnds`).
- `ExpiryIsFinal` begins with the first call that is refused. A call that read the
  clock before the expiry, and waits for the mutex beyond it, is still shown the
  secret (`credentials.rs:339`).
- `AuditBalanced` allows one secret that was shown and not accounted for: its
  closure panicked and poisoned the mutex (`credentials.rs:473`).
- `OwnFrames` lets a request read what a dropped or failed one with the same
  credentials left on the socket.
- `CompleteHeals` leaves out streams, which keep a socket they saw broken, and a
  pong that cannot be sent.

## Proofs

Each theorem holds for every value of the constants that the assumptions below
allow: any number of runs, clients, turns, calls, requests and threads, any
features, lists and messages. `PROJECT.json` lists them; each heading names the
module they are in.

### `HarnessProofs`

| Theorem | Statement | Invariant it rests on |
|---|---|---|
| `TypeCorrect` | `Spec => []TypeOK` | inductive as it stands, with the clause that `turn`, `validate` and `mark` have a current feature |
| `SessionNeverOverwritten` | `Spec => SessionKept` | `TypeOK`; every write is one of five (`SessionStep`), and each keeps the session (`WrittenKeeps`) |
| `NoEarlyCompletionHolds` | `Spec => []NoEarlyCompletion` | `GateInv` |
| `PassesOnlyWhenApprovedHolds` | `Spec => []PassesOnlyWhenApproved` | `ApprovalInv` |
| `TurnsWithinBudgetHolds` | `Spec => []TurnsWithinBudget` | `TurnInv` |
| `IncrementalScopeHolds` | `Spec => []IncrementalScope` | `ScopeInv`: what a run got approved is among what it took up, which its mode bounds |
| `NoFeatureTwiceHolds` | `Spec => []NoFeatureTwice` | `ListInv`, `WorkInv` |
| `SucceededIsTrueHolds` | `Spec => []SucceededIsTrue` | `GateInv`, `WorkInv` |
| `CleanHandoffHolds` | `Spec => []CleanHandoff` | `HandoffInv` |

`GateInv` is needed because a run declares completion from a list it loaded
earlier. It says that such a list is *behind* the session: same ids, and a feature
that passes in it passes in the session. That holds when the list is loaded and is
kept by every write, because writes only turn flags on (`PassedStays`); so a
complete list means a complete session. `ApprovalInv` adds that a run at `mark`
has an approval for its current feature, since the mark is written one step after the verdict.
`TurnInv` adds that turns used and retries left sum to at most one more than the
budget inside the turn loop, so that the three conditions of the retry test imply
both bounds. `WorkInv` ties what a run took up to what it validated and to what
passes in the session. `HandoffInv` counts the run's own checkpoints and entries
at each point of the run; what other runs append between them changes no count.

### `ChatTurnProofs`

| Theorem | Statement | Part of the invariant it rests on |
|---|---|---|
| `TurnTyped` | `Spec => []TypeOK` | a turn has said no more messages than the rounds it began |
| `BoundedRequestsHolds` | `Spec => []BoundedRequests` | `BudgetInv`: requests made are at most `MaxAttempts` for each round before this one, plus the attempts of this one |
| `WholeTurnsHolds` | `Spec => []WholeTurns` | `TogetherAt`, with `TranscriptInv` |
| `PersistedOnceHolds` | `Spec => []PersistedOnce` | `TranscriptInv`: only turns that reached the store are in the transcript, no message is in it twice, and a stored turn is there in full |
| `HistorySeesFinishedHolds` | `Spec => []HistorySeesFinished` | `HistoryInv`: a turn that loaded has seen every turn that had finished, which stays finished |
| `ResultsAnswerCallsHolds` | `Spec => []ResultsAnswerCalls` | while tools run, the results are those of the first calls of the response, in order |

Its lemma `StepMoves` reduces the actions to eight ways a turn can move
(`Moves`); the transcript and the history are argued from these, the budget and
the results from the actions.

### `SessionStoreProofs`, `SqliteProofs`, `BackendProofs`

`SessionStoreProofs` is about the contract alone: `StoreTyped`,
`CreatedOnceHolds`, `AcknowledgedKeptHolds`. The properties speak of calls that
were answered, but a call is answered after it took effect; the invariant
`StoreInv` says of calls that are `done` what the properties say of those in
`acked`, and is kept because what one call does, no other undoes (`ApplyKeeps`).

`BackendProofs` proves `ContractHolds` (`Spec => ContractKept`): in every
deployment that is promised the contract, each step of the backend is a step of
`SessionStore` under the refinement mapping, or changes nothing the mapping shows.
Calls may fail there, except that SQLite does not interrupt a write of several
statements that has begun (`sqlite_interrupt` does, and the contract is lost).
One invariant per backend (`PromiseInv` chooses it):

- in memory: the two specifications are the same;
- files: who holds a draft computed it from the state the file holds, and nobody
  else writes (one lock); a removed file leaves the draft as what is shown;
- PostgreSQL: a draft is what the call makes of the row, since either one client
  alone writes, or all writers lock a row that exists;
- SQLite in one process: `TablesInv` and `RunInv` of `SqliteProofs`. A call in
  the middle of its program has executed a prefix of it, nobody else is in the
  middle of one (`OthersWait`), and the tables completed with what is left are
  what the first statement showed (`SeenStep`).

`SqliteProofs` also proves `SqliteTyped`, in one process or several,
interrupted or not: the tables are a session between any two statements, row ids
are unique, and a call under way has statements left.

Several processes that may die between any two statements do not keep the
contract. `ProcessesCreateOnce` and `ProcessesKeepAcknowledged` show what they do
keep, from `ProcessInv`. *Who* creates is decided by the claim of the session row,
statements before its caller can be told, so the invariant is about the creator
rather than about answers: its claim stays, nobody else goes past a claim, and
the list in the table is the one it inserted so far (`CreatorInv`). The list can be
cleared only by a creator that inserted nothing yet, and then it is empty anyway
(`EmptyInv`), so marks are not lost; and what the statements of a call wrote is in
the tables before, and after, the call is answered (`KeptInv`). No step is
atomic with another here, so the invariant says of each client how many
statements it executed (`At`).

`CreatedOnceHolds` and `AcknowledgedKeptHolds` of `BackendProofs` are about every
deployment: they follow from `ContractHolds` and the theorems about the contract,
instantiated with the refinement mapping (`Kept`), and where several processes
share a file from those of `SqliteProofs` (`ManySqlite`). `TypesHold` is the type
invariant of all deployments together, from the same invariants and `TypedInv`,
which adds what they leave out.

`LoadsBackHolds` is proved from `RecordInv`: what is stored are the *codes* of
what was told, piece by piece, and each decoder undoes its encoder (`TimeBack`,
`StatusBack`, `RoleBack`, `CheckpointBack`, `PlanBack`), for any instants, plans,
checkpoints and roles.

### `ObservabilityProofs`

All are about the `Spec` of `Observability`, hence about tools, requests and
phases *with* an observer, who may end an operation early: `ToolTypeCorrect`,
`HookOrderHolds`, `TimeoutMeansUnansweredHolds`, `NeverStuckHolds`,
`AuthFreshHolds`, `BalancedHolds`.

`CallInv` says at each point of a tool call which hooks it has called, and that it
has no result before it returns. `StoredSendable` says that what is stored, and
what a turn is about to store, can be sent (only a system prompt can bring what
cannot); `SinceInv` that an attempt began at a version that is not ahead of the
credential; `OpenInv` that a turn under way has no outcome. `Balanced` is
inductive with these: its sums over calls, requests and phases change by the one
operation that a step moves between open, ended well and ended badly, and each
such move calls the one hook that tells of it (`Effect`, `SetEffect`).

### `ProviderProofs`

`Credentials` and `WsConnection` share nothing; their theorems are in one module,
which is why `Credentials` has `CredentialInit`, `CredentialTypeOK` and so on.

`CredentialsTyped`, `UsesAreCounted` from `CredentialInv`, and `ExpiryStaysFinal` from
its part `RefusedInv`: a secret that was refused is no longer there.
`AuditBalances` from `AuditInv`: events are decided under the mutex and told after
it is freed, so what balances in every state is what was *decided*, told or not;
the property follows in the states where nothing is on its way. The one secret whose
closure panicked is the difference it allows (`Panicked`): it is one, because
nothing is shown once the mutex is poisoned.

`WsTyped`, `FramesAreOwn` from `WsInv`: only the holder of the mutex reads or
writes; what is on the socket was sent with the credentials the socket has, by the
request that reads it or by one that ended, in which case some request with these
credentials was dropped or failed (`LeftInv`). `CompleteHealsAlways` is an action
property, from the same invariant.

### `ProviderStreamProofs`

`StreamTyped`, `WhatIsKeptWasSaid`, `MilestonesAreLast`, `CompleteIsFinished`, for
responses of any length, from `StreamInv`. Its parts follow what is true while
items are handled, where the properties speak of the end. The transport's text is
the text said so far, and the turn has some only if there is some (`TextInv`). As
long as the server tells its calls apart (each named in time and, over SSE, indexed
unless it is the first), the transport and the turn have exactly the
calls said so far, each under its own id with its arguments so far (`CallsInv`); a
complete response is what was said (`FinalInv`), so that nothing is lost when the
turn replaces what it has. What is said so far is listed by rank (`Listing`), so
that one more item appends one more number (`ListingGrows`), without a recursion.

### Assumptions

They are those of the modules, which TLC evaluates in every run:

- harness: run ids are not reused, sessions start empty or initialized and not
  worked on, features of a request and of the starter list are records, the policy
  passed `RunPolicy::validate`;
- limits are natural numbers with at least one attempt; synchronous tools are
  registered; calls and phases that are observed are finitely many;
- `ClientAssumption`: a client's arguments are of the right types and
  `NoManifest` is no client; `FileAssumption`, `RowAssumption`: the values for no
  file and no row are no sessions, and a PostgreSQL session without a row is empty;
- `DeploymentAssumption`: in `postgres_writer` at most one client has operations
  that write, in `postgres_initializers` clients initialize or read;
- `ProcessAssumption`: SQLite clients of *several* processes do not replace the
  feature list, and at most one of them appends to the transcript;
- `RecordAssumption`: records have the types of the structs; a plan is there or not;
- websocket: every request has credentials; streams: calls are positive numbers, as
  a call without a name has one that is not.

### Only model-checked

- what the four violated runs show;
- liveness (`RunEnds`, `TurnEnds`, `TimeoutEnforced`, `EveryRequestEnds`) and
  `ENABLED`, which are out of the prover's reach, as is induction over data.

## What is not modelled

- Typed tool arguments (`ftooling/src/args.rs`), the provider registry, fcommon
  and the facade: no state of their own or no concurrency (see `components`).
- Model listing, and how other adapters map the chunks of a stream onto events: the
  transports they share are modelled, their own code has no state.
- Finish reasons and usage of responses; labels and durations of metrics; the
  length of a backoff.
- A turn at the provider and a turn in the store at once: `ChatTurn` has turns
  that overlap and abstracts the request, `ProviderCall` has the request and turns
  that follow one another.
- Several processes on one directory of the filesystem backend, and several
  processes that replace SQLite feature lists: nothing in the repository does so.
- Loss of committed SQLite transactions at a power failure (`synchronous =
  NORMAL`): a process that dies loses none.
- Closures given to `with_api_key` or `with_browser_session` that call the manager
  again: they would wait for the mutex they hold.
- Texts, metadata and the details of manifests beyond their init plan.

## Plan

Done, in this order: the harness and its proofs; the contract of the backends
and the four of them; chat turns; tools; credentials; the websocket; streamed
responses; records and what is read back; requests, retries and their hooks;
observers, composed with tools and requests; the proofs about chat turns, tools
and requests; the rest of the harness; the contract, what it is worth and who
keeps it; records; observers; credentials; the websocket; what a turn keeps of a
stream.

Next, modelling:

1. Compositions: `Harness` on `SessionStore` with a refinement mapping; `ChatTurn`
   and `WsConnection` with `ProviderStream`.
2. An abstract specification of a harness run (start, work, declare) that
   `Harness` implements.
3. The backoff of `RetryPolicy` over bounded integers.

Next, proofs:

Every safety property of the passing runs is proved. What is left goes with the
modelling: the steps of the refinements of items 1 and 2, and the invariants of
the compositions. The backends outside their deployments (PostgreSQL with several
writers, files that fail between removal and rename) have violated runs; what
still holds there could be stated and proved.
