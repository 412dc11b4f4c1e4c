# Verification of prefix-safe-json

prefix-safe-json turns the streamed output of a language model into tool calls and
answers one question about each: *may this call be executed?* It parses arguments
while they arrive, coordinates the events of many calls, collects evidence against
them, and hands out the authority to execute a call at most once. This directory
holds TLA+ specifications of its core, of its provider adapters and of the guarded chat
built on them, TLC configurations that check them on small
instances, and TLAPS proofs. Paths like `src/coordinator/coordinator.ts` are relative
to the root of the repository.

## 1. The system

```
 provider chunks --> adapter --> gate.push --> coordinator.push --> parser.push (per call)
                     (providers/)   |               |                 decoder -> scanner -> grammar stack
                        |           |               |                 events -> bounded queue
                  provider guard    |          provider_stream_end: parser.finish, validator
                   (guard/)         |               |
 caller <-- takeDecision <-- finish <-- decideExecution(call, diagnostics, reason)

 SDK --> guardedFetch --> guardResponse: pull / cancel / abort      (packages/ai-sdk)
                             |  text prefix: released event by event
                             |  the rest: held, inspectWire at the end (adapter + gate),
                             |  application validators, onCapture (recorder), commit, onDecision
 SDK --> wrapped execute <-- authorities
```

Everything under `src/` of the main package is synchronous: nothing runs unless the
caller calls it, and calls of the public methods are atomic with respect to each other.
What makes it hard is the *order* of events (providers interleave calls, repeat
themselves, and report trouble late or early) and the number of ways in which a stream
can end. `packages/ai-sdk` is asynchronous: a response is read, validated, recorded and
committed across awaits, while the caller may abort, the consumer cancel, a callback
hang or throw, and the SDK go on to the next response.

| Component | State | Operations | What makes it correct |
|---|---|---|---|
| execution gate, `src/gate/gate.ts` | captured stream-end reason, frozen result, consumed ids | `push`, `snapshot`, `finish`, `takeDecision`, `drainEvents` | authority only after `finish`, once per call, revoked by late evidence |
| decision table, `src/gate/decide.ts` | none | `decideExecution` | every disqualifier is looked at, in an order that hides nothing worse |
| coordinator, `src/coordinator/` | call table, diagnostics, pending protocol diagnostics, event budget, end of stream | `push` of nine event types, `finish`, `drainEvents` | evidence about a call stays with it, whenever it arrives; calls do not affect each other; refused events stay on record |
| incremental parser, `src/parser.ts` | phase, flags, diagnostics, limits | `push`, `snapshot`, `drainEvents`, `finish` | executable iff the input is exactly one JSON text and the stream completed; no result depends on how the text was cut |
| grammar stack, `src/grammar/` | frames with expectation and keys | push, pop, `registerObjectKey`, `canSafelyCloseAll` | accepts JSON with unique keys within the depth limit |
| lexer, `src/lexer/` | pending token | `feedChar`, `takeTokens`, `finalizeNumber`, `finalizeLiteral` | accepts the tokens of RFC 8259, and refuses nothing else of them |
| semantic builder, `src/semantic/` | event queue, stable value | `enqueue`, `drain` | bounded; an overflow is never silent |
| UTF-8 decoder, `src/utf8/` | incomplete character, byte order mark | `decode`, `hasIncomplete` | no invalid byte is replaced; chunk boundaries do not matter |
| provider adapters, `src/providers/` | ids seen, open calls and blocks, finish reasons per choice | `push`, `finish` | a call whose raw stream was out of order, cut off or ended badly never executes, and one whose stream was in order does |
| provider guards, `src/guard/` | an adapter and a gate | `push`, `finish`, `takeDecision` | every normalized event reaches the gate before the caller can act |
| guarded chat, `packages/ai-sdk/src/{index,wire}.ts` | authorities per call id, inputs approved, the locals of each response | fetch, `prepareStep`, `pull`, `cancel`, abort, `execute` | a batch becomes executable as a whole or not at all; a late answer grants nothing; the application hears what happened |
| response recorder, `packages/ai-sdk/src/recording.ts` | two files per response | record, `replayRecording` | a crash leaves nothing that replays to a false verdict |
| validation, execution lock, harness, conformance kit, scripts | | | section 6 |

Interactions: the gate owns one coordinator and reads its calls and diagnostics; the
coordinator owns one parser per call and calls `push`, `drainEvents` and `finish` on
it and the tool's validator once. The gate never sees parser state, only the status,
`executable` and `schemaValid` the coordinator derived from it. A guard owns an adapter
and a gate and passes the normalized events of one from `push` to `push`. The guarded
chat builds an adapter and a gate of its own for each complete body (`inspectWire`), and
shares the table of authorities between all responses of one chat.

The hard behaviours, line by line, are the hazards in `PROJECT.json`.

## 2. Modules

| Module | Models | Style |
|---|---|---|
| `Diagnostics` | `diagnostic-codes.ts`: the classes of codes | constants |
| `ArgumentParser` | what the coordinator relies on of the parser: seven summaries, the moves `push` may make between them, the answers `finish` may give | operators; the abstract specification of `JsonParser` |
| `ToolCallCoordinator` | `coordinator.ts`, one action per event type and per way to refuse an event | state machine without `Next`: the gate drives it |
| `DecisionTable` | `decide.ts` | operators |
| `ExecutionAuthority` | what a gate promises: pending, granted or refused, taken | abstract state machine |
| `ExecutionGate` | `gate.ts` over the coordinator; refines `ExecutionAuthority` | state machine `Spec` |
| `ExecutionGate_proofs`, `CallHistory_proofs` | theorems about the gate and about what becomes of a call | proofs |
| `MCGate` | instances of the gate | TLC |
| `JsonParser` | `parser.ts` with `grammar/stack.ts` and the queue bound of `semantic/builder.ts`; implements `ArgumentParser` | state machine `JsonSpec` |
| `JsonParser_proofs` | theorems about the parser | proofs |
| `MCJsonParser` | instances of the parser and the JSON grammar as the reference | TLC |
| `Scanner` | `lexer/scanner.ts`, every state of `feedChar` | state machine |
| `Utf8Decoder` | `utf8/decoder.ts`, chunk by chunk; RFC 3629 as the reference | state machine |
| `FrameSplitter` | the byte loop of `guardResponse` that finds the display prefix | state machine |
| `MCText` | instances of the decoder, the splitter, the scanner and the parser: a behaviour runs one of the four | TLC |
| `ProviderGuard` | `guard/provider-guard.ts`: an adapter in front of `ExecutionGate`; what all adapters share | state machine, extended by the adapters |
| `OpenAICompatibleAdapter`, `OpenRouterAdapter`, `OpenAIAdapter`, `AnthropicAdapter`, `AiSdkAdapter`, `GeminiAdapter` | one file of `providers/` each | `push` and `finish` as functions from fields and a raw event to fields and events |
| `ProviderGuard_proofs`, `AnthropicAdapter_proofs`, `AiSdkAdapter_proofs` | lemmas for the guard with any adapter; theorems about the guards of an Anthropic and of an AI SDK stream | proofs |
| `MCAdapters` | any of the adapters and the guard | TLC |
| `BatchRelease` | what a guarded chat promises: what was read of a response is released all together, whole and once, or never | abstract state machine |
| `FileRecorder` | `recording.ts`: how far the two files got, and what a replay says of them | part of `GuardedChat` |
| `GuardedChat` | `index.ts` and `wire.ts`, one action from one await to the next; refines `BatchRelease` | state machine `Spec` with fairness |
| `GuardedChat_proofs`, `ResponseOrder_proofs` | theorems about the guarded chat and about the order of one response's steps | proofs |
| `MCGuardedChat` | instances of the guarded chat | TLC |

Definitions with a comment "Mutant of X" are faulty variants of `X`: each
property that a run checks is violated when one of them takes X's place.

### Gate, coordinator and decision table

A state of `ExecutionGate` is the coordinator's call table and diagnostics plus the
gate's five fields. `calls[k]` is the `CoordinatorCallState` of source key `k`: its
status, identity, length of its name, parser summary, whether the provider ended it,
and, once settled, `executable` and `schemaValid`. Diagnostics are sets of codes, kept
apart by what they are about as the code does with `internalId` and `sourceKey`:
`callDiagnostics`, `sourceDiagnostics` (a key without a call) and
`streamDiagnostics`. The one thing the code's list has and the sets have not, order
and repetition, is read nowhere.

`push` is `Push`: any coordinator event in any order, including those that an adapter
would not send; `PushRejected` are the two early returns (after the end of the stream,
over `maxNormalizedEvents`), `PushEnd` the end of the stream with its conflict check.
`EndStream` is `handleStreamEnd` with `finishCall` for every collecting call; the
parser's and the validator's answers are chosen from what they may return (the
validator's from the constant `ValidatorAnswers`; the guards run without schemas).
`Finish` and `TakeDecision` are the gate's methods; `snapshot()` is the operator
`Decision`. `released` and `rejected` are observers that no action reads.

Left out: messages, byte offsets, argument values, the coordinator's outgoing event
queue except for the verdict in `tool_call_finished`, and `maxRawBytes`-like data that
no decision depends on.

### JSON parser, scanner and decoder

In `JsonParser` one action is one character, or a run of characters that changes no
control state: the inside of a string, further digits, blanks. That is sound because
`push` keeps nothing between two characters of a chunk that it does not also keep
between two chunks, with one exception that is modelled: a chunk may end inside a
multi-byte character (`PartialCharacter`). `DrainEvents` may happen anywhere. The record
`parser` carries the fields of class `Parser`, the stack of frames, the scanner's state
and the length of the event queue. For a number or literal the scanner is summarised by
what the end of the input would make of it (`number_open`, `number_ok`, `number_bad`,
`literal_open`, `literal_ok`), and may reject in any state. `text` is an observer: the
sequence of tokens that were fed, with `"bad"` for anything that is none.

`ArgumentParser` and `JsonParser` are tied together: `Summary` maps the state of the
detailed parser to a summary, and `ImplementsSummary` says that each step is one
`ArgumentParser` allows. So what is proved about the gate rests on an interface that
the parser is proved to keep.

`Scanner` is the scanner itself: `feedChar` and the handler of every state, with the
escapes, the pending high surrogate, `maxStringBytes`, and `numberGrammarError` as the
code computes it. Characters that no handler tells apart are one class; a run of
one class inside a string is one step. `Utf8Decoder` works on bytes: each step is
`decode` of a chunk of up to `MaxRead` bytes, after which only an incomplete sequence
and the byte order mark are kept. `FrameSplitter` is the `for` loop of
`guardResponse` with `lineHasBytes`, `wasCR`, `holding` and the released prefix.

### Adapters and guard

An adapter is a record of the private fields of its class. `XxxPush(a, raw)` and
`XxxFinish(a, reason)` return the fields and the list of normalized events; the guard's
actions are `RawEvent` (a raw event is translated), `FinishAdapter` (the adapter's half
of `finish`), and `Deliver` and `FinishGate` (the gate takes the events one at a time, with
the coordinator's own actions). The events of one raw event are delivered before
another one is accepted, as the loop in `provider-guard.ts` does. A chunk with several
entries is as many raw events: the adapters handle entries one after another, and look
before each of them at what earlier ones did.

`evidence` is an observer. It records what the raw events *said*, from the
provider's format alone and never from the adapter's fields: which calls were announced, their
text, ids, ends, what came out of order. `CompatibleExecutesClean` and its siblings then
say, of a finished guard, that a call executes **exactly if** the raw stream speaks for
it. Both directions matter: that disorder costs the call is safety, that it costs no
other call, and that order is not punished, is what makes the library usable. Gemini
calls never execute by design; there the property is that disorder is on record.

### Guarded chat

`response[r]` holds the locals of `guardedFetch` and `guardResponse` for the `r`-th
request: `stage` is where `pull` is, `cancelStage` where `cancel` is, `answer` the state
of the `cancellable()` promise that `pull` awaits, `validation` and `recording` the
promises behind it, which outlive it. An action is the code from one await to the
next:

| Code | Actions |
|---|---|
| `guardedFetch` (index.ts:96-118), `prepareStep` | `Fetch`, `UnguardedAnswer`, `StreamAnswer`; `PrepareStep` |
| `pull` (wire.ts:133-193) | `Pull`, `ReadFrame`, `ReadFails`, `ReadInterrupted`, `ReadEnds`, `Validated`, `ReportedAllowed` |
| its `catch` (wire.ts:194-209) | `Throws`, then `ReaderCancelled`, `ReportedRefused` |
| `validate` (index.ts:125-149) | `ValidateCall` for each call, `ValidateReturns`, `Commit` |
| `cancellable` (wire.ts:54-69) | `Awaits`, `AnswerArrives`, `CallbacksAborted` |
| `cancel`, `abort` | `Cancel`, `CancelReports`, `CancelSettles`; `Abort` |
| `observe` and `createFileRecorder` | `RecordingStep` |
| wrapped `execute` (index.ts:83-89) | `Execute` |

The SDK starts a step when the stream of the one before is over for it: ended, failed,
or cancelled, while the `cancel()` it called may still be running. It may run any tool
with any id and input at any time. `inspectWire` is a verdict on the frames
(`Accepts`) and the calls in them (`decisions`); the adapter and the gate it uses are the
modules above. `disk` is how far each of the recorder's two files got; there is no step for
a crash, since every state of the disk is one a crash may leave, and `Survivors` adds
what a power loss may take from unsynced writes.

## 3. Runs

| Run | Instance | Shows | Distinct states |
|---|---|---|---|
| `gate` | three keys and a table of two calls, two ids, names missing, of the limit's length or over it, reasons complete and length, one protocol violation, one execution evidence, 5 events | authority is earned, one-shot, revocable; calls are isolated; evidence blocks before and after its call starts; settled calls are never upgraded; the event feed never promises more than the decision; the gate implements `ExecutionAuthority` | 0.74 M |
| `text` | decoder: 12 bytes at every boundary of RFC 3629, 5 bytes in chunks of up to 3; splitter: 7 bytes of lines and events; scanner: 6 runs, strings of up to 13 bytes; parser: two keys, depth 2, queue of 6, 11 characters, salvage and escape on | the decoder agrees with RFC 3629 however the bytes are cut; the display prefix is whole events; the scanner's tokens are JSON's; all JSON within the limits executes, what executes is JSON but for stray scalars, salvage only closes, the parser implements `ArgumentParser` | 2.53 M |
| `adapters` | two choices, three places, one id, a good and a bad finish reason (for Anthropic the good one), three answers of the caller; 6 (Anthropic), 3 (Gemini) or 4 (the others) raw events | a call executes exactly if its raw stream is in order, for five adapters; Gemini records disorder and never executes | 2.29 M |
| `guarded_response` | one response of 3 frames, two calls in two frames, recorder on for all | held bytes are shown only with the whole batch ready; the application is told what happened; recordings replay truthfully; a cancelled or aborted response settles | 0.04 M |
| `guarded_steps` | two responses of 2 frames, two calls in one frame, no recorder | authority is that of the latest response; the chat implements `BatchRelease` | 2.43 M |
| `attributed_execution`, `observed_execution`, `snapshot_execute`, `json_stray`, `number_grammar`, `unfinished_choice`, `forgotten_end` | instances as above, the same or smaller | one disagreement each between a document and the code (section 5) | |

Why the bounds are enough for the cases of interest.

- *Gate.* The code compares a call with itself, with "the stream" and with "some other
  call", never three; the third key is the one that finds the table of two full. A full
  life of a call is start, delta, end, end of stream; five events leave room for
  evidence about another key, before or after its start, or for a refused event. The
  limit of two bytes is reached by one name delta and exceeded by two. There is one reason
  of a good end and one of a bad one, and one code of each class the decision tells apart.
  What the run leaves out (further codes and reasons, salvage, tool indices, other
  limits) the theorems of section 4 cover: each of the run's properties is one, for all
  values of the constants.
- *JSON.* Depth 2 nests a container in a container of either kind and reaches the limit
  with the third; eleven characters hold an object with two members (one key repeated or
  not), an array of several elements, and a salvage after every expectation; the queue
  overflows, and `allDiagnostics` fills up, within these.
- *Text.* The bytes are the two ends of every range in the table of RFC 3629; five of
  them hold a character of four and the byte after it, and chunks of one to three cut it in
  every way. Six runs hold a number of every shape, an escape, and a surrogate pair.
- *Adapters.* A call that runs takes up to three raw events (start, text, end), of Anthropic
  five (with the stop reason and the end of the message), so the bounds leave at least one
  for the disorder, before, between or after. For Gemini three hold a call, its repetition
  and a finish reason. Further stop reasons of Anthropic, and more raw
  events of Anthropic and the AI SDK, are left to the theorems. The
  bounds that the raw events themselves obey: duplicated choice entries carry no
  `finish_reason`; OpenRouter and OpenAI-chat plural chunks carry no ids, which only the
  adapter behind the filter handles, and one call per choice; Responses deltas follow
  their `item_added`; for Anthropic one block takes deltas and others only start; for the
  AI SDK one call takes input and others only results.
- *Chat.* A batch of two calls shows a half-committed one; two frames of calls, one
  before the other is read, show bytes released early; a second response shows what
  is stale. With the recorder on, one response suffices, because the recorder's state is per
  response.

`CHECK_DEADLOCK FALSE` where the system may stop: a finished parser, guard, scanner or
chat does nothing more. Symmetry permutes keys, ids and indices where the
specifications only compare them for equality.

Fairness. The gate, parser, adapters and scanner never act on their own, and no caller is
obliged to call anything: no liveness is stated for them. `GuardedChat` assumes
`WF_vars(Continue(r))` for each response: once an await has settled, the event loop runs
what follows it. Weak fairness is enough because a settled promise stays settled. The
steps under fairness include that `reader.cancel()` settles, which `wire.ts` awaits at
197 and 216 without a deadline. Nothing is assumed of the provider, the SDK, the
validators, `onCapture` or the disk: these may hang for ever, and `CancelledSettles` and
`AbortedSettles` say that cancellation gets through nevertheless.

## 4. Proofs

For all finite or infinite sets of keys, ids, indices, codes and reasons and all limits:

- `ExecutionGate_proofs`: `TypeCorrect`, `ExecuteIsEarnedAlways`,
  `EarlyViolationBlocksAlways`, `RejectedPushBlocksAllAlways`, `TakenWasReportedAlways`;
  `EvidenceNeverAuthorises`: the decision table is monotone, adding diagnostics never
  turns another decision into `execute`; `GateImplementsAuthority`, the refinement of
  `ExecutionAuthority`.
- `CallHistory_proofs`: `CleanCallExecutesAlways`, `FinishedEventAgreesAlways`,
  `SettledNeverImprovesAlways`. With these every property of the gate run is a theorem.

For any number of responses, any ids, inputs and frames, and any mode of the recorder:

- `GuardedChat_proofs`: `ChatTypeCorrect` and `AuthorityIsCurrentAlways`.
- `ResponseOrder_proofs`: `HeldUntilBatchReadyAlways`, `ToldWhatHappenedAlways`,
  `ReplayIsFaithfulAlways` and `ChatImplementsBatchRelease`, the refinement of
  `BatchRelease`. With these every safety property of the chat's runs is a
  theorem.

For any keys, end reasons, limits and repair options:

- `JsonParser_proofs`: `JsonTypeCorrect` and `ParserImplementsSummary`, the
  refinement of `ArgumentParser`.

For any number of calls, raw events, ids, argument pieces and end reasons of the stream of
an AI SDK (`Sdk`) and of Anthropic (`Anthropic`):

- `AiSdkAdapter_proofs` and `AnthropicAdapter_proofs`, with the same five results:
  `…ImplementsGate`, the guard implements `ExecutionGate`, so the theorems above hold of it;
  `…Invariant`; `…RunsOnlyClean`, what may run is clean in the raw stream, at any time
  between two calls of the guard; `…RunsExactlyClean`, after `finish()` the calls that may
  run are those that are clean and that no limit of the coordinator refused;
  `…ExecutesCleanAlways`, the property of the run.

Assumptions, all evaluated by TLC in the runs: `CoordinatorAssumption` (limits are
naturals, absent values differ from ids, codes are codes), `ReasonsAssumption`,
`CloseContainersAssumption`; `ResponsesAreCounted`, `FramesOfCalls`, `NoneIsNoGrant`,
`BufferedIsSwitch`; `ParserAssumption` (limits are naturals, keys are no punctuation);
`GuardAssumption` (finitely many keys, each unlike the name of the whole message, and the
reasons a guard gives by itself are reasons), `SdkAssumption` and `AnthropicAssumption` (the
adapters' codes and reasons are among those in use). The two theorems `…ExecutesCleanAlways`
have one hypothesis more, `SdkRoom` and `AnthropicRoom`: the limits of the coordinator have
room for the stream, that is, for every call that it may start, for two (Anthropic: four)
events per raw event and one for `finish()`. The run's limits (3 calls and 99 events for 4
or 6 raw events) have it, and so do the code's defaults (128 and 100000) for any stream up to
that size. The theorems before them need no such hypothesis: they say what the limits do
instead.

**The gate.** The argument is the inductive invariant `GateInv`. None of the properties
is inductive alone. A call executes because of what `decideExecution` reads *now*, while
its history was recorded by earlier actions; the conjuncts connect the two:

- `CompleteIsEarned`: a call of status complete was ended by the provider, named,
  free of errors when it was settled, and its parser closed under the reason the
  coordinator recorded (`ExecuteIsEarned`);
- `ViolationsKept`: a violation reported about a key is pending until the call starts
  and among the call's diagnostics afterwards (`EarlyViolationBlocks`);
- `RejectionRecorded`: a refused event left a stream-wide code
  (`RejectedPushBlocksAll`);
- `CapturedOrLimited`: the gate's captured reason is the coordinator's unless a refusal
  is on record, which is why gate and coordinator agree whenever a call executes;
- `FinishSettles`: once `finish` returned nothing is collecting, and a call that is
  executable now was executable in the frozen result (`TakenWasReported`, and the
  refinement: authority is only ever withdrawn);
- `ReasonMarksFinish` and the type invariant.

`HistoryInv` adds, per call, `CleanHistory` (an ended call without a diagnostic is named
and still collecting until the stream ends, and complete and executable after a good
end) and `EventHistory` (an executable call's `tool_call_finished` said so).

**The chat.** `ChatInv` is `TypeOK` with three conjuncts. `FetchedInOrder`: every response
but the one fetched last is over for the SDK, and later ones are unsent; so whoever still
awaits a validator or a recorder without having been cancelled is the current response.
`GrantsAreCurrent`: a grant is found under its own id, and its response is the current one
and closed; so when a response commits, nothing else is granted, and the new grants are
not added to an older batch. `ExecutedAreSpent`: a grant that
ran comes from a closed response and is in no table any more; so nothing runs twice. Each
action of a response is first shown to be either a *progress* (closed stays closed, over
stays over, the outcome stays or becomes refused, authority is kept or revoked) or to
*allow* the response; the invariant is then proved from these two shapes.

**One response.** What the SDK sees, what the application hears and what is on disk are
written by different actions, some of them by promises that outlive the stream they
served. `OrderInv` says of each response that its steps come in order, whoever
interrupts: `ReadInOrder` (before anything is held all that was read is plain text, and
what went out before the end is text), `ValidatedInOrder` (validation runs on a complete
accepted body, and what it accepted so far is a prefix of the calls), `RecordedInOrder` (the
recorder hears once, "allowed" only of what validation returned, and no response closes
before that) and `DecidedInOrder` (where the stream of a response stands, whether it was
cancelled and what the application was told go together).
`HeldUntilBatchReady` and `ToldWhatHappened` follow from it. `RecordsInv` adds that
nothing is on disk before the recorder was told, from which, with what `Survivors` may
take, `ReplayIsFaithful` follows.

The refinement of `BatchRelease` needs both halves. There `Allow` grants exactly the calls
that were read of the response (`offered`), each under its own id. `OrderInv` gives that of a
response about to commit: its validation has returned, so its pending calls are all of its
decisions, with distinct ids. Only `ReadFrame` changes the calls of a response
(`SameCalls`), before it can commit, and that step is `Offer`; a progress is a revocation, a
run of a call or a stutter.

**The parser.** `ImplementsSummary` is not inductive: what `finish` answers depends on
facts that `push` keeps. They are `Collected`: an error other than a duplicate key has
stopped the parser, so has a fatal or limit diagnostic, nothing is pending behind a
complete root value, nothing was closed by a repair yet, and a byte order mark cannot be
found behind a root value. Two facts about the token handlers carry it: they keep the
parser sound (`Handled`), and a value that ends is the root or leaves a container open
(`ProcessHandles`), so a parser in which a value began never looks empty again. `Grows`
collects what `push` never takes back, and `SummaryGrows` shows that these are the moves
of `PushArguments`. The end of input is a case analysis over what is pending
(`FinishAnswers`).

**The AI SDK guard.** `SdkExecutesClean` compares three accounts of one stream: what the raw
parts said (`evidence`), what the adapter remembers (`started`, `ended`, `finished`) and
what the coordinator was told, each of which is behind the one before while an event waits
in `emitted`. `SdkImplementsGate` first lets everything proved of the gate be used. Then the
parts are sorted into eight kinds by what follows from them (`SdkPart`), and `SdkInv` has one
conjunct for each way a stream can go:

- `FaultKills`: a fault of the stream (content after the end, an error, an abort, an
  unattributable result) has killed it, which is a code or a reason at the coordinator under
  which no call runs, or the event that will do so is next;
- `ToldAsSaid`: a stream with neither is told as it was said. Between two parts the record of
  every call agrees with the evidence (`Agrees`); while an event about a call waits, the
  others agree and that one will once it is delivered (`AgreesAfter`); and how the stream
  ended is what the adapter made of its last part or of `finish()` (`Ending`, `Ended`);
- `DeadAsSaid`: a stream that is dead without a fault said so itself, or ran into the
  limit of events. Without it the invariant would allow a guard that kills every stream, and
  only the safe half of the property would follow.

`Tidy` connects the record of a call with its diagnostics: a call that nothing disqualifies
has none. There is one lemma per kind of part (what it *tells*) and per kind of event (what
is *delivered*). A call that the call limit refused is exempt, and stays so, since calls are
never removed from the table. `RoomInv` counts events to show that there is none under
`SdkRoom`.

**The Anthropic guard.** One raw event may leave several normalized events to be delivered:
a block that reuses an id is announced, and both it and the id's first owner are accused;
content after the stop reason disqualifies the stream and is passed on all the same. What
the coordinator knows is then several steps behind what was said. `ProviderGuard_proofs` therefore states what it *will* know of a key
once all that waits is pushed (`KnownSoon`, `DirtySoon`, `TextSoon`, `EndedSoon`, `IdSoon`)
and proves, for any adapter whose events come in the order of `InOrder`, that a delivery
changes nothing of it (`Foreseen`). `Accounted` is the invariant in these terms: a fatal
word kills the stream or is next to; a stream with neither is foreseen as it was said
(`Heard`); a stream that died without one ran into the limit of events or was said to end
badly. `AnthropicInv` is `Accounted` with what Anthropic's events say (`Fatal`, the blocks
that started, `Disqualified`, `Said`), and `FieldsAgree`: the adapter's fields are what was
said, among them the id tracker, whose owners and conflicts are those that the evidence
names. Each kind of raw event is one lemma: its `News` of a key, that is, what
the evidence gains is what the events left to push will tell.

Model-checked only:

- `ValidTextExecutes`, `ExecutableUpToStrays`, `SalvageOnlyCloses` of the parser,
  `LexesOnlyJson`, `RefusesOnlyGarbage`, `DecodesAsWhole` and `DisplaysWholeEvents`
  compare what a machine made of a whole text with a grammar of it, by recursion over the
  text: induction over data, and in `Utf8Decoder`, `FrameSplitter` and `MCJsonParser`
  over recursive operators, which the prover cannot do.
- `CompatibleExecutesClean`, `OpenRouterExecutesClean`, `OpenAIExecutesClean` and
  `GeminiRecordsDisorder`: their proofs would have the shape of Anthropic's, with
  `ProviderGuard_proofs` for the guard's half and more kinds of raw event for the
  adapter's. They are left for lack of work, not of means.
- `CancelledSettles` and `AbortedSettles`, liveness under fairness.

## 5. Findings

| Run | Disagreement |
|---|---|
| `attributed_execution` | evidence of execution that names a key before its call starts blocks neither the call nor the stream |
| `observed_execution` | a later identity conflict overwrites the status of a call whose execution by the SDK was observed, which is documented as permanent |
| `snapshot_execute` | `snapshot()` reports `execute` between a pushed end of the stream and `finish()`, which is documented as the only source of that decision |
| `json_stray` | a scalar where an object expects a key, colon or comma is dropped silently, and `{1}` is executable |
| `number_grammar` | a number with a bare decimal point before its exponent (`1.e5`) is a token, although the comment beside the check says such numbers are refused |
| `unfinished_choice` | the call of a choice that never ended executes when another choice ended well |
| `forgotten_end` | a bad `finish_reason` that precedes the first plural tool call is forgotten by the OpenAI adapter |

Observations without a run, made while modelling:

- *Coordinator.* `maxToolNameBytes` is not applied to a name that the start event
  brings whole (coordinator.ts:270).
- *Parser.* A queue that overflows inside `finish()` leaves the result executable
  (parser.ts:566). `E_LIMIT_EVENT_QUEUE` does not go through `addDiagnostic`, so an overflow
  inside `push` is called malformed instead of `resource_limit`. With
  `closeContainersAtFinish` an empty text is "salvaged" although nothing was closed, and
  the first bytes of an unfinished character are dropped by a salvage.
- *Scanner.* An escape or a wide character may overshoot `maxStringBytes` by its own
  length.
- *Adapters.* Malformed events and invalid tool indices (`E_PROVIDER_EVENT_MALFORMED`)
  disqualify nothing. In the OpenAI adapter a doubled choice that carries a
  `function_call` does not commit the stream to the legacy format, and a legacy
  `function_call` after its choice's own `finish_reason` still starts when it is the first.
  Deltas of Anthropic and Responses streams that precede their start are dropped. In the AI SDK adapter a tool result that arrives
  before its call starts does not block the call.
  A repeated `arguments.done` without deltas makes the text trailing, which fails closed.
- *Chat.* `onDecision` may hear "allowed" and then "refused" of one response; the
  recorder may have stored "allowed" for a response that is cancelled afterwards.

## 6. Not modelled, and what is left

- *Validators* (`src/validation/`): total functions of a value; the coordinator lets them
  answer either way. Their code is shape checking without state.
- *AI SDK execution lock* and the typed guard's checks: object surgery without protocol state.
- *Values and paths* of the semantic builder, byte offsets and messages: data that no
  decision reads. A limit of `NaN` (`coordinator.ts:163`), which disables a check, is
  not a number the models have.
- *Regression harness, conformance kit, command lines, scripts, corpora, examples*: loops
  over files, around the library.
- *Option checks* of `guardedChat` and the request checks of `guardedFetch` beyond their
  refusal.

Left in the plan: theorems for the other adapters, beginning with `CompatibleExecutesClean`; a second
call with input in the AI SDK's run and ids in OpenRouter's, when larger instances pay.
