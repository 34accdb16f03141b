# GrammarForge in TLA+

A verification development for GrammarForge, the local grammar checker of this repository: a Go
**bridge** (fast checkers and a language model behind one REST service) and TypeScript **clients**
(browser extension, Vencord and OpenCode plugins). The modules here model the parts whose
correctness depends on order, concurrency and failure; TLC checks them on small instances and
TLAPS proves the main safety results for every value of the constants.

Paths below are relative to the repository; line numbers are in `PROJECT.json` (`map`).

## 1. Inventory

### Bridge (Go, `bridge/`)

| part | state | operations | what makes it correct |
|---|---|---|---|
| LLM clients (`internal/llm`) | one circuit breaker per client: state, failures, openedAt, probing | `Complete`, `CompleteN`, `executeWithResilience` | a dead backend is not piled upon; no path leaves the breaker stuck; it closes again |
| correction service (`internal/correction/service.go`) | sentence LRU, singleflight group | `Correct`, `correctOnce`, `finalize`, `CorrectStaged`, `Signal` | suggestions belong to the request's text and offsets, however they were shared or cached; known words are not edited by themselves; degraded, not failed, without the model |
| suggestion algebra (`diff.go`, `routing.go`, `overedit.go`, ...) | none | diff, merge, escalation policy, over-edit repair, dedup | applied last to first, suggestions do not overlap; order of checkers does not matter |
| reject suppressor, calibrator (`suppression.go`, `calibration.go`) | snapshot, its age, a refreshing flag | `Suppressed`, `Calibrated`, background `refresh` | never blocks; one refresh at a time; never goes back; catches up |
| personalization block (`internal/personalization`) | snapshot, its age, a mutex | `Snapshot` | bounded wait; the store is not hammered; never goes back; catches up |
| user dictionary (`internal/dictionary`) | words in memory, modification time, the file | `Add`, `Remove`, `Words`, `Contains` | memory and file agree whenever the time says so |
| Harper binding (`internal/harperffi`) | C handles, a watcher goroutine | `Correct`, reload, `Close` | no leak, no use after free, the newest words are loaded |
| GECToR, semantic verifier, thesaurus | a session behind a mutex, tables | inference, lookups | pure given their model |
| store (`internal/store`) | SQLite: corrections, edits, signals, tone | log, aggregate, prune | the last reaction to an edit counts |
| REST, LanguageTool and gRPC servers | none | decode, call, encode, stream | cancellation reaches the service; preview frames precede the answer |
| prompt builder, config, `main.go` | sources wired at start | `Build`, wiring | what enters the prompt enters the cache key |

### Clients (TypeScript, `clients/`)

| part | state | operations | what makes it correct |
|---|---|---|---|
| content script (`browser/src/entrypoints/content`) | per field: items, check number, abort controller, last applied edits; runtime: client, signal queue | attach, input, check, apply, apply all, undo, dismiss, pause, settings change | an old answer never replaces a newer one; an edit is applied only to the text it was made for; undo restores it |
| signal queue (`browser/src/signal/queue.ts`) | buffer, timer | enqueue, flush, final flush, requeue | reactions arrive, in order, and not only until the settings change |
| transport (`browser/src/background`, `api/`) | requests in flight by id | relay, cancel, time out | each request is answered once or cancelled |
| overlay, settings | CSS highlights of editable fields; DOM handles | paint in parts; render | what is painted is what the items come to |
| Vencord orchestrator | a state per attach of the composer: text, items, check number, settle timer | attach, input, paste, send, settle, blur, pause, streamed answers | a message that was sent is left alone; late frames draw nothing |
| OpenCode orchestrator | one prompt at a time: items, ghost, rephrase, pinned panel, review | content change, keys, prompt swap, answers | surfaces at the cursor exclude each other and are about the text that is there |

`eval/`, `handoff/` (design assets) and the build files are not part of the running system.

### Interactions

A client POSTs the text of a field. The REST handler calls `Service.Correct` under the context of
the request, which ends when the client goes away. `Correct` cuts the text into sentences, builds
the prompt of each one (asking the personalization block and the dictionary) to form its cache key,
looks in the LRU, joins or leads a singleflight call, runs the fast checkers (Harper reads the
dictionary's file through its own watcher) and perhaps the model through the breaker, and
`finalize` filters by the dictionary and the reject suppressor, logs to SQLite and answers. The
client's reactions come back as signals that change what the store's two caches show the next time.

### What is hard

Shared in-place mutation of slices behind singleflight; a cache without invalidation over state
that changes; the outcome of requests that outlive the state they were admitted in; snapshot
refreshes that race; a file two processes write and two readers poll; C memory under concurrent
reload, use and close; in the clients, answers that arrive for a text that is gone. The full list,
at its lines and with the properties that cover it, is `hazards` in `PROJECT.json`.

## 2. Modules

Every module is a translation of code; a definition's comment says what it abstracts. Definitions
named `Slip_...` are bugs the definition after them could plausibly have; no specification uses
them. They are put in its place, one at a time, to see that a property notices.

| module | models | checked through |
|---|---|---|
| `Resilience` | breaker, retries, cancellation, N-best loop over one backend | `MCResilience` |
| `CorrectionService` | `Correct`: segments, cache, singleflight, escalation, finalize | `MCCorrection` |
| `StagedCheck` | one streamed check: concurrent fast checkers, previews, merging, picky pass, finalize | `MCParts` |
| `SignalHistory` | the store as the caches see it | `RejectSuppressor`, `PersonalizationCache` |
| `StoreView` | abstract: a view of the history that never goes back | refined by both caches |
| `RejectSuppressor` | suppressor, and by the same steps the calibrator | `Personalization` |
| `PersonalizationCache` | `Cache.Snapshot` | `Personalization` |
| `Personalization` | both caches over one store | `Personalization` |
| `SignalStore` | the SQLite log: corrections, reactions, aggregates, streak, pruning, restarts | `MCParts` |
| `DictionaryFile` | the file: words and modification time | `DictionaryStore`, `HarperDictionary` |
| `DictionaryStore` | `dictionary.Store`, step by step | `UserDictionary` |
| `HarperDictionary` | watcher, reload, use and close of the lint group | `UserDictionary` |
| `UserDictionary` | both readers over one file | `UserDictionary` |
| `SignalQueue` | the browser's queue of reactions, its POSTs, and the content script that creates, replaces and flushes queues | `SignalQueue` |
| `BridgeRelay` | requests through the background worker, which may die | `MCParts` |
| `LatestCheck` | abstract: what is drawn answers the latest question | refined by the next three |
| `ContentField` | browser: the life of fields, their checks, the popover | `MCParts`, `ContentField` |
| `VencordComposer` | Vencord: the composer's checks, settling, scan line | `MCParts` |
| `OpenCodePrompt` | OpenCode: checks, ghost completion, rephrase, panel, review | `MCParts` |
| `FieldEdits` | browser: apply one, apply all, undo over a live text | `MCParts` |
| `NativeHighlights` | browser: the highlighter of editable fields | `MCParts` |
| `SentenceEdits` | bridge: text to sentences, diff to edits, edits to matches and items | `MCParts` |
| `GectorPasses` | bridge: GECToR's passes and their translation back | `MCParts` |
| `ModelAnswer` | bridge: escalation, candidates, votes, merging | `MCParts` |
| `RepairedAnswer` | bridge: guards and repairs of the model's answer | `MCParts` |
| `TextServices` | bridge: rephrasing, tones, continuations and their caches | `MCParts` |
| `ComposerEdits` | Vencord: applying and undoing through an editor that answers late, or not | `MCParts` |
| `SelectionSurfaces` | browser, Vencord: rephrase card, synonyms popover and their control | `MCParts` |
| `FlatText` | browser: a contenteditable's text, spans, ranges and carets | `MCParts` |
| `SettingsStore` | browser: the stored settings and the tabs that follow them | `MCParts` |
| `HoverChip` | browser: the chip under the pointer, one for all fields | `MCParts` |
| `StatusPill` | browser: the pill by the field being edited, also on a paused site | `MCParts` |
| `SpellcheckOverride` | browser: the page's spellcheck attribute, taken and given back | `MCParts` |
| `ClientParts` | the clients' parts beside each other, and what they promise together | `MCParts` |
| `BridgeParts` | worker, streamed check, services and log beside each other, and what they promise | `MCParts` |
| `Bridge_proofs` | theorems about `Personalization` and `BridgeParts` | |
| `PageSurfaces_proofs` | theorems about highlights, selection surfaces, settings, chip, pill and spellcheck | |
| `SuggestionsUsed_proofs` | theorems about `SignalQueue` and `FieldEdits` | |
| other `*_proofs` | theorems about the module of that name | |

**Resilience.** A caller is a goroutine with a program counter: *allow*, *build* (`newReq`),
*wire* (`hc.Do`), *sleep* (`jitterSleep`). The breaker's methods are critical sections and so are
one step each. Data abstraction: time is the age of `openedAt` up to the cooldown and `failures`
counts up to the threshold, since the code compares them with nothing else; both are exact.
`isProbe` and `openLoad` are history variables for the properties. Whether the base URL parses is
fixed in a behaviour, as it is by the configuration.

**CorrectionService.** A request walks through its segments; `call` is the singleflight group's
calls (identified by leader and segment), `parts` what the request has gathered. A set of
suggestions is its sentence, how it edits the user's word, who answered, and how often its spans
were shifted: the in-place shift of a slice another request may hold is visible as `shift`. The
cache is keyed by what `sentenceCacheKey` hashes, and evicts the least recently used. An edit is of
the word *alone* if its span, widened to the white space around it, is just the word, and *wider* if
the widened text has a token the dictionary lacks, the word with a full stop glued to it included
(an insertion, which is never dropped, counts as wider). A sentence has the word once, and one edit of
it. Any checker may make either: GECToR and the model know no dictionary, and Harper may have loaded
another (`HarperDictionary`). `Finalize` begins `dropAllowlisted`, which writes what it leaves to
`out`, one segment's suggestions a step, each by the dictionary of that time; `found` is a history
of what the dictionary said meanwhile.

**StagedCheck.** The other view of the same service: one sentence, and what happens inside it. Edits
are spans with a score, a priority and what they put there, chosen from small pools that hold the
cases the code tells apart (meeting, abutting, insertions at one place or an edge, ties). Each fast
checker is a goroutine that ends, fails or panics, once for the previews and once for the answer;
`Fasts` are the lists of fast checkers a bridge may be set up with, none among them; `frames` is what
the handler wrote.

**Personalization.** A snapshot is the version of the history it was made from. The suppressor
refreshes in a goroutine of its own, the block under its mutex; both implement `StoreView`.

**SignalStore.** Tables are sets of rows with the ids SQLite gives them; `log` is a serial the
database does not have, to tell a row from a later one that got the same id, and `reacted` a history
of the last reaction to each edit. The two deletes of
pruning are two steps, each of which may fail, and the process may stop between any two steps.

**UserDictionary.** `Rename` and `StatOwnWrite`, and `Look` and `Load`, are separate steps because
an external editor can act between them. `blind` is a history variable: the code can not know that
memory and file differ. Harper's reload is *build* (outside the lock) and *swap* (inside).

**SignalQueue.** A batch in flight keeps the reactions it was made of (`events`) and those whose POST
is not answered yet (`pending`); the first failure puts the whole batch back (`open` becomes false)
while its other POSTs go on, as `Promise.all` has it. `wired` is the queue `wireRuntime` took out of
the runtime and its closures enqueue into, `current` is `runtime.signalQueue`, which the settings
watcher replaces: the two names are two references in the code. A failed POST may have been
recorded, since the answer can be what was lost. `capped`, `farewell` and `retried` are history
variables that name why a reaction is no longer held, or waits without a timer.

**BridgeRelay.** A call, its message, the worker's job and the reply are four places a request can be
in; the death of the worker empties two of them and closes the ports. The property relates them: no
fetch runs for a caller that is gone without a cancel under way, no caller waits for nothing.

**The clients' checks.** Each client guards against late answers in its own way (a check number and an
abort in the browser, `checkSeq` and the text in Vencord, counters and text comparisons in OpenCode),
so each is modelled on its own, and each is shown to implement `LatestCheck` for each of its field
states. A check carries `cur`, whether the number it captured is still the counter's: the code
compares the two for equality only. States live on after a detach, as closures do, and are counted.
`ContentField` joins the observer, the attachment's debouncers, `rerunFor` and the popover;
`VencordComposer` the composer that Discord empties, removes and re-inserts, the settle timer and
streamed frames; `OpenCodePrompt` writes handlers as operators from state to state, since the code
composes them so.

**FieldEdits.** A text is a few tokens; suggestions replace, delete or insert. Apply-all and undo
yield a frame after every edit, in which the user types; in a rich editor an edit takes place later
or never. `best` and `mine` in the properties follow what was asked for and what the user typed.

**NativeHighlights.** The registry of the page is written category by category and never read; the
property says that after any order of calls it holds exactly the ranges of what is shown.

**SentenceEdits.** A text is a sequence of letters of one, two or four bytes and one or two UTF-16
units; where the tokenizer cuts, what looks like code and what the model changes are any. Followed are
the three coordinates of one edit: bytes in the sentence, in the text, and the units and contexts of
the matches and items that clients are handed.

**GectorPasses.** The tags of a pass are any; each pass is over what the one before made of the text.
`judged` is a history variable: what text an edit was decided on, to say that it stands there still
when it has been translated back.

**ModelAnswer.** What decides about escalation is a record of a policy, a candidate a set of edits or
dropped. The candidates vote (a strict majority; fewer than needed, and the first is taken alone), the
verifier may veto, and the edits of the fast checkers are merged in five modes. `Constants` says that
the edits of one diff are apart; the four properties are that what is given is apart, that voted edits
are of most candidates, that words are only the model's, and that only grammar is judged.

**RepairedAnswer.** Words are tokens with a shape and a tail; an answer is made of pieces with what
was meant and what the model gave, so that the property can say what the chain of repairs must come
to: what was meant, British once, not cut. Where two repairs meet, or a word recurs, the code does not
come to it; `Comparable` excludes these, and section 7 lists them.

**TextServices.** Requests run at once and share only the two LRU caches. A backend is a model's name
and a place: the caches know the name. `given` is a history variable: what which model said, of what.

**ComposerEdits.** `Plain == INSTANCE FieldEdits` gives it the edits and inverse edits, which both
clients share. Discord's editor takes or ignores the event and shows the edit at once or later; the
code polls, falls back to selecting the span, and may have several operations under way. What was
accepted is made, once; what is typed survives; undo restores, where nothing else went on (`Calm`).
`TypedSurvives` leaves out an undo beside another operation (`crossed`): the plan of an undo is not
looked at again before each of its edits, so an operation in between moves what the plan points to,
and with three operations in one message the undo writes over what the user typed, also in an editor that
takes every event at once.

**SelectionSurfaces.** One field, in the browser or in Vencord. A selection is a span of words; 150 ms
behind it a control shows that remembers the span and its text; from there a card (pending, result or
error) and a popover (loading, loaded or empty) ask and show. Properties: what is written goes over
what it is of, undo takes it back, who waits is answered, what is closed stays closed. `WritesOverItsOwn`
excuses the browser's synonyms where two searches crossed or the control outlived its word, and
`UndoRestores` where two searches crossed: undo then puts back what stood there when the synonyms were
asked for. `Constants` says that the texts are sequences of words.

**FlatText.** The nodes of a field are the sequence of their tags and texts, a point is a place in a
text or a gap between nodes. Spans become ranges and back; fixes and typing go through ranges, as the
browser makes them. `LinesApart`, `OnEmptyLine` and `Joins` name contents for which a flat text can not
say what the DOM holds, or for which what an edit does is the browser's affair.

**SettingsStore.** A write is begun, read and written: read, merge and write have no lock. Popup, form
and goals popover change what they have seen; tabs and popup have queues of storage events. `wanted`,
`lost` and `missed` are history variables: what the writes were to set, that two crossed or one was
made from an old view, and which tabs were starting when something changed.

**HoverChip.** The pointer is out, on the chip, or over a field with or without an item under it; one
chip, one grace timer and one "described by" serve all fields. `left` is a history variable: what the
chip left described without being taken down by the pointer.

**StatusPill.** The focus is in a field, in the overlay, elsewhere or nowhere; the site is active,
paused or off. `drawn`, `strayed` and `seeded` are history variables: who drew the pill last, and ways
the code lets it stand over another field.

**SpellcheckOverride.** The attribute is absent, true or false; the code, its observers and the page
write it, and teardown runs the cleanups in the order they were kept. `spoilt` is a history variable:
the page's own value was overwritten by a way section 7 lists.

## 3. Runs

Passing runs:

| run | instance | question |
|---|---|---|
| `resilience` | 2 callers, threshold 2, cooldown 2, one retry, up to 2 candidates | is load shed, is nobody stranded, does it recover? |
| `correction` | 2 requests, texts of one and two sentences that share a sentence, cache of 1, 2 personalization blocks, fast path | are shared, cached and shifted sets always the right ones, and is just what the dictionary knows dropped? |
| `correction_llm_only` | the same without fast path, backend failing | do errors stay where they belong, does every request end? |
| `personalization` | 2 signals, suppressor TTL 1, block TTL 2, 2 refresh identities, 2 builders | do the caches refine the view and catch up? |
| `dictionary` | 1 word, 3 writes, failing writes and an editor, 2 C handles | do both readers follow the file; is memory on the C side managed? |
| `signals` | 3 reactions, 2 queues, cap 2, 2 batches in flight | is every reaction held once, and lost only for a reason with a name? does the queue drain? |
| `parts` | the modules of `MCParts`, each by itself (below) | does what is shown stay true to what is there, whatever comes late, fails or is cut short? |

Runs that find a comment of the code violated (`findings` in `PROJECT.json`):

* `resilience_probe`: "only one probe at a time" fails once a call from before the opening fails
  during the half-open window (three callers, threshold 1).
* `correction_lost_answer`: "the key covers everything that can change the answer" does not cover
  that the model did not answer: a degraded result is cached like a full one.
* `dictionary_mirror`: "on success the in-memory state mirrors the new file" fails for the retry of
  an `Add` whose first write failed.
* `signals_unload`: "force-flush queued telemetry before the page goes away" fails once the settings
  watcher has replaced the runtime's queue: the flush is for the new queue, reactions go to the old.
* `content_paused`: a paused site is to send nothing, but the attachments of its fields outlive the
  runtime, and the next edit sends the text to the bridge.

**`parts`.** The parts of `MCParts` share no state; `part` says which one a behaviour is of, and is
chosen at its start. They are checked in one run of 1.9 million distinct states. `ClientParts` and
`BridgeParts` hold the parts there are theorems about, `MCParts` extends both, gives their constants
values and adds the others. The properties of the run join those of the parts that answer one question:

| property | says, of |
|---|---|
| `ClientsShowLatest` | `ContentField`, `VencordComposer`, `OpenCodePrompt` implement `LatestCheck` |
| `SurfacesAreLive` | ghost, panel and spinner of OpenCode; popover of the browser; painted highlights; the surfaces of a selection, and that what is taken of them is written over what it is of, and undone; the tabs' settings; chip and pill; spellcheck is off while fields are attached |
| `NothingComesBack` | what was sent, settled or released stays bare; a scan line ends; a changed setting stays changed; a field gets the page's spellcheck back |
| `FirstLifeIsRight` | a field is attached exactly while it is there to be edited, until its first release |
| `EditsAddUp` | a streamed check hands out what can be applied, and the best of it; applied edits come to what the suggestions say; undo takes exactly them back; what the user types between survives; spans of sentences, passes and contenteditables stand for what they were made of; repairs come to what was meant; the sentences of a tone request are looked up once each; the streak counts the days there are |
| `RequestsAccounted` | `NoOrphanFetch`, `CallsAreHeard`: no fetch outlives its caller, no caller its fetch; `OneAnswer`: a stream has one answer; `RememberedWasSaid`, `AnswersWereSaid`: what a service answers was said, of that text by that model; `GivenIsApart`, `VotesAreOfMost`, `WordsAreTheModels`, `GrammarIsJudged`: what is made of the model's candidates is apart, of most of them, and theirs |
| `LogIsSound` | `EditsHaveTheirs`, `ReactionsArrive`, `LastReactionCounts`, `LearnedIsKept`: reactions reach their edits, of several the last counts, and the log gives the caches what they made, through prunes and restarts |
| `TypesOK` | the type invariants |

**Why the bounds are enough.** Two callers are the least with a stale call and a probe side by side;
threshold 2 makes *counting* differ from *tripping*; the history of a breaker is only its four
fields, so that longer runs repeat states. Two requests suffice for leader and follower, a cache of
one entry for every eviction order of two sentences. Two signals let a snapshot be one behind and
two behind; two refresh identities are one more than the property allows. One word is enough for the
dictionary since words do not interact, three writes for an edit to fall before, inside and after a
rewrite, two handles for the old and the fresh group; a leak of one would exhaust them. Three reactions
exceed the cap of two, by enqueueing and by putting a failed batch back before a newer reaction; two
batches in flight fail in either order; two queues are the old and the new one of a settings change.
In `parts`: a race of checks needs an overtaken one, the one that overtook it and, for a state that
was left, one begun after; so two or three checks, two of them in flight. One field that comes and goes
twice shows what a second life takes from the first; two fields, what one popover is between them. A
batch of two edits is the least in which the first moves the second, a text of three tokens the least
with one before, between and after. One death of the worker falls before, between and after the two
requests. Two days of retention one, two corrections and two reactions let a pruned id be given out
again; a stop cuts the prune or the log short. Three edits of a pool of six can chain, so that the
middle one decides about both others.
The texts of `SentenceEdits` have up to three letters, and two longer ones the ends that three do not
show; two edits of one diff meet or coalesce. Three passes of GECToR are one more than moves an edit
twice. Of the four instances of the composer, one accepts while the user types, one undoes, one has
two accepts at once, and one a check between them. Seven candidate diffs agree in part, and up to two
of five fast edits meet them, touch them, are a space away or apart. Ten texts of `RepairedAnswer`
each hold what one or two repairs are for, with what they must leave alone, and two corrections. Two
words, one edit and one move of the selection make a selection, a control and an answer stale; two
requests cross. Each document of `FlatText` is two of five contents, lines, bold, or one of the
longer ones, edited once; every step starts from any document, so that a second edit adds documents
and not cases. Two writes cross, one from an old view, before two tabs. Two requests of `TextServices` race for a cache of one. `HoverChip` has no bound but its two
fields and two items; in `StatusPill` two changes of mode leave and return; in `SpellcheckOverride`
two attaches, two writes of the page and two runtimes. Larger bounds (longer texts of the composer,
two edits of `FlatText`, two moves of a selection, three edits of an answer) were run while the
modules were written, with no other outcome.

**Symmetry** in `parts` is over the drafts and over the two fields, requests or pairs a part has
alike; no part treats one of them differently, and the run checks no liveness.

**Deadlock** is checked except in the correction runs, where each request is served once and the
system stops when all have been, the signal runs, where the page may go away, and `parts` with
`content_paused`, whose bounded behaviours end.

**Fairness.** Goroutines run on (weak fairness of their steps); a request on the wire, a query and
a backoff end because each has a timeout or deadline in the code; clock ticks happen. Strong fairness
is assumed where a goroutine waits for a Go mutex, which hands itself over to a waiter starved for
more than a millisecond. Nothing makes users ask, go away or write, and nothing makes the
backend or the store come back: the properties that need that say so in their premise.
`QueueDrains` also takes it that the user leaves the field now and then (a batch put back gets no
timer); `SuppressorCatchesUp` and `BlockCatchesUp` take it that checks keep coming. The clients'
modules state no fairness: their properties say what is never shown, and that whoever waits
has an answer under way, not that the answer comes.

## 4. Proofs

Each `*_proofs` module proves `Init => IInv`, `IInv /\ [Next]_vars => IInv'` with one step per
action, and cites the result for the properties. The instances TLC checks are those of section 3;
the theorems hold for every value of the constants under the named assumptions.

* `Resilience_proofs`. For any finite set of callers and any threshold, cooldown, retries and
  candidates: the type invariant, `ProbingIffHalfOpen` with `ClosedBelowThreshold`,
  `HalfOpenHasProbe`, `ShedsLoad`, `BadUrlNeverTrips`. `HalfOpenHasProbe` is not inductive alone: a
  probe must be in flight *and flagged*, and any outcome recorded while half-open leaves
  that state, so that the returning caller need not be the probe. `ShedsLoad` needs the count of
  calls in flight to change by at most one in a step, from the finite set theorems.
* `CorrectionService_proofs`. `ShiftedOnce`, `OwnSentences`, `DictionaryRespected`,
  `FailsOnlyEmpty`, `OneComputationPerKey`, for any number of requests and texts of any length. The
  invariant says of each request where it is in its text (`Walks`), which call it leads or waits for
  (`InCall`), that what it gathered is its sentences in order, each shifted once or not yet
  (`Gathered`, `Placed`), and what it answered (`Replied`); of calls and cache, that they hold
  unshifted sets of their own key (`CallOK`, `CacheOK`). What `dropAllowlisted` has left so far is
  right by what the dictionary said since it began, and it has not run past what was gathered
  (`Dropped`); the two invariants are inductive together. `TypeOK` adds the recency list: it names the
  cached keys, each once. That a use of a key keeps this, and an eviction, is a lemma about the two
  ways the list is built (a key taken out of a sequence leaves the others, each once).
* `SuggestionsUsed_proofs`, of `SignalQueue`. `NothingVanishes`, `HeldOnce`, `NobodyWaitsForNothing`
  and the type invariant, for any reactions, queues, batches and capacity. Holding once is not inductive alone:
  buffers and open batches are disjoint pairwise (`Apart`), closed batches hold nothing (`Held`), and
  a reaction is where one of the reasons puts it (`Accounted`).
* `UserDictionary_proofs`. `KnownTimeKnownWords`, `HandlesAccounted`, `UseIsLive`. The
  strengthening: modification times are never reused, so that a time read before a load dates the
  words no later than they are; and a group in use is the installed one, since swapping and freeing
  need the lock.
* `Bridge_proofs`, first half: `OneRefresh`, `QueriesSpaced`, and that both caches implement
  `StoreView`. The strengthening: what a query returned (`got`, `read`) is no newer than the history
  and no older than the snapshot, which holds because only one query is out. Each step of a cache is
  then a step of the view or a stutter. Queries are spaced because the age of the block is the time
  since the last query ended, whatever that brought (`Dated`).
* `Bridge_proofs`, second half: `RequestsAccounted` and `LogIsSound`, of each part for any number of
  requests, fast checkers, pairs, reactions and days.
  - *Worker*: a request is on its way once, and behind it the cancel of a caller that gave up
    (`SentOnce`); a job that its caller does not want is aborted or its cancel is on the way
    (`Worked`); who waits has a message, a job or a reply under way (`Awaited`).
  - *Streamed check*: the frame that is no preview is the last, and is there exactly when the check
    is over.
  - *Services*: caches and the requests under way hold only what was said: of a tone request, that its
    tones are those of the first of its units and that the others are left, in order; of a
    rephrasing, that its variants differ and are no more than its calls. `Services!Constants` says
    what is asked: a text is a sequence of sentences, the wished number of alternatives an integer.
  - *Candidates*: an answer is made of candidates of one text, each apart, and of the fast checkers'
    edits, of one mode (`Made`, `AnswerInv`); a vote hears as many as were asked for. Of two edits that
    most propose, one candidate proposes both, by counting voters, so they are apart; what is added to
    them conflicts with none, by its words or by its span.
  - *Log*: ids in use are below the next one; an edit has its own correction, unless something was
    deleted and its id may have been given out again, or none, while a prune is between its deletes
    or once the second failed; one that was reacted to has its own, unless a reaction strayed; the
    edits reacted to are the last reactions in `reacted`, none lost or doubled. What the
    caches learn from is a function of the edits reacted to, so that `LearnedIsKept` is a fact about
    each step from the invariant.
* `ContentField_proofs`. `DetachedStayBare`, `PopoverIsLive`, `FirstLifeIsRight`, `LatestCheck`. What is
  drawn belongs to a kept state, and so does what is still to be answered (`Bare`); the popover is
  over an attached field about what is drawn (`Live`); until its first release, a field that has not
  just left is attached exactly while the observer has reported it, and the observer knows the fields
  that are in the page (`Life`): the property speaks of rest, the invariant also of what was seen and
  not yet reported.
* `PageSurfaces_proofs`. Of the six surfaces beside the checks, for any fields, items, texts, tabs and
  writes. *Spellcheck*: every original that is held, and not only the last, is as good to the page as
  what it wrote last, and only a runtime that suppresses observes. *Chip*: a chip has its timer, the
  pointer on it or the pointer on its field, and what is described is the chip's unless it was left.
  *Highlights*: after every call the registry is the buckets of the items, and the hovered range that
  of the hovered item. *Pill*: on an active site it is of the field drawn last, which is known, and
  shows only while that has the focus, unless it strayed; on a paused site it is of a field the
  observer has or will be told of. *Selection*: who waits has a request of its own kind under way; once
  the debounce is over the control is of the selection. What is remembered with an offer or an undo is
  a span as long as what it says (`OffersOK`); the popover is of the last search and of the word as it
  stands, unless two crossed (`HeldOK`); until something else happens the text is the one before with
  one span written over (`TookOK`), so that putting back what was there gives that text (`PutBack`).
  Undo's plan has every record that stands once (`RankTaken`) and goes from the last to the first, so
  that no step reaches past the text that the steps before it leave. *Settings*: what a write has read is what is
  stored, unless a version came between; the last event of a tab's queue, or what it has when there
  is none, is what is stored; its goals are the stored ones or those of a write of its own.
* `SuggestionsUsed_proofs`, of `FieldEdits` (`Edit == INSTANCE FieldEdits`). `TypedSurvives`,
  `UndoRestores` and the types, for texts of any length and any number of edits, applies and checks;
  that the four bounds are natural numbers is a hypothesis (`Bounds`).
  What is recorded falls from the end of the text to its start, and what is still to be applied is in front of it (`ListsOK`): so `appendInverseEdit` moves all that
  it has, and by as much as the text behind the edit moves (`AppendInverseIs`). While nothing was typed
  or ignored, the text is the one before with the records written over it: between two records it is the
  text before, shifted, and at a record stands what was applied (`Woven`); an edit in front of the others
  keeps that (`ComesByEdit`), and so does taking back the last one that was made of what is left
  (`ComesBack`). Then every record stands, the plan is all of them in order (`PlanIs`), and when none is
  left the text is the one before. Of the user's tokens none is inside a span that is still its own, nor
  where a plan writes (`Clear`): one edit changes their number by those it takes and brings
  (`MineSplice`), which are none.
* `ClientParts_proofs`. Brings these together: the invariant `PartsInv` of the composition is that of
  the part a behaviour is of, and from it follow the four properties of `parts` that are about
  clients alone. It holds the proofs of OpenCode's prompt (`OneCheckIsHeard`: of the checks under way at
  most one is still heard, of the live prompt; each handler keeps the checks (`Same`), makes them
  unheard (`Drops`) or leaves what is drawn alone (`Leaves`), and the actions are compositions of
  handlers; `OneAtTheCursor`: ghost, panel and spinner, each with the counter that makes its late
  answers unheard) and of Vencord's composer (`ComposerInvariant`: at most one check per state is
  heard; a scan line belongs to a heard check; a settled state is clean and hears none). The
  assumption `NamesApart` says that `None` is no field and nothing that is kept of one, and that no
  field or tab is called what the parts call another place; a rephrasing is something, then, since the
  prompt and its text are the host's (`PromptPlace`). `SelectableAssumption` says that the texts to select
  in are sequences of words.

Assumed are only the named assumptions on the constants and `Bounds`; of the named ones every one is evaluated by a run.

Model-checked only: liveness, which is beyond the prover; of `EditsAddUp`, `BatchFixesAll` of `FieldEdits`,
whose reference flattens a sequence of pieces, and its other parts (the merging of `StagedCheck`,
`SentenceEdits`, `GectorPasses`, `ComposerEdits`, `RepairedAnswer`, `FlatText`, the sentences of
`TextServices` and the streak of `SignalStore`), which fold, filter or sort sequences, so that what they
compute needs induction over data; `TypesOK`, but for the parts that the invariants above hold; and the
mutants.

## 5. Plan

Done: breaker, correction service, streamed check, caches of the history, the log under them, user
dictionary and Harper, the signal queue, the relay, the checks of all three clients, edits and undo in
fields and in Discord's composer, the text of contenteditables, highlights, chip, pill, spellcheck,
the surfaces of a selection, the settings; sentences, GECToR's passes, the model's answer and its
repairs, the other services of the model. Proofs of all of these but the parts of `EditsAddUp` that compute
over a whole sequence.

What could follow, in this order: the parts of `TypesOK` that the invariants already hold, as a theorem;
the steps of `ComposerEdits` that need one application of an edit and no induction (`MadeOnce`,
`AcceptedWasMade`), from the lemmas of `SuggestionsUsed_proofs`; the refinement of `SignalStore` to `SignalHistory`, which is now only
by comment; applies and undos that overlap in `FieldEdits`; the review panel and the statistics of the
browser.

## 6. Not modelled

* Browser: statistics, inspector, ghost completion; the review panel; tone chips; the fallback from
  stream to plain check and the decoding of SSE frames. Vencord: tooltip, suggestion popover, panel,
  pill, tone. OpenCode: drawing, the status line and the host's adapter.
* Bridge: the handlers beside the streamed check and the services of the model, which translate and call.
* Text algorithms that live on word lists and regular expressions (the tables of
  `dialect_repair.go` and of the articles, the capitals `finalize` mends, the rule tables of Harper), prompt wording, inference (GECToR's session, the
  verifier's model), and their tables: pure and covered by table tests.
* Rendering, layout and styling: `overlay/styles.ts`, the design bundle under `handoff/`, the pages of
  settings and popup, cards and their wording. They are a third of the lines of the repository, and
  nothing of them outlives a call; this is why the map covers less than a third of all lines.
* Generated code (`pb.go`), configuration parsing, build files, `eval/`.
* Within modelled parts: the neighbour context of a sentence; the tone log and plain counts; the unit of time; torn reads of a file an editor
  rewrites in place; modification times that coincide (the code takes them for unique); applies and
  undos that overlap in the browser.

## 7. Seen while modelling

Places where the code, its comments or its tests leave a reader in doubt and that no run is about.

Browser, edits and undo:

* Undo validates its inverse edits once, before the first, though it yields a frame after each
  (`lib/undo.ts:45-48`, `content/index.ts:2179-2194`).
* A rich editor that declines an edit is followed by a comment not to fall through, but `applyEdit`
  goes on to the plain path with a span that may be stale; and undo of a deletion the editor ignored
  inserts a duplicate.
* The Undo of a dismissal puts an item back into items a newer check has replaced (also in Vencord).
* Text directly before a block (`a<div>b</div>`, what Chrome makes of a second line) flattens to "ab",
  lines joined, though `input/text.ts:8-16` calls itself line-aware; a span that starts on an empty
  line gets a range that starts at the end of the line before.
* `keepHighlightsBeforeEdit` compares with the caret behind the edit, so items that reach into what was
  typed are kept, though `caret-offset.ts` says that what meets the caret is dropped.

Browser, surfaces:

* The comment about a stale guard near `content/index.ts:1761` has no code: a late answer for one word
  replaces the synonyms popover of another, or its failure closes it; and the control clicked within
  150 ms of typing uses a stale span.
* Overlapping rephrase requests have no number, the last answer wins; a pending card that was closed
  still comes up with its answer; the scope chosen in the card is never sent; the browser keeps no undo
  of a rephrase.
* The chip leaves its `aria-describedby` on a field when the pointer crosses to another's highlight,
  when it is taken from under the pointer, and on navigation (`content/index.ts:1675-1682`); a new
  answer leaves it previewing an item that is gone.
* Drawing a pill removes any other of the root (`overlay/status-button.ts:143`): a late answer for a
  field without the focus takes the pill from the field being edited until its next drawing. Focus that
  leaves by way of the overlay leaves the pill. On a paused site a field removed before the first frame
  of the observer keeps its pill.
* The spellcheck observer is disconnected on teardown only, though `content/index.ts:1201` says on
  detach: a detached field is set to "false" again, and may stay so. Restoring an absent attribute sets
  it to "true", though the comment says restored exactly; a value the page wrote meanwhile is lost.

Browser, settings and transport:

* Settings are read, merged and written without a lock: two tabs can undo each other's pause. The form
  never watches, so that its list of sites may overwrite a newer one; two picks of goals before the
  watcher reopens the popover lose the first; changes between `start`'s read and its watch are missed.
* The watcher hands on the raw stored object: a running tab uses a URL that a reloaded one replaces
  with the default.
* A stream cut by a restart of the bridge turns streaming off for the session, and a network error after
  the final frame discards the answer and runs the plain check again.

OpenCode: the ghost is not tied to the text of the prompt; `rephrase()` clears marks without resetting
`checkedText`; `dispose` leaves the completion timer and checks in flight.

Vencord:

* Pausing and detaching bump no check number. The Undo of an accepted rephrase writes over the original
  text's span without a guard, though `rephrase.ts:130-134` says it mirrors `applyItem`.
* `appendInverseEdit` takes it that edits go from last to first, but a synonym is appended to the edits
  applied before it: one for the word behind a recorded deletion shifts the deletion's inverse, one
  inside a multi-word replacement makes that one impossible to undo, and its Undo also takes the earlier
  ones back.
* Two accepts of all at once can insert the same insertion twice, and two that overlap in an editor that
  shows edits late can apply one twice. The fallback selects the span for a turn, in which typing
  overwrites it. A deletion that landed while the user typed counts as failed and is not recorded.

Bridge, checks:

* In `finalize` a style edit that ends or starts at a grammar insertion may win, since duplicates keep
  the first by start, though `service.go:748-750` says that grammar is authoritative; a merge need not
  be maximal when an edit it kept is dropped later; previews are not deduplicated for twins of no width;
  with two spaces between words, an insertion of the model at one side and a fast one at the other do
  not conflict.
* `segment.go` appends a whole line after parts of it were added when the tokenizer misaligns; a text of
  one segment is checked whole, its newline included, though `segment.go:75-78` says that edits never
  meet one.
* An insertion before the first rune and one right behind it are both widened over that rune, so that
  LanguageTool and gRPC clients get matches that overlap; gRPC is handed byte offsets where the other
  converts to UTF-16.
* The truncation guard looks at an answer before its echo is stripped, so that an echoed and truncated
  one passes; `stripContextEcho` empties a sentence of the user's that is itself the marker line.
* `RepairProperNounCommaRestructure` does not return early on an unchanged text, as its neighbours do:
  one that has both "X, Y" and "x in y" is rewritten. Contractions and singular *they* are looked for
  anywhere though the comment says at the corresponding position; marks behind *or* are not looked at.
  Case and agreement lose their way beside a change of length that a later rule takes back, or when the
  word recurs. An American spelling stays if the British one is also in the answer. "Last wins" is
  called deterministic over a Go map (`dialect`), whose order is random.

Bridge, other services: the tone cache's key has the model's name and not the backend's place; two
misses at once can give two continuations, though `complete.go` says caching keeps the ghost from
flickering; `{}` in prose parses as no tones and is cached; `AnalyzeTone` is said to answer failures
with empty tags, but a backend that cannot be built is a 502.

SQLite: ids are reused after pruning, so a late reaction can reach another edit than the one it was for
(the comment says unknown ids are a no-op); a failed second delete leaves edits without correction;
a streak longer than the retention is cut to it; a clock set back makes the streak zero.


