# Graybox in TLA+

Graybox records HTTP traffic that passes through a reverse proxy into a SQLite
file (`graybox record`), and later lists, shows, replays and diffs it. This
directory models the parts of it that are hard to test, checks them with TLC,
and proves the most important results with TLAPS. Paths below are those of the
repository, under `src/`.

## The system

| Component | Source | State | Operations |
|---|---|---|---|
| Recording proxy | `internal/capture/proxy.go` | per exchange: `captureReadCloser` (size, buffer, EOF, error), `captureWriter` (status, size, buffer, error); per process: `persistenceFailures` | `ServeHTTP`, `Read`, `Close`, `WriteHeader`, `Write`, `RoundTrip`, `ErrorHandler`, `persistExchange` |
| Record command | `internal/cli/record.go`, `cmd/graybox/main.go` | position of the main goroutine, server, context, exit status | `runRecord`, `finishRecording` |
| Recording store | `internal/storage/*.go` | the file, its tables, the only pooled connection | `Create`, `SetMetadata`, `Add`, `Close`; `Open*`, `Get`, `List`, `Metadata` |
| Redaction | `internal/sanitize/*.go` | none | `Rules.Body`, `CaptureBody`, `ApplyHeaders`, `URL`, `ReplaceJSON`, `ReplaceValues`, `Merge` |
| Replay | `internal/replay/*.go`, `internal/cli/replay.go` | per request: `replacements` | `Runner.Run`, `execute`, `apply` |
| Diff | `internal/diff/*.go`, `internal/cli/diff.go` | none | `Compare`, `CompareBody`, `Runner`, exit status |
| Configuration | `internal/config`, `internal/cli/{config,target,secret_headers}.go` | none | parsing and validation; `newSecretRedactor`, `redact`, `redactData`, `redactJSON` |
| Command line | `internal/cli/{root,list,show,render,version}.go` | none | dispatch, output |

How they interact. `record` creates the store, then runs one `http.Server`
whose handler is the proxy. Every request has a handler goroutine; the HTTP
transport reads the request body in a goroutine of its own, through
`captureReadCloser`. When a handler is done it calls `Store.Add`, which waits for
the connection that all handlers share. A signal cancels the context; the main
goroutine shuts the server down (ten seconds at most), closes the store and
reads the loss counter. `replay` and `diff` open the file read-only, possibly
while a recorder still appends to it, check the recorded exchanges against
configured replacements, and send them again one by one.

What is hard, and what makes each part correct:

* **Proxy.** Two goroutines share an unlocked buffer; a response may end before
  its request was read; the client, the upstream and the capture limit can each
  cut a body short. What a row says of its bodies (whole, truncated,
  incomplete), of its status and of errors must be true, because replay and
  diff act on it.
* **Record.** Shutdown, its timeout, the handlers, and the close of the store
  race. Exit status 0 and the loss count are promises about exchanges that may
  still be on their way when they are decided. The command may be killed
  anywhere and started again on the same path.
* **Store.** One connection for all writers; metadata before rows; sizes that
  fit together; an order of listing computed on text.
* **Redaction.** A rule names a decoded field; what is stored, searched, replaced
  and sent is raw text. A field may occur several times, spelled in several ways,
  in a text that does not decode, or below another protected field. What the
  recorder takes out must be found again by replay, which reads other headers and
  parses the URL with another parser.
* **Replay and diff.** What must not be sent is refused by several checks in
  several places; one exchange failing must not hide another; the file may grow
  between two reads of it. An upstream may echo the runtime secrets it was sent,
  in any spelling, and diff prints what it answers.

## The modules

`RecordingLedger` is the abstract specification of a recording: exchanges are
pending until kept as one row or lost, and success may be reported only if
nothing the server waits for is pending or lost.

`Recorder` is `graybox record`: the main goroutine, the server, any number of
handlers, the connection, the file, and restarts. One action per step of the
code that another goroutine can see.

| Variable | Code |
|---|---|
| `main`, `code`, `closeErr`, `printed` | position in `runRecord`/`finishRecording`, its result, `closeErr`, the loss count written to stderr |
| `ctxDone` | the context of `signal.NotifyContext` is done |
| `path`, `meta`, `rows` | what is at `--output`: nothing, something else, a file without schema, a recording; the metadata written by `record`; the table `exchanges` |
| `dbOpen`, `conn` | the `sql.DB`, and who holds the one connection `SetMaxOpenConns(1)` allows |
| `serve`, `inShutdown` | the goroutine in `server.Serve` and what it sent on `serverErrors`; `Shutdown` was called |
| `stage`, `ended`, `failures` | each handler; the order of `completed_at`; `persistenceFailures` |
| `session`, `policy` | starts of the command; whether redaction is configured |

| Actions | Code |
|---|---|
| `Prepare` … `Announce` | `runRecord` up to `go server.Serve`, `storage.Create`, `SetMetadata` |
| `ServeErrorReceived`, `StartShutdown`, `Drained`, `ShutdownTimeout`, `Join` | the select and the shutdown |
| `Optimize`, `CloseDB`, `CountLosses` | `Store.Close` and `finishRecording`; an early return runs the deferred `store.Close` and skips the count |
| `Arrive`, `Hijack`, `Panic`, `EndExchange` | `ServeHTTP`, from its start to `persistExchange` taking `ended` |
| `BeginTx`, `BeginTxFails`, `Rollback`, `Commit` | `Store.Add` and the counting of its failure |
| `ServeFails`, `Signal`, `Exit`, `Crash`, `Restart` | the environment |

`ProxyExchange` is one exchange in detail, as `proxy.go` sees it: the reader's
`Read` in four steps (read, count, capture, note the end), the handler through
`ReverseProxy`, the deferred calls, and `persistExchange`'s four looks at the
reader, in the order the compiler evaluates the operands. In `Recorder` all of
this is the step from `proxying` to `waiting`; `Add`'s refusal of impossible sizes
is one of the reasons for `Rollback`.

When an upstream answers 101, `ReverseProxy` takes the client's connection through
`captureWriter.Unwrap`, writes the 101 to it and copies between the two connections until
either ends (`SwitchProtocols`, `Tunnel`, `TunnelEnds`). The writer sees none of this, yet
the exchange is persisted. If the 101 cannot be written, the error handler writes a page to a
server that no longer has the connection. `StatusIsFinal` says what becomes of the row's
status: it is the one the client was sent, except for these exchanges, which have the 200 that
`captureWriter` starts with (proxy.go:104), or 502.

`BodyMeta` holds the arithmetic of body sizes: what `Rules.CaptureBody` makes of
them, and what `validateBodyMetadata` accepts. A body is its length, the number of
wire bytes it stands for, and whether it is the wire bytes, a rewriting or the
omission marker.

`Listing` is `Store.List` on formatted start times. A time is a second and
`Places` digits in base `Base`; `Format` drops trailing zeros as RFC3339Nano does, and
`TextLess` compares texts character by character.

`ReplayLedger` is the abstract specification of a replay or diff: a list without
repetitions is gone through in order with one request in flight; every exchange
gets one verdict, and a request unless it was refused; the run is called a success, changed
or failed when all of the list is decided, by these verdicts; or it is abandoned
without a report.

`ReplayRun` is `graybox replay` and `graybox diff` over a recording that a live
recorder may still extend. A recorded request is what decides whether it may be
sent: how much of its body is there, whether its query was withheld, the type of
its body, and which fields of its query and its body hold a value or a marker.

| Variable | Code |
|---|---|
| `config` | options, file and environment: mode, chosen ID, fields with a replacement rule, of these the ones whose variable is set, a configured Content-Type |
| `rows`, `order` | the table `exchanges`, and the IDs as `List` orders them |
| `main`, `plan`, `next` | position of the command, the summaries it goes through, the index of the next |
| `needed` | the fields `resolveApplicableReplacements` resolved; what `Runner.Replacements` has without them are empty strings |
| `sent`, `results`, `ctxDone`, `code` | requests given to the HTTP client, results of the exchanges, a delivered signal, exit status |
| `recorded`, `seen` | history: the rows at the start, the IDs the preflight read |

| Actions | Code |
|---|---|
| `Open` | `runReplay`/`runDiff` up to the preflight, which is skipped without rules |
| `PreflightList`, `Inspect`, `Resolve` | `resolveApplicableReplacements`: its `List`, each `Get` and `inspect`, the lookup in the environment |
| `RunList`, `Refuse`, `Send`, `NotFound` | `Runner.runEach` and `execute` up to `client.Do` |
| `Answer`, `Timeout` | `client.Do` and the reading of the body; `compareExecution` |
| `ReadFails`, `Finish` | early errors, which drop the results; the exit status |
| `Signal`, `Record` | the environment: SIGINT/SIGTERM, and `Store.Add` of a recorder |

`ReplayRun` implements `ReplayLedger` with `plan` as the list, the IDs of `sent` as the
requests, and the outcomes of `results` as the verdicts (`LedgerList` …
`LedgerOutcome`): `RunList` is `Choose`, `Refuse` and `Send` are themselves,
`Answer` and `Timeout` are `Settle`, `Finish` is `Conclude`, every other end is `Abandon`, and
the steps of the preflight and of the environment are stutters.

`RequestRedaction` is one request in detail, from the client to the upstream it is
replayed to. In `ReplayRun` it is the fields and the type of a request, and the
reason of `Refuse`.

| Variable | Code |
|---|---|
| `case` | the client's request; the policies of the recorder and of the replay; the runtime values; overridden headers; the path of the target |
| `main`, `why` | position in `persistExchange`, `execute`, `apply`; why the exchange was refused |
| `stored`, `out` | the recorded request; the `http.Request` that `execute` builds |
| `report` | `Execution.Path` and `TargetURL` |

| Actions | Code |
|---|---|
| `Capture` | `persistExchange`: `Rules.URL`, `CaptureBody`, `ApplyHeaders` |
| `Build` | `runEach`'s policy; `execute` up to `apply`: `BuildURL`, the refusals, headers and overrides |
| `Apply` | `Replacements.Applicable` and `apply` |
| `Check` | `rejectRemainingMarkers` |

`QueryValues` holds raw queries and forms: sequences of pairs with their
spelling, what `url.ParseQuery` and `Encode` make of them, `ReplaceValues`, and the
text that stands for a withheld query.

`ResponseDiff` is one response on its way from the recorded upstream to the
report of `graybox diff`: `Record` (capture up to the limit and redaction by the
recorder), `Replay` or `NoAnswer` (`execute` and redaction by the policy `runEach`
derives), `Visit` (normalising the baseline, `Compare`, the outcome), `Report` (the
texts that `runDiff` prints of each difference, for humans or as JSON). In `ReplayRun`
all of this is the choice of `available` and `same` in `Answer`.
`SecretText` holds texts that repeat a runtime secret: the spellings that
`newSecretRedactor` looks for, and the replacer.
`JSONDocument` holds documents, JSON pointers, redaction, replacement and comparison of
documents; a document is a function from positions (paths) to values, so that
the recursion of `CompareBody` is the set of the positions it reaches.
`JSONNumber` holds the canonical form of numbers.

`Ordering` is what these modules and their proofs share: the elements of a finite set as a
sequence in a given order. It is stated by what is true of the sequence. The community
modules' `SetToSortSeq` and `SelectSeq` are recursive definitions, of
which the provers cannot be told what they compute.

`MC*` modules instantiate these for TLC. `RecorderClaims`, `PathIsKept`, and the
definitions in `MCProxyExchange`, `MCListing` and `MCReplayRun` state sentences of
the documentation that the code does not keep.

Operators commented "Mutant of X" are the plausible bugs each property was
tested against: with X replaced by one of them, TLC finds the property violated.
No specification uses them.

## The runs

| Run | Shows | Bounds |
|---|---|---|
| `recorder` | exit status, loss count, rows, metadata and file agree, whatever fails, races or crashes; the inductive invariant holds; record implements `RecordingLedger`; a signal ends the command; an exchange that ended settles | two ordinary exchanges, one that may be upgraded or panic, two starts |
| `exchange` | what a row says of its bodies, status and errors is true, and what it says of an upgrade is no more than the writer saw; the inductive invariant holds | capture limit 2, bodies up to 3 bytes, marker 2, rewritings of 1 and 3 |
| `listing` | the order of `List` where text order and time order agree; a listing only grows | three rows, two seconds, two binary places, two kinds |
| `replay` | only whole and resolved requests are sent; missing credentials stop everything or are new; success covers the recording; the inductive invariant holds; the run implements `ReplayLedger`; the command ends | two rows out of six kinds of request, one query field, one body field, configurations with rules for none, the body field or both |
| `redaction` | nothing protected is stored or shown; what is sent is the client's request with the values filled in; what no rule touches is sent as it was spelled; what can be restored is not refused | nine queries and forms, five documents, bodies that are opaque or ambiguous, three content types, encodings, overrides; rules and values for up to three fields |
| `diff` | "equivalent" and "changed" are true of the two responses on the wire; nothing protected is reported; the differences are exact; nothing of a runtime secret is printed | fourteen documents pairwise, 72 spellings of numbers pairwise, 28 other responses pairwise (not JSON, cut off, JSON served as a form, with a marker of the application's own), limit 3, policies and ignore rules as in `MCResponseDiff`; every spelling of four secrets echoed in values, keys, locations and headers, values cut off at 4 characters |
| `claim_*` | each refutes one sentence of the documentation | one start, two exchanges, or as above |

Why these bounds are enough. Two ordinary exchanges are the least that compete
for the connection while a third party (main, closing) also wants it; the
third exchange is upgraded or panics, the two ways past what `Shutdown` waits for. Two starts
show every state a run can leave on disk to the next one, and nothing later can
tell two from more. In `exchange` a body of 3 over a limit of 2 gives empty,
short, exactly full and truncated bodies and a chunk that straddles the limit;
the marker has the limit's length and rewritings are shorter and longer than
it. In `listing` two places give every combination of kept and dropped zeros. In
`replay` two rows are the least for one exchange to come before, after, or later
than the preflight of another; requests do not influence each other except
through `needed`, the results and the order. In `redaction` the texts have keys that
are repeated, out of order, empty, without "=", malformed, named like the withheld
query, and that held a marker before; documents have a field below another that
is protected, replaced, or already redacted. In `diff` the documents have keys with
slashes, tildes and common beginnings, an object and an array under one name,
and markers that were there before; the steps treat positions alike. The theorems below have no bounds at all.

Runs disable the deadlock check because the system stops: the command ends, an
exchange is stored or compared, a table is full.

### Fairness

`FairSpec` assumes weak fairness of the main goroutine's own steps and of the
steps of `Add` for each handler, and nothing else: the Go scheduler runs
goroutines that can run, a SQLite transaction ends (its `busy_timeout` is finite), and
`Shutdown`'s timer fires. Nothing is assumed of clients, upstreams, signals,
accept errors or restarts: an upstream that never answers is a behaviour.
Run `recorder` is checked under it. `BeginTx` and `Optimize` compete for the connection; they need no strong fairness
because only finitely many exchanges exist, and none arrive after shutdown began.

In `ReplayRun`, `FairSpec` assumes weak fairness of the command itself, which
includes `Timeout`: `replayClient` gives every request thirty seconds for its
headers and its body, and reads of the file end. Nothing is assumed of the
upstream, whose `Answer` need not come, or of the recorder.

### Findings

Each is a run that refutes a sentence quoted in `PROJECT.json`:

* `claim_loss`: an upgraded (101) connection is not waited for; `record` exits 0
  without its exchange. The documentation calls upgraded protocols unsupported,
  yet the proxy forwards them and the sentence has no exception. A panic other
  than `ErrAbortHandler` loses its exchange uncounted as well.
* `claim_ids`: IDs follow the order of getting the connection, not of completion.
* `claim_truncated`: a body below the limit can be stored as truncated, when its
  record is assembled in the middle of a `Read`.
* `claim_order`: RFC3339Nano text does not sort by time.
* `claim_credentials`: an exchange whose credential is missing fails alone, after
  others were sent, if a recorder added it after the preflight or if a configured
  Content-Type makes its body one that the preflight did not look into.
* `claim_path`: `url.Parse` takes the first segment of a recorded `//h/p` for a host; replay
  sends `/p`. With query rules and a segment that is no host, the stored URL is the
  marker, and the path `/<REDACTED>` is sent.

Two more gaps have no run of their own. An upgraded exchange is stored as a complete and empty response with
status 200 and no error, though its client got a 101 and a stream (`StatusIsFinal`, `SizesAccountForBodies` in `exchange`).
docs/recording-format.md:90-91 promises the final response status, but calls upgraded protocols unsupported in the next
sentence, so this is a limit and not a contradiction. And `Recorder` shows: when `Shutdown` times out, `runRecord` returns without
`finishRecording`, so that the losses counted so far are not printed (`PrintedCountIsExact` is
about counts that are), while docs/architecture.md:101 says that shutdown prints them.

## The proofs

`RecorderProofs` proves for any finite set of exchanges, any of them upgrades or
panicking, and any number of starts (`ExchangesAssumption`, `NobodyAssumption`,
`SessionsAssumption`): type correctness, the invariants of run `recorder`, that at most one
transaction is open and belongs to the holder of the connection (`OneWriter`), the action
property `NothingOverwritten`, and that `Recorder` implements `RecordingLedger`.

The properties are not inductive. `CleanExitKeepsAll` speaks of a moment when
`Shutdown` has returned and the counter has been read; that no ordinary exchange
can be on its way then depends on where the main goroutine has been. `IInv` adds
what is needed: `ControlInv` (each position of `main` and what it implies for the
server), `FileInv` (no exchange is seen before the file is a complete recording,
and a run that creates a file finds no traces of another), `HandlerInv` (handlers
belong to the running process), `CountInv` (the counter is the number of lost
exchanges), and `SettledInv` (from the moment `Shutdown` returns nil, ordinary
exchanges are untouched, stored or lost). `CountInv` needs the only counting of
sets: `LostGrows` and `SettledLosses` cite the finite-set theorems. The refinement
takes `rows` as the ledger's rows and maps stages to statuses; each step of a
handler is one ledger step, `CountLosses` is `Succeed`, and the end of the process
is `End`.

`ReplayRunProofs` proves for any fields, any recording of any length, any kinds of
request and any command line (`FieldsAssumption`, `SamplesAssumption`,
`ConfigsAssumption`): type correctness, `NothingUnresolvedSent`,
`MissingCredentialSendsNothing`, `MissingValueIsNew`, `SuccessCoversRecording`, and that
`ReplayRun` implements `ReplayLedger`. The second is about the
moment a request goes out, but its reason is two reads earlier: `PreflightInv`
follows the preflight through its plan, says that what is behind it has its needs
in `needed`, and that once the runner runs every exchange that was there at the
start has its values. This takes that every one of them is in the plan
(`RecordingInv`, kept when `Record` inserts an ID anywhere, lemma `Inserted`), and that
rows do not change (`RowsStay`, which `NothingOverwritten` justifies). A request that
passes the checks of `execute` is resolved by `UnrefusedIsResolved`.

The refinement needs `LedgerInv` besides: the order of the recording has no ID twice
(`RecordKeepsOrder`), nothing was sent or decided before the runner has its list, and
while it runs the results are those of the exchanges before `next`. Then each step
maps to one ledger step or a stutter (`StepRefines`, one case per action), and the
ledger's outcome follows from the exit status because `ExitCode` looks at all results.
`SuccessCoversRecording` needs `CoverInv`: the results follow the plan, the plan has
every chosen exchange, and only an answer that came whole is called well.

`ProxyExchangeProofs` begins with two facts about `BodyMeta` on which the recording format
rests, for every length: sizes that satisfy the schema's CHECKs still do after redaction
(`RedactionKeepsSizesValid`), and a body that was withheld is never complete
(`WithheldIsIncomplete`). It proves all invariants of run `exchange`, for any limit, lengths of
bodies and writes, marker, and lengths of rewritings (`LimitAssumption` and the
other assumptions of `ProxyExchange`). The record of a request is put together from looks at
four fields, between which the transport's goroutine may take any number of steps;
`ReplayableIsWhole` is therefore about four different moments. `IInv` has one part for each
party: `ReaderInv` (where the reader is in `Read`, and by how much size and
buffer may differ there), `WriterInv` (what was observed, captured, delivered, how an
error came about, and that an upgrade leaves the writer as it began), `AssemblingInv` (what each look has found, relative to a
reader that has moved on: sizes only grow, and an EOF that was seen stays seen), and
`RowInv` (what is in the row, by the same relations). `ReaderStepKeepsAssembling` is
where the race is: the reader's step against every position of `persistExchange`. It needs
that the capture grows by pieces that add up (`CapturedInPieces`).

`ListingProofs` proves for any base, number of places, seconds, kinds and rows that
`List` is well typed, in order where text order and time order agree, and that listings only
grow. The formatted texts are a strict order (`TextLessIrreflexive` and the lemmas
after it), so that with the ID as a tie break every set of rows has exactly one listing;
that a larger table's listing contains the smaller one's in order is then
`SortingOfSubset`. `AnswerInv`, the inductive part, says that the last answer is the listing
of some earlier length of the table. The order on fractions of the same width takes
their first differing digit.

`OrderLemmas` has what the others need of finite sets in an order: a sorting exists, is
unique, lists everything, and sorts a subset alike; a nonempty set of
naturals has a least element and, if bounded, a greatest.

`JSONDocumentProofs` proves about documents of any size and shape: prefixes are ordered; a
document stays a tree when fields are replaced, nested or not; after `Redact` nothing but
the marker is at or below a protected field (`RedactHides`). The argument is the
outermost field: of all the fields above a position one has no other above it, and
that one is replaced. `HiddenDocumentMeans` and `FilledDocumentMeans` describe what the
recorder and replay make of a document by the original alone.

Three more of its results are about texts and numbers of any length. Locations: `Position` reads back
what `ToPointer` writes (`PositionOfPointer`), and a pointer in which every tilde begins an escape is what
`ToPointer` writes of its position (`PointerOfPosition`), so that a field has one text and a text names one field.
Ignoring: comparing locations as text, which must not let `/a` ignore `/ab`, ignores the
position and what is below it and nothing else (`IgnoredMeans`). Numbers: canonical
digits and exponents are equal exactly if the signs and the digits with their powers of ten are
(`NumbersEqualMeans`). The folds are unfolded by `FlattenAppend`, and the inductions over texts go
through `SequenceInduction`, which speaks of a set of sequences that contains the
empty one and is closed under appending.

`RequestRedactionProofs` proves all invariants of run `redaction`, for any key order, header
names, requests, policies and runtime values that `CasesAssumption`, `NamesAssumption` and
`KeyOrderAssumption` describe (what the parsers and `validateConfig` let through).
`IInv` says of each place a request has come to which refusals it has
passed (`BuildInv`, `ApplyInv`) and that `stored`, `out` and `report` are what the operators `Recorded`,
`Outgoing`, `Substituted` and `Shown` make of the case. The work is in these operators:
`EncodeRoundTrip` (parsing undoes encoding), `HiddenText`, `FilledText` and
`FilledIsRestored` (what redaction and then replacement leave of the values of each key), the
same for documents, and `RedactQueryMeans` and `RedactBodyMeans` for the texts that are withheld. Then
`SentIsRestored` has one lemma per kind of text (`QuerySent`, `FormSent`, `DocumentSent`,
`OtherSent`), and `RestorableIsSent` one per refusal (`QueryNotRefused`) and kind of body
(`EmptyBodyPasses` … `FormPasses`).

The attempt to prove the last two found three states that the instance of TLC did not have, in
which the properties as first stated did not hold: a runtime value equal to the marker, an
overridden `Content-Encoding`, and a client's body that is the marker itself. They are written into
the properties and into `CasesAssumption`, and described below (*What is abstracted*).

`ResponseDiffProofs` proves `TypeOK`, `EquivalentIsEarned`, `ChangedIsReal`, `ProtectedStaysHidden`,
`DifferencesExplain` and `NothingOfASecretShows` for any header names, capture limit, responses, policies and ignore rules
(`NamesAssumption`, `LimitAssumption`, `CasesAssumption`: documents are trees, and rules are pointers as
`validateConfig` and `--ignore` let them through). `IInv` says that the baseline, the policy, the answer, the differences
and the outcome are what the operators `Stored`, `EffectiveFor`, `Answer`, `Compare` and `Judged`
make of the case; so each property becomes a statement about what two redactions and a
comparison leave of two documents. The arguments:

* *A redacted field is known.* Of all the recorder's rules that apply at or above a position, the
  outermost one left a marker in the stored document. Either diff has the rule, or it finds that marker
  and makes a rule of it (`RedactedFieldIsKnown`, `RedactedHeaderIsKnown`, `ProtectedIsKnown`).
* *Redaction is not seen.* What counts of a document is the same before and after a
  redaction whose fields the policy knows (`RedactionUnseen`, `BaselineSeen`, `ObservedSeen`).
* *The comparison reaches everything.* If it finds nothing in a pair of documents, what counts of them is equal
  (`NothingFound`), and if it finds something, it is not (`FoundApart`): a position at which two
  documents differ has a first position above it where they do, and all before that is entered.
* *The differences are exact.* They stand apart, and the baseline with the answer's values in their places
  is the answer (`PatchedAgrees`).

`NothingOfASecretShows` is proved for texts of any length, any secrets and any display limit
(`LettersAssumption`, `SecretsAssumption`: a secret has neither the layout between values nor the ellipsis,
which the model has as characters of their own). The argument:

* *The redactor walks.* `Scrub` is a recursive function over the text; `ScrubWalks` makes of it
  a walk from left to right, given by where it goes next and what it puts down. That there is such a walk is
  `WalkExists`, and what it puts down `WalkStays`, both by a least counterexample.
* *It never lands inside a secret.* Wherever it comes to, every spelling that began before has ended. This
  is where the longest match and `Nested` are needed: at a match, whatever begins within it ends within it.
  So what it copies is outside of all spellings (`ScrubHides`, `Bare`).
* *A piece is as good as the whole.* The code scrubs strings, keys and numbers one by one, the property is about the
  value as a whole. A spelling has no layout, so one that touches a piece lies within it
  (`WithinStands`, `WithinBare`, `JoinedHasAll`).
* *Nothing comes back.* Escaping, cutting off and scrubbing again put down what was there, escapes, the marker and
  the ellipsis (`PrintedType`, `TruncateType`, `ScrubKeeps`, `ShownHides`). Without the scrubbing
  before the cut this fails, and TLC refutes it (`ShownUnscrubbed`).

The proofs also showed that the properties of the verdict did not hold as they were first stated, in states that the
instance of TLC did not have then: `Legible` and `Uninspected` are the conditions that were missing, and the
instance now has these responses (*What is abstracted*).

Only model-checked, and why:

* Liveness (`SignalEnds`, `EndedSettles`, `Ends`): fairness is beyond these provers.

Induction over data needs the library's induction theorems, which take an operator as a
parameter; the installed provers cannot instantiate that. Where a definition speaks of indices
and not of itself, a least counterexample does the work (`LeastNatural`, from
`NatLessThanWellFounded`); this is how sortings, prefixes, digits and the walk of the redactor are treated, and
`SequenceInduction` makes of it an induction over sequences in terms of sets.

## What is abstracted, and what is not modelled

* **net/http and ReverseProxy** are modelled from their use: `Shutdown` waits for
  active but not for hijacked connections, and no handler starts after it began;
  `ReverseProxy` may return while the transport still reads the request body, then
  only closes it; it panics with `ErrAbortHandler` when copying a response fails. On a 101
  it hijacks the connection, calls the error handler if that or the writing of the 101 fails, and returns
  normally however the tunnel ends. A request that asks for an upgrade and has a body which the transport
  still reads when the 101 arrives reads on from the connection of the tunnel; that such reads
  may return bytes of the tunnel in place of the body's is not modelled.
* **SQLite** is atomic: a transaction commits as a whole or not at all, also when
  the process dies. `PRAGMA optimize` needs the connection but changes no row.
* "Delivered" means accepted by the server's `ResponseWriter`.
* A torn slice header inside `bytes.Buffer` is not modelled: the fields of one
  buffer change together. The race on the fields of `captureReadCloser` is.
* Unreachable code is left out: the branch for a nil request body (the server
  never passes one) and the select branch for `ErrServerClosed` (only the same
  goroutine shuts the server down).
* The result of `os.Remove` after a failed creation is ignored by the code and
  taken to succeed.
* `Open` and the schema validation change nothing and are a fixed list of checks.
* Configuration parsing, help and formatting have no state; their failures are
  the early returns of `Prepare` and `Open`.
* `ReplayRun` does not tell JSON from form bodies (both are looked into if their type
  says so), and leaves out headers; both are in `RequestRedaction`. `http.Transport` may itself send an idempotent
  request again on a reused connection that was closed; that is external and
  `sent` counts what the client is given.
* `ResponseDiff` leaves out the `Content-Encoding` of responses: an encoded body is withheld when
  there are body rules (fields.go:199), as one of another type is, and the comparison then fails.
* `ResponseDiff` compares bytes as records, so that two spellings of one body are two
  only where a property needs them to be (numbers, duplicate keys). Its header
  names are lower case and have one value. Forms are not rewritten in
  its cases (they are in `RequestRedaction`), their differences are "body_changed". The limit is that of the
  recording. Differences are a set; the order in which they are printed is not modelled.
* A recorder that redacts both `Content-Type` and fields of JSON, and whose policy diff could not
  read, leaves a recording in which redacted fields cannot be told from a literal marker
  of the application: an answer with the literal `<REDACTED>` is then called equivalent, and one
  without it changed. `Legible` excludes this. JSON that is served as a form is not looked into
  by rules for JSON (docs/SECURITY.md:16: supported formats without matching rules stay uninspected), so a body may be recorded in clear and come back
  under another type redacted, or the reverse; `Uninspected` excludes it from
  `ChangedIsReal` and `ProtectedStaysHidden`, not from `EquivalentIsEarned`.
* Of a printed value, `Report` has the keys and scalars in some order; booleans, error
  messages and layout are left out, but for one character `Layout` behind each. The marker and the ellipsis count as
  one character each, and no secret has the layout or the ellipsis. Secrets that
  overlap, that occur in the marker or in escapes, and keys that become equal when
  they are scrubbed are not covered: `NothingOfASecretShows` is about secrets that lie
  apart or one within the other.
* `RequestRedaction` has one value per header. A path is its segments; "//" alone and three
  leading slashes are left out. `SentIsRestored` says nothing of the body when the recorder
  redacted `Content-Type` or the replay overrides it: the body is then looked at as another type than it
  was redacted as, and a marker in it can go out. The same holds when the replay overrides `Content-Encoding` of a
  plain body (`StillPlain`): `rejectRemainingMarkers` does not look into it then. A client whose
  body is the marker itself is left out. A runtime value that equals the marker is
  sent by no replay: `rejectRemainingMarkers` takes it for a field that was not replaced. A header whose value is
  the literal marker is dropped, a query whose only parameter is `redacted` with a
  redacted value reads as withheld, and a literal marker in a query or a body is
  taken for a redaction and refused; these fail closed, and `Restorable` excludes them.

## Plan

Done: every module above and the proofs named. Left, if it is worth it:

1. Precedence of options, file and environment in `resolveRequestConfig`, if it grows state.
